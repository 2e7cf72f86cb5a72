------------------------ MODULE ContractEventTrigger ------------------------
(***************************************************************************)
(* ContractEventTriggerAdapter: starts an adjudication for every           *)
(* DisputeCreation event, from a live subscription and from a poller that  *)
(* catches up from lastSeenBlock.  The handlers of the subscription and of *)
(* the polls interleave at every await; lastSeenBlock is read before an    *)
(* adjudication and written after it, and is kept in a file.               *)
(***************************************************************************)
EXTENDS Integers, FiniteSets, FiniteSetsExt

CONSTANTS
  Disputes,    \* 1..n, in the order of their logs
  BlockOf,     \* BlockOf[d]: block of the DisputeCreation event of d
  MaxBlock,    \* bound: blocks the chain grows to
  Polls,       \* runs of catchup()
  Settings,    \* the values of setting
  MaxFaults    \* bound: how often each fault happens

StartBlock == 0
FaultKinds == {"disconnect", "failure", "exit", "stop", "disk"}

ASSUME TriggerAssumption ==
  /\ MaxBlock \in Nat /\ MaxFaults \in Nat
  /\ IsFiniteSet(Disputes) /\ Disputes = 1..Cardinality(Disputes)
  /\ BlockOf \in [Disputes -> 1..MaxBlock]
  /\ \A d, e \in Disputes : d <= e => BlockOf[d] <= BlockOf[e]
  /\ Settings \subseteq
       [subscribed : BOOLEAN, polls : SUBSET Polls, faults : SUBSET FaultKinds]

VARIABLES
  setting,    \* never changes: subscribed, FALSE when subscribing failed and
              \* start() goes on without; polls, a bound on the catchup()
              \* runs under way at once; faults, what may go wrong
  head,       \* the chain's current block
  running,    \* start() was called, stop() was not
  lastSeen,   \* this.lastSeenBlock
  stored,     \* lastSeenBlock in trigger-state.json, 0 if it has none
  cursor,     \* logs the subscription has delivered or missed
  live,       \* live[d]: where the subscription's handler for d is
  poll,       \* poll[k]: a run of catchup()
  started,    \* started[d]: adjudications begun for d
  finished,   \* disputes adjudicated at least once
  event,      \* event[d]: what became of the event at the subscription
  faults      \* faults[f]: times f happened

chain == <<setting, head, faults>>
history == <<started, finished, event>>
vars == <<chain, running, lastSeen, stored, cursor, live, poll, history>>

HandlerStates == {"None", "Adjudicating", "Persisting"}
PollStates ==
  {"Idle", "Head", "Logs", "Adjudicating", "Persisting", "PersistingHead"}
IdlePoll == [pc |-> "Idle", head |-> 0, logs |-> {}]

MaxOf(a, b) == IF a >= b THEN a ELSE b

(* Logs of the blocks first..last, which getLogs returns in their order.   *)
Logs(first, last) == {d \in Disputes : BlockOf[d] \in first..last}

Fault(f) ==
  /\ f \in setting.faults /\ faults[f] < MaxFaults
  /\ faults' = [faults EXCEPT ![f] = @ + 1]

Init ==
  /\ setting \in Settings
  /\ head = 0 /\ running = FALSE
  /\ lastSeen = StartBlock /\ stored = 0 /\ cursor = 0
  /\ live = [d \in Disputes |-> "None"]
  /\ poll = [k \in Polls |-> IdlePoll]
  /\ started = [d \in Disputes |-> 0]
  /\ finished = {} /\ event = [d \in Disputes |-> "None"]
  /\ faults = [f \in FaultKinds |-> 0]

-----------------------------------------------------------------------------
Mine ==
  /\ head < MaxBlock /\ head' = head + 1
  /\ UNCHANGED <<setting, faults, running, lastSeen, stored, cursor, live,
                 poll, history>>

(* loadState, then subscribe to what comes from here on, then poll.        *)
Start ==
  /\ ~running /\ running' = TRUE
  /\ lastSeen' = MaxOf(lastSeen, stored)
  /\ cursor' = Cardinality(Logs(0, head))
  /\ UNCHANGED <<chain, stored, live, poll, history>>

(* persistState.  A write that fails is logged and leaves the file as it   *)
(* was or truncated; so does one that another write overtakes.             *)
PersistState ==
  \/ stored' = lastSeen
  \/ "disk" \in setting.faults /\ stored' \in {stored, 0}

(* stop() persists; what is under way goes on.                             *)
Stop ==
  /\ running /\ Fault("stop")
  /\ running' = FALSE
  /\ PersistState
  /\ UNCHANGED <<setting, head, lastSeen, cursor, live, poll, history>>

Persisting ==
  \/ \E d \in Disputes : live[d] = "Persisting"
  \/ \E k \in Polls : poll[k].pc \in {"Persisting", "PersistingHead"}

(* The process ends, and with it what was under way.  A write of the state *)
(* file that was under way left it written, truncated or as it was.        *)
ProcessEnds ==
  /\ running' = FALSE
  /\ lastSeen' = StartBlock
  /\ stored' \in {stored} \cup (IF Persisting THEN {lastSeen, 0} ELSE {})
  /\ live' = [d \in Disputes |-> "None"]
  /\ poll' = [k \in Polls |-> IdlePoll]
  /\ UNCHANGED <<setting, head, cursor, started, finished, event>>

Exit == Fault("exit") /\ ProcessEnds

-----------------------------------------------------------------------------
(* handleLog skips what lies at or before lastSeenBlock.                   *)
IsNewer(d) == BlockOf[d] > lastSeen + 1
IsNew(d) == BlockOf[d] > lastSeen

Begin(d) == started' = [started EXCEPT ![d] = @ + 1]

(* adjudicate() resolved.                                                  *)
Complete(d) ==
  /\ finished' = finished \cup {d}
  /\ lastSeen' = BlockOf[d]

EventDue ==
  running /\ setting.subscribed /\ cursor < Cardinality(Logs(0, head))

(* The subscription's handler runs up to its first await.                  *)
Deliver ==
  LET d == cursor + 1
  IN
  /\ EventDue
  /\ cursor' = d
  /\ event' = [event EXCEPT ![d] = "Delivered"]
  /\ \/ IsNew(d) /\ live' = [live EXCEPT ![d] = "Adjudicating"] /\ Begin(d)
     \/ ~IsNew(d) /\ UNCHANGED <<live, started>>
  /\ UNCHANGED <<chain, running, lastSeen, stored, poll, finished>>

(* The connection is down while the event passes.                          *)
Miss ==
  /\ EventDue /\ Fault("disconnect")
  /\ cursor' = cursor + 1
  /\ event' = [event EXCEPT ![cursor + 1] = "Missed"]
  /\ UNCHANGED <<setting, head, running, lastSeen, stored, live, poll,
                 started, finished>>

LiveCompletes(d) ==
  /\ live[d] = "Adjudicating"
  /\ Complete(d)
  /\ live' = [live EXCEPT ![d] = "Persisting"]
  /\ UNCHANGED <<chain, running, stored, cursor, poll, started, event>>

(* Nobody catches the rejection of `void this.handleLog(log)`: the process *)
(* ends.                                                                   *)
LiveFails(d) == live[d] = "Adjudicating" /\ Fault("failure") /\ ProcessEnds

LivePersists(d) ==
  /\ live[d] = "Persisting"
  /\ PersistState
  /\ live' = [live EXCEPT ![d] = "None"]
  /\ UNCHANGED <<chain, running, lastSeen, cursor, poll, history>>

-----------------------------------------------------------------------------
PollGoesTo(k, pc) == poll' = [poll EXCEPT ![k].pc = pc]

(* The timer fires, whether or not another catchup() is running, and       *)
(* getBlockNumber answers.                                                 *)
Poll(k) ==
  /\ running /\ k \in setting.polls /\ poll[k].pc = "Idle"
  /\ head > lastSeen
  /\ poll' = [poll EXCEPT ![k].pc = "Head", ![k].head = head]
  /\ UNCHANGED <<chain, running, lastSeen, stored, cursor, live, history>>

(* getLogs, from what lastSeenBlock is by now.                             *)
PollGetsLogs(k) ==
  /\ poll[k].pc = "Head"
  /\ poll' = [poll EXCEPT ![k].pc = "Logs",
                          ![k].logs = Logs(lastSeen + 1, poll[k].head)]
  /\ UNCHANGED <<chain, running, lastSeen, stored, cursor, live, history>>

(* A node may refuse a range that ends before it begins.                   *)
PollRefused(k) ==
  /\ poll[k].pc = "Head" /\ lastSeen + 1 > poll[k].head
  /\ poll' = [poll EXCEPT ![k] = IdlePoll]
  /\ UNCHANGED <<chain, running, lastSeen, stored, cursor, live, history>>

(* The loop over the logs, from the first to the last.                     *)
NextLog(k) == Min(poll[k].logs)
HasLog(k) == poll[k].pc = "Logs" /\ poll[k].logs # {}

PollSkips(k) ==
  /\ HasLog(k) /\ ~IsNew(NextLog(k))
  /\ poll' = [poll EXCEPT ![k].logs = @ \ {NextLog(k)}]
  /\ UNCHANGED <<chain, running, lastSeen, stored, cursor, live, history>>

PollHandles(k) ==
  /\ HasLog(k) /\ IsNew(NextLog(k))
  /\ Begin(NextLog(k))
  /\ PollGoesTo(k, "Adjudicating")
  /\ UNCHANGED <<chain, running, lastSeen, stored, cursor, live, finished,
                 event>>

PollCompletes(k) ==
  /\ poll[k].pc = "Adjudicating"
  /\ Complete(NextLog(k))
  /\ poll' = [poll EXCEPT ![k].pc = "Persisting", ![k].logs = @ \ {NextLog(k)}]
  /\ UNCHANGED <<chain, running, stored, cursor, live, started, event>>

(* A rejection ends this catchup(); a later one starts from lastSeenBlock. *)
PollFails(k) ==
  /\ poll[k].pc = "Adjudicating" /\ Fault("failure")
  /\ poll' = [poll EXCEPT ![k] = IdlePoll]
  /\ UNCHANGED <<setting, head, running, lastSeen, stored, cursor, live,
                 history>>

PollPersists(k) ==
  /\ poll[k].pc = "Persisting"
  /\ PersistState
  /\ PollGoesTo(k, "Logs")
  /\ UNCHANGED <<chain, running, lastSeen, cursor, live, history>>

(* Every log was handled: lastSeenBlock becomes the head read at the start.*)
HeadByNow(k) == head
NextToScan(k) == poll[k].head + 1
HeadAtStart(k) == poll[k].head

PollReachesHead(k) ==
  /\ poll[k].pc = "Logs" /\ poll[k].logs = {}
  /\ lastSeen' = HeadAtStart(k)
  /\ PollGoesTo(k, "PersistingHead")
  /\ UNCHANGED <<chain, running, stored, cursor, live, history>>

PollEnds(k) ==
  /\ poll[k].pc = "PersistingHead"
  /\ PersistState
  /\ poll' = [poll EXCEPT ![k] = IdlePoll]
  /\ UNCHANGED <<chain, running, lastSeen, cursor, live, history>>

Live(d) == LiveCompletes(d) \/ LiveFails(d) \/ LivePersists(d)

Handling(k) ==
  PollHandles(k) \/ PollCompletes(k) \/ PollFails(k) \/ PollPersists(k)

Catchup(k) ==
  \/ Poll(k) \/ PollGetsLogs(k) \/ PollRefused(k) \/ PollSkips(k)
  \/ Handling(k) \/ PollReachesHead(k) \/ PollEnds(k)

Next ==
  \/ Mine \/ Start \/ Stop \/ Exit
  \/ Deliver \/ Miss \/ \E d \in Disputes : Live(d)
  \/ \E k \in Polls : Catchup(k)

Spec == Init /\ [][Next]_vars

(* Timers fire, adjudications end (AdjudicationEnds of DisputeLifecycle)   *)
(* and whatever runs the process starts it again.                          *)
Fairness ==
  /\ WF_vars(Start)
  /\ \A k \in Polls : WF_vars(Catchup(k))
  /\ \A d \in Disputes : WF_vars(Live(d))

FairSpec == Spec /\ Fairness

-----------------------------------------------------------------------------
Polling == [pc : PollStates, head : 0..MaxBlock, logs : SUBSET Disputes]

TypeOK ==
  /\ setting \in Settings
  /\ head \in 0..MaxBlock /\ running \in BOOLEAN
  /\ lastSeen \in 0..head /\ stored \in 0..head
  /\ cursor \in 0..Cardinality(Disputes)
  /\ live \in [Disputes -> HandlerStates]
  /\ poll \in [Polls -> Polling]
  /\ started \in [Disputes -> Nat]
  /\ finished \subseteq Disputes
  /\ event \in [Disputes -> {"None", "Delivered", "Missed"}]
  /\ faults \in [FaultKinds -> 0..MaxFaults]

(* The logs of one block are handled in their order, and all but the first *)
(* that is handled are taken for seen.                                     *)
FirstOfBlock(d) == \A e \in Disputes : BlockOf[e] = BlockOf[d] => d <= e

(* The subscription has delivered nothing so far, or there is none.        *)
OnlyPolled == \A d \in Disputes : event[d] # "Delivered"

(* As long as it works alone the poller leaves no first dispute of a block *)
(* behind, whatever overlaps, fails or dies: lastSeenBlock, in memory and  *)
(* on disk, only passes blocks of which that dispute was adjudicated.      *)
SeenMeansAdjudicated ==
  OnlyPolled =>
    \A d \in Disputes :
      FirstOfBlock(d) /\ (BlockOf[d] <= lastSeen \/ BlockOf[d] <= stored) =>
        d \in finished

(* An event the subscription delivered is dropped only when an adjudication*)
(* was begun for it or an earlier dispute of its block, by its handler or a*)
(* poll.  That one may fail: behind lastSeenBlock it is then not repeated. *)
DeliveredIsTriggered ==
  \A d \in Disputes :
    event[d] = "Delivered" =>
      \E e \in 1..d : BlockOf[e] = BlockOf[d] /\ started[e] > 0

(* The class comment: "Catch up periodically via getLogs() from            *)
(* lastSeenBlock so we never miss an event during a brief disconnect".     *)
(* When nothing is under way, a dispute at or before lastSeenBlock was     *)
(* handed to the panel: no poll will look there again.                     *)
AtRest ==
  /\ \A d \in Disputes : live[d] = "None"
  /\ \A k \in Polls : poll[k].pc = "Idle"

CaughtUp(d) == AtRest /\ BlockOf[d] <= lastSeen => started[d] > 0

CatchesUpAfterDisconnect ==
  \A d \in Disputes : event[d] = "Missed" => CaughtUp(d)

(* The same comment where nothing fails and no subscription runs: "never   *)
(* miss an event".                                                         *)
NeverMissesAnEvent == \A d \in Disputes : CaughtUp(d)

(* With the poller alone, of every block the first dispute is eventually   *)
(* adjudicated.                                                            *)
EveryBlockAdjudicated ==
  \A d \in Disputes :
    FirstOfBlock(d) => (BlockOf[d] <= head ~> d \in finished \/ ~OnlyPolled)
=============================================================================
