---------------------------- MODULE PanelCalls ----------------------------
(***************************************************************************)
(* The HTTP calls the panel service makes to apps/api about one dispute,   *)
(* through DirectTxAdapter.  request[c] is where call c is on the side of  *)
(* apps/api: not made, on its way, in the handler between two awaits,      *)
(* answered, or lost on the way.  The caller waits until the call returns  *)
(* or throws; a throw because the response was lost leaves the handler     *)
(* running.                                                                *)
(***************************************************************************)
EXTENDS Integers

CONSTANTS
  Panel,     \* the models pickDistinctModels chose
  Settings,  \* the values of setting
  None       \* nothing yet, no row

FaultKinds == {"unreachable", "responseLost", "database", "storage", "keeper",
               "models", "crash"}

ASSUME SettingsAssumption ==
  Settings \subseteq
    [keeper : BOOLEAN, numericID : BOOLEAN, faults : SUBSET FaultKinds]

VARIABLES
  request,
  setting   \* never changes: keeper, verdicts go through the keeper adapter;
            \* numericID, the dispute has an on-chain ID, no UUID of
            \* apps/api; faults, what may go wrong

Faults == setting.faults

SettlementSteps == <<"VERDICT_ONCHAIN", "KEEPER_CLAIMED", "FUNDS_RELEASED",
                     "ENS_REPUTATION">>

VoteUpdate(model, status) ==
  [kind |-> "vote-update", subject |-> model, status |-> status]
SettlementStep(k, status) ==
  [kind |-> "settlement-step", subject |-> k, status |-> status]
Verdict == [kind |-> "verdict", subject |-> 0, status |-> "FINAL"]

VoteUpdates ==
  {VoteUpdate(model, status) :
     model \in Panel, status \in {"REASONING", "VOTED", "FAILED"}}
StepUpdates ==
  {SettlementStep(k, status) :
     k \in 1..4, status \in {"IN_PROGRESS", "COMPLETED"}}
Calls == VoteUpdates \cup StepUpdates \cup {Verdict}

(* The handler of a call stops at each await of the database.              *)
InHandler == {"RowWritten", "StatusWritten"}
RequestStates == {"None", "Sent", "Handled", "Lost"} \cup InHandler

Moved(c, to) == request' = [request EXCEPT ![c] = to]

WithSent(requests, next) ==
  [c \in Calls |-> IF c \in next THEN "Sent" ELSE requests[c]]

(* The promise of callback(): resolved by a 2xx, upon which the caller goes *)
(* on to make the calls in `next`, ...                                     *)
Returns(c, next) ==
  /\ request[c] = "Handled"
  /\ request' = WithSent(request, next)

(* ... or rejected, because the request never reached a handler (network   *)
(* error, non-2xx) or because its response never came back.                *)
Throws(c, next) ==
  \/ /\ "unreachable" \in Faults
     /\ request[c] = "Sent"
     /\ request' = WithSent([request EXCEPT ![c] = "Lost"], next)
  \/ /\ "responseLost" \in Faults
     /\ request[c] \in {"Sent", "Handled"} \cup InHandler
     /\ request' = WithSent(request, next)

(* An awaited call whose rejection is caught and logged.                   *)
NotAwaited(c) == UNCHANGED request
Settled(c) == Returns(c, {}) \/ Throws(c, {})

(* No call is on its way or being handled.                                 *)
Quiet == \A c \in Calls : request[c] \in {"None", "Handled", "Lost"}
=============================================================================
