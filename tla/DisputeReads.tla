---------------------------- MODULE DisputeReads ----------------------------
(***************************************************************************)
(* What apps/api serves about the dispute to one browser: the dispute as   *)
(* JSON, its event stream, and the evidence the browser attaches to it.    *)
(* No read is in a transaction with a write: a GET is answered from what   *)
(* two moments showed, and the panel is sent the evidence of a third.      *)
(***************************************************************************)
EXTENDS DisputeLifecycle

CONSTANTS
  Files,          \* evidence a browser may attach
  BrowserFaults,  \* what may fail between browser and apps/api
  MaxOvertaken    \* bound: settlement steps an answer on its way may miss

ASSUME BrowserFaultsAssumption ==
  BrowserFaults \subseteq {"fetch", "attach", "stream"}

VARIABLES
  attached,   \* attached[file]: the POST of file to /disputes/:id/evidence
  bundle,     \* the evidence startAdjudication read, None before it did
  fetch,      \* the browser's GET /disputes/:id
  stream,     \* the browser's EventSource on /disputes/:id/stream
  inbox       \* events emitted to the stream and not yet handled

readVars == <<attached, bundle, fetch, stream, inbox>>

AttachStates == {"None", "Queued", "Sent", "Stored", "Failed"}
Evidence == {file \in Files : attached[file] = "Stored"}

(* serializeDispute                                                        *)
Serialized(row, panelVotes, verdictRow, settlementSteps, files) ==
  [status |-> row, votes |-> panelVotes, verdict |-> verdictRow,
   steps |-> settlementSteps, evidence |-> files]

(* The answer to POST /disputes: the rows as create() returned them.       *)
WithoutVotes ==
  Serialized("PENDING", <<>>, None, [k \in 1..4 |-> "PENDING"], {})
FreshDispute ==
  Serialized("PENDING", [model \in Rows |-> PendingVote], None,
             [k \in 1..4 |-> "PENDING"], {})

-----------------------------------------------------------------------------
(* startAdjudication: the evidence that has come so far goes with the      *)
(* request to the panel.                                                   *)
ReadBundle ==
  /\ trigger = "Posting" /\ bundle = None
  /\ bundle' = Evidence
  /\ UNCHANGED <<attached, fetch, stream, inbox>>

(* EvidenceService.submit: a row for the file, or a request that fails.    *)
Submitted(file) ==
  /\ attached[file] = "Sent" /\ Known
  /\ attached' = [attached EXCEPT ![file] = "Stored"]
  /\ UNCHANGED <<bundle, fetch, stream, inbox>>

NotSubmitted(file) ==
  /\ "attach" \in BrowserFaults
  /\ attached[file] = "Sent"
  /\ attached' = [attached EXCEPT ![file] = "Failed"]
  /\ UNCHANGED <<bundle, fetch, stream, inbox>>

(* getById: findUnique reads the row of the dispute, ...                   *)
ReadRow ==
  /\ fetch.at = "Sent" /\ Known
  /\ fetch' = [fetch EXCEPT !.at = "RowRead", !.body = status]
  /\ UNCHANGED <<attached, bundle, stream, inbox>>

(* ... then the rows its include names.  Prisma issues one statement for   *)
(* each relation; they are taken for one moment.                           *)
ReadRelations ==
  /\ fetch.at = "RowRead"
  /\ fetch' = [fetch EXCEPT !.at = "Answered",
                 !.body = Serialized(fetch.body, votes, verdict, steps, Evidence)]
  /\ UNCHANGED <<attached, bundle, stream, inbox>>

(* stream: the dispute exists, the response follows its events.            *)
Subscribe ==
  /\ stream = "Connecting" /\ Known
  /\ stream' = "Open"
  /\ UNCHANGED <<attached, bundle, fetch, inbox>>

(* Events on their way: some that announce a change, then the final status.*)
(* How many is left open, and those behind the final status are left out:  *)
(* the browser closes the stream there.                                    *)
NoEvents == [changes |-> FALSE, final |-> FALSE]

Overtaken ==
  {k \in 1..4 : fetch.at = "Answered" /\ fetch.body.steps[k] # steps'[k]}

(* The handler of c emits its events at its end, to who is subscribed.     *)
Relay(c) ==
  /\ c \in StepUpdates => Cardinality(Overtaken) <= MaxOvertaken
  /\ inbox' = IF stream = "Open" /\ request'[c] = "Handled" /\ ~inbox.final
              THEN [changes |-> TRUE, final |-> c = Verdict]
              ELSE inbox
  /\ UNCHANGED <<attached, bundle, fetch, stream>>

(* A connection lost, or closed after MAX_STREAM_LIFETIME_MS, is opened    *)
(* again; the events of the meantime are not sent again.                   *)
StreamDrops ==
  /\ "stream" \in BrowserFaults
  /\ stream = "Open"
  /\ stream' = "Connecting"
  /\ inbox' = NoEvents
  /\ UNCHANGED <<attached, bundle, fetch>>
=============================================================================
