---------------------------- MODULE ReplayFixtures ----------------------------
(***************************************************************************)
(* ReplayAdapter: an answer is recorded in a file named by what was asked, *)
(* and read back from there.  The file is written in place, by calls that  *)
(* may go on after their panelist timed out.  In front of 0G Compute, or   *)
(* replaced by StubLlmAdapter.                                             *)
(***************************************************************************)
EXTENDS OgCompute

CONSTANTS
  Questions,    \* what panelists are asked: a model and a prompt
  StubAnswer    \* StubAnswer[q]: the vote stableHash makes of q

VARIABLES
  fixtures,  \* fixtures[key], where there is such a file: what is in it
  call       \* call[c]: where runPanelist of caller c is, and its result

replayVars == <<fixtures, call>>

Truncated == [says |-> "unreadable", to |-> None]
CallIdle == [pc |-> "Idle", question |-> None, result |-> None]
CallOver == [CallIdle EXCEPT !.pc = "Over"]
CallStages ==
  {"Idle", "Read", "Inner", "Open", "Write", "Returned", "Threw", "Over"}

Recordings ==
  [says : Answers \cup {"REFUND", "REJECT"}, to : Questions] \cup {Truncated}

(* A question is no placeholder, and the stub answers each.                *)
ASSUME ReplayAssumption ==
  /\ None \notin Questions /\ \A q \in Questions : q.model \in Names
  /\ StubAnswer \in [Questions -> {"REFUND", "REJECT"}]

(* computeFixtureKey                                                       *)
PromptOnly(q) == [q EXCEPT !.model = None]
ModelOnly(q) == CHOOSE r \in Questions : r.model = q.model
ComputeFixtureKey(q) == q
FixtureOf(c) == fixtures[ComputeFixtureKey(call[c].question)]

CallGoes(c, stage) == call' = [call EXCEPT ![c].pc = stage]
Returns(c, answer) ==
  call' = [call EXCEPT ![c].pc = "Returned", ![c].result = answer]
Record(c, content) ==
  LET key == ComputeFixtureKey(call[c].question)
  IN  fixtures' = [q \in DOMAIN fixtures \cup {key} |->
                     IF q = key THEN content ELSE fixtures[q]]

-----------------------------------------------------------------------------
(* exists() answers: the file is read, or the adapter below is asked,      *)
(* unless the fixtures are frozen.                                         *)
LooksUp(c, q, frozen) ==
  LET recorded == ComputeFixtureKey(q) \in DOMAIN fixtures
  IN
  /\ call[c].pc = "Idle"
  /\ call' = [call EXCEPT ![c] =
       [@ EXCEPT !.question = q,
                 !.pc = IF recorded THEN "Read"
                        ELSE IF frozen THEN "Threw" ELSE "Inner"]]
  /\ UNCHANGED <<ogVars, fixtures>>

(* The file is read and parsed as it is by now.                            *)
Reads(c) ==
  /\ call[c].pc = "Read"
  /\ IF FixtureOf(c) = Truncated THEN CallGoes(c, "Threw")
     ELSE Returns(c, FixtureOf(c))
  /\ UNCHANGED <<ogVars, fixtures>>

(* The inner runPanelist.                                                  *)
AsksInner(c) ==
  /\ call[c].pc = "Inner"
  /\ FetchCatalog(c, call[c].question.model) \/ ListingSteps(c)
  /\ UNCHANGED replayVars

LeavesOg(c) ==
  /\ og' = [og EXCEPT ![c] = OgIdle]
  /\ UNCHANGED <<now, listed, broker, catalog>>

InnerAnswers(c) ==
  /\ call[c].pc = "Inner" /\ og[c].pc = "Listed"
  /\ \E answer \in Replies(c, call[c].question) :
       call' = [call EXCEPT ![c].pc = "Open", ![c].result = answer]
  /\ LeavesOg(c)
  /\ UNCHANGED fixtures

InnerThrows(c) ==
  /\ call[c].pc = "Inner" /\ InferenceFails(c)
  /\ CallGoes(c, "Threw")
  /\ LeavesOg(c)
  /\ UNCHANGED fixtures

(* writeFile truncates the file, or creates it empty, ...                  *)
Opens(c) ==
  /\ call[c].pc = "Open"
  /\ Record(c, Truncated)
  /\ CallGoes(c, "Write")
  /\ UNCHANGED ogVars

(* ... and writes; two that overlap may mix.                               *)
Overlaps(c) ==
  \E d \in Callers \ {c} :
    call[d].pc = "Write" /\ call[d].question = call[c].question

Writes(c) ==
  /\ call[c].pc = "Write"
  /\ Record(c, call[c].result) \/ (Overlaps(c) /\ Record(c, Truncated))
  /\ CallGoes(c, "Returned")
  /\ UNCHANGED ogVars

(* No space, no permission: an answer that was paid for is lost.           *)
WriteFails(c) ==
  /\ call[c].pc \in {"Open", "Write"}
  /\ call' = [call EXCEPT ![c].pc = "Threw", ![c].result = None]
  /\ UNCHANGED <<ogVars, fixtures>>

ReplaySteps(c) ==
  \/ Reads(c) \/ AsksInner(c) \/ InnerAnswers(c) \/ InnerThrows(c)
  \/ Opens(c) \/ Writes(c) \/ WriteFails(c)

(* StubLlmAdapter answers at once.                                         *)
StubAnswers(c, q) ==
  /\ call[c].pc = "Idle"
  /\ call' = [call EXCEPT ![c] =
       [pc |-> "Returned", question |-> q,
        result |-> [says |-> StubAnswer[q], to |-> q]]]
  /\ UNCHANGED <<ogVars, fixtures>>

-----------------------------------------------------------------------------
IsDirectory(files) ==
  /\ DOMAIN files \subseteq Questions
  /\ \A q \in DOMAIN files : files[q] \in Recordings

ReplayTypeOK ==
  /\ IsDirectory(fixtures)
  /\ \A c \in Callers :
       /\ call[c].pc \in CallStages
       /\ call[c].question \in Questions \cup {None}
       /\ call[c].result \in Recordings \cup {None}

(* A file holds an answer to just what it is named by, or none.            *)
Faithful(files) ==
  \A q \in DOMAIN files : files[q] = Truncated \/ files[q].to = q

(* What a call returns was answered to the very model and prompt the call  *)
(* asks, and is whole: calls that outlive their timeout, write over one    *)
(* another or find what an earlier run left never hand one question the    *)
(* answer to another.  Disputes that read alike are one question: a prompt *)
(* does not name its dispute, so they share an answer.                     *)
ReplayIsFaithful ==
  \A c \in Callers : call[c].pc = "Returned" =>
    call[c].result # Truncated /\ call[c].result.to = call[c].question
=============================================================================
