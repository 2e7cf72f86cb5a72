---------------------------- MODULE EnsReputation ----------------------------
(***************************************************************************)
(* The identity adapters: EnsReputationIdentityAdapter reads the counters  *)
(* of a name from its text records, adds one and sends a transaction for   *)
(* each of them; the memory adapter adds in place; the read-only one only  *)
(* logs.  A name is the sequence of its labels.                            *)
(***************************************************************************)
EXTENDS Integers, SequencesExt

CONSTANTS
  Writers,       \* writeReputation calls
  EnsNames,      \* the names they are made for
  SubnameSpace,  \* ENS_SUBNAME_SPACE
  Noone

VARIABLES
  texts,  \* texts[name][key]: the counters
  write   \* write[w]: where call w is, its record and the texts it has to
          \* set there, pairs of a key and a value

reputationVars == <<texts, write>>

TextKeys == {"total", "won", "lost"}

(* A name outside the space has its record under it, less its last label.  *)
TargetName(ens) ==
  IF IsStrictSuffix(SubnameSpace, ens) THEN ens ELSE Front(ens) \o SubnameSpace

Records == EnsNames \cup {TargetName(ens) : ens \in EnsNames}
ASSUME ReputationAssumption == Noone \notin Records

ZeroTexts == [key \in TextKeys |-> 0]
WriteIdle == [pc |-> "Idle", name |-> Noone, new |-> {}]

ReputationInit ==
  /\ texts = [name \in Records |-> ZeroTexts]
  /\ write = [w \in Writers |-> WriteIdle]

Inflated(old, outcome) ==
  [old EXCEPT !.total = @ + 1, !.won = @ + 1, ![outcome] = @ + 1]
Credited(old, outcome) == [old EXCEPT !.total = @ + 1, ![outcome] = @ + 1]
Pairs(counters) == {<<key, counters[key]>> : key \in TextKeys}

-----------------------------------------------------------------------------
(* Three calls of text(), answered from one block.                         *)
ReadsTexts(w, ens, outcome) ==
  LET name == TargetName(ens)
  IN
  /\ write[w].pc = "Idle"
  /\ write' = [write EXCEPT ![w] =
       [pc |-> "Read", name |-> name,
        new |-> Pairs(Credited(texts[name], outcome))]]
  /\ UNCHANGED texts

(* The transactions are sent together.  One that is refused rejects        *)
(* Promise.all, which is logged while the others go their way: here it is  *)
(* one that is never mined.                                                *)
SendsTexts(w) ==
  /\ write[w].pc = "Read"
  /\ write' = [write EXCEPT ![w].pc = "Settled"]
  /\ UNCHANGED texts

(* A transaction is mined, at any later time and in any order.             *)
Mines(w) ==
  /\ write[w].pc = "Settled"
  /\ \E text \in write[w].new :
       /\ texts' = [texts EXCEPT ![write[w].name][text[1]] = text[2]]
       /\ write' = [write EXCEPT ![w].new = @ \ {text}]

(* The records cannot be read, or nothing is written at all: the read-only *)
(* adapter, and ethers missing.                                            *)
WritesNothing(w, ens) ==
  /\ write[w].pc = "Idle"
  /\ write' = [write EXCEPT ![w].pc = "Settled", ![w].name = ens]
  /\ UNCHANGED texts

AddsInMemory(w, ens, outcome) ==
  /\ write[w].pc = "Idle"
  /\ texts' = [texts EXCEPT ![ens] = Credited(@, outcome)]
  /\ write' = [write EXCEPT ![w].pc = "Settled", ![w].name = ens]

WriteReputation(w, ens, outcome, adapter) ==
  \/ adapter = "Memory" /\ AddsInMemory(w, ens, outcome)
  \/ adapter # "Memory" /\ WritesNothing(w, ens)
  \/ adapter = "EnsReputation"
     /\ (ReadsTexts(w, ens, outcome) \/ SendsTexts(w))

WriteSettled(w) == write[w].pc = "Settled"

ReputationTypeOK ==
  /\ texts \in [Records -> [TextKeys -> 0..Cardinality(Writers)]]
  /\ write \in [Writers ->
       [pc : {"Idle", "Read", "Settled"}, name : Records \cup {Noone},
        new : SUBSET (TextKeys \X (0..Cardinality(Writers)))]]
=============================================================================
