--------------------- MODULE ContractEventTriggerProofs ---------------------
(***************************************************************************)
(* Until the subscription delivers an event, the poller never leaves the   *)
(* first dispute of a block behind: for every chain, any number of         *)
(* overlapping polls and any combination of faults.  Afterwards it does,   *)
(* see CatchesUpAfterDisconnect, and the later disputes of a block it skips*)
(* anyway, see NeverMissesAnEvent.  What the subscription delivered is only*)
(* dropped for a dispute of its block that was begun.                      *)
(***************************************************************************)
EXTENDS ContractEventTrigger, FiniteSetTheorems, WellFoundedInduction, TLAPS

(* The log at a poll's turn is the first of those it still has.            *)
LEMMA FirstLog ==
  ASSUME NEW logs \in SUBSET Disputes, logs # {}
  PROVE  Min(logs) \in logs /\ \A d \in logs : Min(logs) <= d
<1>1. logs \in SUBSET Nat
  BY TriggerAssumption, FS_CardinalityType
<1>2. \E m \in logs : \A d \in logs : m <= d
  <2>1. \E m \in logs : \A d \in logs : <<d, m>> \notin OpToRel(<, Nat)
    BY <1>1, NatLessThanWellFounded, WFMin
  <2>2. PICK m \in logs : \A d \in logs : <<d, m>> \notin OpToRel(<, Nat)
    BY <2>1
  <2>3. \A d \in logs : ~ (d < m)
    BY <1>1, <2>2 DEF OpToRel
  <2> QED
    BY <1>1, <2>3
<1> QED
  BY <1>2 DEF Min

(* No dispute lies in the first block, from which the poller starts.       *)
LEMMA DisputeBlocks ==
  \A d \in Disputes : d \in Nat /\ BlockOf[d] \in Nat /\ BlockOf[d] >= 1
BY TriggerAssumption, FS_CardinalityType

(* A poll looks at no block beyond the head it read.                       *)
HasLogs(k) == poll[k].pc \in {"Logs", "Adjudicating", "Persisting"}

Bounded(k) ==
  /\ poll[k].head <= head
  /\ HasLogs(k) => \A d \in poll[k].logs : BlockOf[d] <= poll[k].head
  /\ poll[k].pc = "Adjudicating" => poll[k].logs # {}

TypeInv == TypeOK /\ \A k \in Polls : Bounded(k)

LEMMA TypeInit == Init => TypeInv
<1> SUFFICES ASSUME Init PROVE TypeInv
  OBVIOUS
<1> USE DEF Init, StartBlock
<1>1. TypeOK
  <2>1. IdlePoll \in Polling
    BY TriggerAssumption DEF IdlePoll, Polling, PollStates
  <2>2. 0 \in 0..Cardinality(Disputes)
    BY TriggerAssumption, FS_CardinalityType
  <2>3. poll \in [Polls -> Polling]
    BY <2>1
  <2>4. live \in [Disputes -> HandlerStates]
    BY DEF HandlerStates
  <2>5. faults \in [FaultKinds -> 0..MaxFaults]
    BY TriggerAssumption
  <2>6. head \in 0..MaxBlock /\ lastSeen \in 0..head /\ stored \in 0..head
    BY TriggerAssumption
  <2>7. running = FALSE /\ setting \in Settings
    OBVIOUS
  <2>8. /\ started \in [Disputes -> Nat] /\ finished = {}
        /\ event \in [Disputes -> {"None", "Delivered", "Missed"}]
        /\ cursor = 0
    OBVIOUS
  <2> HIDE DEF Init
  <2> QED
    BY <2>2, <2>3, <2>4, <2>5, <2>6, <2>7, <2>8 DEF TypeOK
<1>2. \A k \in Polls : Bounded(k)
  BY DEF Bounded, HasLogs, IdlePoll
<1> QED
  BY <1>1, <1>2 DEF TypeInv

(* What one poll does leaves the others as they were.                      *)
LEMMA PollMoves ==
  ASSUME TypeInv, NEW k \in Polls, NEW r \in Polling,
         poll' = [poll EXCEPT ![k] = r], head' = head,
         r.head <= head,
         r.pc \in {"Logs", "Adjudicating", "Persisting"} =>
           \A d \in r.logs : BlockOf[d] <= r.head,
         r.pc = "Adjudicating" => r.logs # {}
  PROVE  /\ poll' \in [Polls -> Polling]
         /\ poll'[k] = r /\ \A j \in Polls \ {k} : poll'[j] = poll[j]
         /\ \A j \in Polls : Bounded(j)'
<1>1. poll \in [Polls -> Polling]
  BY DEF TypeInv, TypeOK
<1>2. poll' \in [Polls -> Polling]
  BY <1>1
<1>3. poll'[k] = r /\ \A j \in Polls \ {k} : poll'[j] = poll[j]
  BY <1>1
<1>4. Bounded(k)'
  BY <1>3 DEF Bounded, HasLogs
<1>5. ASSUME NEW j \in Polls \ {k} PROVE Bounded(j)'
  <2>1. Bounded(j)
    BY DEF TypeInv
  <2> QED
    BY <1>3, <2>1 DEF Bounded, HasLogs
<1> QED
  BY <1>2, <1>3, <1>4, <1>5

(* A fault leaves the counters well typed.                                 *)
LEMMA FaultType ==
  ASSUME TypeOK, NEW f, Fault(f)
  PROVE  faults' \in [FaultKinds -> 0..MaxFaults]
<1>1. faults \in [FaultKinds -> 0..MaxFaults] /\ f \in FaultKinds
      /\ faults[f] + 1 \in 0..MaxFaults
  BY TriggerAssumption DEF TypeOK, Fault
<1>2. faults' = [faults EXCEPT ![f] = faults[f] + 1]
  BY <1>1 DEF Fault
<1> QED
  BY <1>1, <1>2

(* No range of blocks holds more disputes than there are.                  *)
LEMMA LogsCount ==
  ASSUME NEW b PROVE Cardinality(Logs(0, b)) \in 0..Cardinality(Disputes)
<1>1. Logs(0, b) \in SUBSET Disputes
  BY DEF Logs
<1>2. /\ IsFiniteSet(Logs(0, b))
      /\ Cardinality(Logs(0, b)) <= Cardinality(Disputes)
  BY <1>1, TriggerAssumption, FS_Subset
<1> QED
  BY <1>2, TriggerAssumption, FS_CardinalityType

(* Steps that leave the polls alone.                                       *)
LEMMA PollsKept ==
  ASSUME TypeInv, poll' = poll, head' \in Nat, head <= head'
  PROVE  \A k \in Polls : Bounded(k)'
<1> SUFFICES ASSUME NEW k \in Polls PROVE Bounded(k)'
  OBVIOUS
<1>1. Bounded(k) /\ poll[k] \in Polling /\ head \in Nat
  BY TriggerAssumption DEF TypeInv, TypeOK
<1>2. poll[k].head \in Nat
  BY <1>1, TriggerAssumption DEF Polling
<1> QED
  BY <1>1, <1>2 DEF Bounded, HasLogs

(* The file never holds a block beyond the chain.                          *)
LEMMA StoredType ==
  ASSUME TypeOK, PersistState PROVE stored' \in 0..head
BY TriggerAssumption DEF TypeOK, PersistState

(* A restart finds well-typed state.                                       *)
LEMMA ProcessEndsType ==
  ASSUME TypeInv, ProcessEnds, faults' \in [FaultKinds -> 0..MaxFaults]
  PROVE  TypeInv'
<1>1. IdlePoll \in Polling
  BY TriggerAssumption DEF IdlePoll, Polling, PollStates
<1>2. poll' \in [Polls -> Polling]
  BY <1>1 DEF ProcessEnds
<1>3. \A k \in Polls : Bounded(k)'
  <2>1. \A k \in Polls : poll'[k] = IdlePoll
    BY DEF ProcessEnds
  <2>2. head' \in Nat
    BY TriggerAssumption DEF TypeInv, TypeOK, ProcessEnds
  <2> QED
    BY <2>1, <2>2 DEF Bounded, HasLogs, IdlePoll
<1>4. live' \in [Disputes -> HandlerStates]
  BY DEF ProcessEnds, HandlerStates
<1>5. /\ head' = head /\ lastSeen' = 0 /\ stored' \in 0..head
  BY TriggerAssumption DEF TypeInv, TypeOK, ProcessEnds, StartBlock
<1>6. running' = FALSE
  BY DEF ProcessEnds
<1>7. lastSeen' \in 0..head'
  BY <1>5, TriggerAssumption DEF TypeInv, TypeOK
<1> QED
  BY <1>2, <1>3, <1>4, <1>5, <1>6, <1>7 DEF TypeInv, TypeOK, ProcessEnds

(* The process and the chain.                                              *)
LEMMA EnvironmentType ==
  ASSUME TypeInv, Mine \/ Start \/ Stop \/ Exit
  PROVE  TypeInv'
<1>0. TypeOK /\ head \in Nat /\ lastSeen \in Nat /\ stored \in Nat
  BY TriggerAssumption DEF TypeInv, TypeOK
<1>1. CASE Mine
  <2>1. head' \in 0..MaxBlock /\ head <= head'
    BY <1>0, <1>1, TriggerAssumption DEF Mine, TypeOK
  <2>2. \A k \in Polls : Bounded(k)'
    BY <1>0, <1>1, <2>1, PollsKept, TriggerAssumption DEF Mine
  <2>3. lastSeen' \in 0..head' /\ stored' \in 0..head'
    BY <1>0, <1>1, <2>1, TriggerAssumption DEF TypeOK, Mine
  <2> QED
    BY <1>0, <1>1, <2>1, <2>2, <2>3 DEF TypeInv, TypeOK, Mine, history
<1>2. CASE Start
  <2>1. lastSeen' \in 0..head
    BY <1>0, <1>2 DEF Start, MaxOf, TypeOK
  <2>2. cursor' \in 0..Cardinality(Disputes)
    BY <1>2, LogsCount DEF Start
  <2>3. running' = TRUE
    BY <1>2 DEF Start
  <2>4. \A k \in Polls : Bounded(k)'
    BY <1>0, <1>2, PollsKept DEF Start, chain
  <2> QED
    BY <1>0, <1>2, <2>1, <2>2, <2>3, <2>4
       DEF TypeInv, TypeOK, Start, chain, history
<1>3. CASE Stop
  <2>1. stored' \in 0..head /\ faults' \in [FaultKinds -> 0..MaxFaults]
    BY <1>0, <1>3, StoredType, FaultType DEF Stop
  <2>2. running' = FALSE
    BY <1>3 DEF Stop
  <2>3. \A k \in Polls : Bounded(k)'
    BY <1>0, <1>3, PollsKept DEF Stop
  <2> QED
    BY <1>0, <1>3, <2>1, <2>2, <2>3 DEF TypeInv, TypeOK, Stop, history
<1>4. CASE Exit
  BY <1>0, <1>4, FaultType, ProcessEndsType DEF Exit
<1> QED
  BY <1>1, <1>2, <1>3, <1>4

(* An adjudication begins.                                                 *)
LEMMA BeginType ==
  ASSUME TypeOK, NEW d \in Disputes, Begin(d)
  PROVE  started' \in [Disputes -> Nat]
BY DEF TypeOK, Begin

(* An adjudication that ends moves lastSeenBlock to a block of the chain.  *)
LEMMA CompleteType ==
  ASSUME TypeOK, NEW d \in Disputes, BlockOf[d] <= head, Complete(d)
  PROVE  /\ lastSeen' \in 0..head
         /\ finished' \subseteq Disputes /\ finished \subseteq finished'
<1>1. BlockOf[d] \in 0..head
  BY DisputeBlocks, TriggerAssumption DEF TypeOK
<1>2. /\ finished \subseteq Disputes
      /\ finished' = finished \cup {d} /\ lastSeen' = BlockOf[d]
  BY DEF TypeOK, Complete
<1> QED
  BY <1>1, <1>2

(* The subscription.                                                       *)
LEMMA SubscriptionType ==
  ASSUME TypeInv, Deliver \/ Miss
  PROVE  TypeInv'
<1> DEFINE d == cursor + 1
<1>0. TypeOK /\ head \in Nat /\ EventDue /\ cursor' = d
  BY TriggerAssumption DEF TypeInv, TypeOK, Deliver, Miss
<1>1. Cardinality(Logs(0, head)) \in 0..Cardinality(Disputes)
      /\ Cardinality(Disputes) \in Nat
  BY LogsCount, TriggerAssumption, FS_CardinalityType
<1>2. d \in 1..Cardinality(Disputes) /\ d \in 0..Cardinality(Disputes)
  BY <1>0, <1>1 DEF EventDue, TypeOK
<1>3. d \in Disputes
  BY <1>2, TriggerAssumption
<1>4. event' \in [Disputes -> {"None", "Delivered", "Missed"}]
  BY <1>0 DEF Deliver, Miss, TypeOK
<1>5. head' = head /\ \A k \in Polls : Bounded(k)'
  BY <1>0, PollsKept DEF Deliver, Miss, chain
<1> HIDE DEF d
<1>6. CASE Deliver
  <2>1. live' \in [Disputes -> HandlerStates]
    BY <1>0, <1>6 DEF Deliver, TypeOK, HandlerStates, d
  <2>2. started' \in [Disputes -> Nat]
    BY <1>0, <1>3, <1>6, BeginType DEF Deliver, TypeOK, d
  <2> QED
    BY <1>0, <1>2, <1>4, <1>5, <1>6, <2>1, <2>2
       DEF TypeInv, TypeOK, Deliver, chain
<1>7. CASE Miss
  <2>1. faults' \in [FaultKinds -> 0..MaxFaults]
    BY <1>0, <1>7, FaultType DEF Miss
  <2> QED
    BY <1>0, <1>2, <1>4, <1>5, <1>7, <2>1 DEF TypeInv, TypeOK, Miss
<1> QED
  BY <1>6, <1>7

(* Its handler.                                                            *)
LEMMA LiveType ==
  ASSUME TypeInv, NEW d \in Disputes, Live(d), BlockOf[d] <= head
  PROVE  TypeInv'
<1>0. TypeOK /\ head \in Nat
  BY TriggerAssumption DEF TypeInv, TypeOK
<1>1. CASE LiveCompletes(d)
  <2>1. /\ lastSeen' \in 0..head
        /\ finished' \subseteq Disputes
    BY <1>0, <1>1, CompleteType DEF LiveCompletes
  <2>2. live' \in [Disputes -> HandlerStates]
    BY <1>0, <1>1 DEF LiveCompletes, TypeOK, HandlerStates
  <2>3. head' = head /\ \A k \in Polls : Bounded(k)'
    BY <1>0, <1>1, PollsKept DEF LiveCompletes, chain
  <2> QED
    BY <1>0, <1>1, <2>1, <2>2, <2>3 DEF TypeInv, TypeOK, LiveCompletes, chain
<1>2. CASE LiveFails(d)
  BY <1>0, <1>2, FaultType, ProcessEndsType DEF LiveFails
<1>3. CASE LivePersists(d)
  <2>1. stored' \in 0..head
    BY <1>0, <1>3, StoredType DEF LivePersists
  <2>2. live' \in [Disputes -> HandlerStates]
    BY <1>0, <1>3 DEF LivePersists, TypeOK, HandlerStates
  <2>3. head' = head /\ \A k \in Polls : Bounded(k)'
    BY <1>0, <1>3, PollsKept DEF LivePersists, chain
  <2> QED
    BY <1>0, <1>3, <2>1, <2>2, <2>3
       DEF TypeInv, TypeOK, LivePersists, chain, history
<1> QED
  BY <1>1, <1>2, <1>3 DEF Live

(* The record a poll becomes, field by field.                              *)
LEMMA PollRecord ==
  ASSUME NEW p \in Polling, NEW pc, NEW logs
  PROVE  /\ [p EXCEPT !.pc = pc]
              = [pc |-> pc, head |-> p.head, logs |-> p.logs]
         /\ [p EXCEPT !.pc = pc, !.logs = logs]
              = [pc |-> pc, head |-> p.head, logs |-> logs]
         /\ [p EXCEPT !.logs = logs]
              = [pc |-> p.pc, head |-> p.head, logs |-> logs]
<1>1. [p EXCEPT !.pc = pc] = [pc |-> pc, head |-> p.head, logs |-> p.logs]
  BY DEF Polling
<1>2. [p EXCEPT !.pc = pc, !.logs = logs]
        = [pc |-> pc, head |-> p.head, logs |-> logs]
  <2>1. [p EXCEPT !.pc = pc, !.logs = logs]
          = [[p EXCEPT !.pc = pc] EXCEPT !.logs = logs]
    OBVIOUS
  <2>2. [[pc |-> pc, head |-> p.head, logs |-> p.logs] EXCEPT !.logs = logs]
          = [pc |-> pc, head |-> p.head, logs |-> logs]
    OBVIOUS
  <2> QED
    BY <1>1, <2>1, <2>2
<1>3. [p EXCEPT !.logs = logs] = [pc |-> p.pc, head |-> p.head, logs |-> logs]
  BY DEF Polling
<1> QED
  BY <1>1, <1>2, <1>3

LEMMA PollGoes ==
  ASSUME NEW k \in Polls, poll[k] \in Polling, NEW pc, PollGoesTo(k, pc)
  PROVE  poll' = [poll EXCEPT ![k] =
                    [pc |-> pc, head |-> poll[k].head, logs |-> poll[k].logs]]
<1>1. poll' = [poll EXCEPT ![k] = [poll[k] EXCEPT !.pc = pc]]
  BY DEF PollGoesTo
<1> QED
  BY <1>1, PollRecord

(* A poll.                                                                 *)
LEMMA PollType ==
  ASSUME TypeInv, NEW k \in Polls, Catchup(k)
  PROVE  TypeInv'
<1> DEFINE p == poll[k]
<1>0. /\ TypeOK /\ head \in Nat /\ head \in 0..MaxBlock /\ lastSeen \in Nat
      /\ p \in Polling /\ Bounded(k)
      /\ p.logs \in SUBSET Disputes /\ p.head \in Nat /\ p.head <= head
  BY TriggerAssumption DEF TypeInv, TypeOK, Polling, Bounded
<1>1. CASE Poll(k) \/ PollGetsLogs(k)
  <2> DEFINE r == IF Poll(k)
                  THEN [pc |-> "Head", head |-> head, logs |-> p.logs]
                  ELSE [pc |-> "Logs", head |-> p.head,
                        logs |-> Logs(lastSeen + 1, p.head)]
  <2>1. poll' = [poll EXCEPT ![k] = r] /\ head' = head
    BY <1>0, <1>1 DEF Poll, PollGetsLogs, chain, Polling
  <2>2. Logs(lastSeen + 1, p.head) \in SUBSET Disputes
        /\ \A d \in Logs(lastSeen + 1, p.head) : BlockOf[d] <= p.head
    BY <1>0, DisputeBlocks DEF Logs
  <2>3. r \in Polling /\ r.head <= head
    BY <1>0, <2>2, TriggerAssumption DEF Polling, PollStates
  <2>4. /\ r.pc \in {"Logs", "Adjudicating", "Persisting"} =>
             \A d \in r.logs : BlockOf[d] <= r.head
        /\ r.pc # "Adjudicating"
    BY <2>2
  <2> HIDE DEF r
  <2>5. poll' \in [Polls -> Polling] /\ \A j \in Polls : Bounded(j)'
    BY <2>1, <2>3, <2>4, PollMoves
  <2> QED
    BY <1>0, <1>1, <2>1, <2>5
       DEF TypeInv, TypeOK, Poll, PollGetsLogs, chain, history
<1>2. ASSUME NEW r \in Polling, poll' = [poll EXCEPT ![k] = r], head' = head,
             r = IdlePoll \/ (r.head = p.head /\ r.logs \subseteq p.logs),
             r.pc = "Adjudicating" => r.logs # {},
             r.pc \in {"Logs", "Adjudicating", "Persisting"} => HasLogs(k)
      PROVE  poll' \in [Polls -> Polling] /\ \A j \in Polls : Bounded(j)'
  <2>1. r.head <= head
    BY <1>0, <1>2 DEF IdlePoll
  <2>2. r.pc \in {"Logs", "Adjudicating", "Persisting"} =>
          \A d \in r.logs : BlockOf[d] <= r.head
    BY <1>0, <1>2 DEF Bounded, IdlePoll
  <2> QED
    BY <1>2, <2>1, <2>2, PollMoves
<1> DEFINE m == NextLog(k)
<1>3. /\ IdlePoll \in Polling
      /\ \A pc \in PollStates, logs \in SUBSET p.logs :
           [pc |-> pc, head |-> p.head, logs |-> logs] \in Polling
  BY <1>0, TriggerAssumption DEF IdlePoll, Polling, PollStates
<1>4. CASE PollRefused(k)
  <2>1. poll' = [poll EXCEPT ![k] = IdlePoll] /\ head' = head
    BY <1>4 DEF PollRefused, chain
  <2>2. poll' \in [Polls -> Polling] /\ \A j \in Polls : Bounded(j)'
    BY <1>2, <1>3, <2>1 DEF IdlePoll
  <2> QED
    BY <1>0, <1>4, <2>1, <2>2 DEF TypeInv, TypeOK, PollRefused, chain, history
<1>5. CASE PollSkips(k)
  <2>0. poll' = [poll EXCEPT ![k] = [pc |-> "Logs", head |-> p.head, logs |-> p.logs \ {m}]]
    <3>1. poll' = [poll EXCEPT ![k] = [p EXCEPT !.logs = p.logs \ {m}]]
      BY <1>5 DEF PollSkips
    <3>2. p.pc = "Logs"
      BY <1>5 DEF PollSkips, HasLog
    <3> QED
      BY <1>0, <3>1, <3>2, PollRecord
  <2>1. head' = head /\ HasLogs(k)
    BY <1>5 DEF PollSkips, chain, HasLogs, HasLog
  <2>2. poll' \in [Polls -> Polling] /\ \A j \in Polls : Bounded(j)'
    BY <1>2, <1>3, <2>0, <2>1 DEF PollStates
  <2> QED
    BY <1>0, <1>5, <2>1, <2>2 DEF TypeInv, TypeOK, PollSkips, chain, history
<1>6. CASE PollHandles(k)
  <2>0. poll' = [poll EXCEPT ![k] = [pc |-> "Adjudicating", head |-> p.head, logs |-> p.logs]]
    BY <1>0, <1>6, PollGoes DEF PollHandles
  <2>1. head' = head /\ HasLogs(k) /\ p.logs # {}
    BY <1>6 DEF PollHandles, chain, HasLogs, HasLog
  <2>2. poll' \in [Polls -> Polling] /\ \A j \in Polls : Bounded(j)'
    BY <1>2, <1>3, <2>0, <2>1 DEF PollStates
  <2>3. m \in Disputes
    BY <1>0, <2>1, FirstLog DEF NextLog
  <2>4. started' \in [Disputes -> Nat]
    BY <1>0, <1>6, <2>3, BeginType DEF PollHandles
  <2> QED
    BY <1>0, <1>6, <2>1, <2>2, <2>4 DEF TypeInv, TypeOK, PollHandles, chain
<1>7. CASE PollCompletes(k)
  <2>0. poll' = [poll EXCEPT ![k] = [pc |-> "Persisting", head |-> p.head, logs |-> p.logs \ {m}]]
    <3>1. poll' = [poll EXCEPT ![k] =
                     [p EXCEPT !.pc = "Persisting", !.logs = p.logs \ {m}]]
      BY <1>7 DEF PollCompletes
    <3> QED
      BY <1>0, <3>1, PollRecord
  <2>1. head' = head /\ HasLogs(k)
    BY <1>7 DEF PollCompletes, chain, HasLogs
  <2>2. poll' \in [Polls -> Polling] /\ \A j \in Polls : Bounded(j)'
    BY <1>2, <1>3, <2>0, <2>1 DEF PollStates
  <2>3. m \in p.logs
    BY <1>0, <1>7, FirstLog DEF PollCompletes, NextLog, Bounded
  <2>4. m \in Disputes /\ BlockOf[m] <= head
    BY <1>0, <2>1, <2>3, DisputeBlocks DEF Bounded
  <2>5. /\ lastSeen' \in 0..head
        /\ finished' \subseteq Disputes
    BY <1>0, <1>7, <2>4, CompleteType DEF PollCompletes
  <2> QED
    BY <1>0, <1>7, <2>1, <2>2, <2>5 DEF TypeInv, TypeOK, PollCompletes, chain
<1>8. CASE PollFails(k)
  <2>1. poll' = [poll EXCEPT ![k] = IdlePoll] /\ head' = head
    BY <1>8 DEF PollFails
  <2>2. poll' \in [Polls -> Polling] /\ \A j \in Polls : Bounded(j)'
    BY <1>2, <1>3, <2>1 DEF IdlePoll
  <2>3. faults' \in [FaultKinds -> 0..MaxFaults]
    BY <1>0, <1>8, FaultType DEF PollFails
  <2> QED
    BY <1>0, <1>8, <2>1, <2>2, <2>3 DEF TypeInv, TypeOK, PollFails, history
<1>9. CASE PollPersists(k)
  <2>0. poll' = [poll EXCEPT ![k] = [pc |-> "Logs", head |-> p.head, logs |-> p.logs]]
    BY <1>0, <1>9, PollGoes DEF PollPersists
  <2>1. head' = head /\ HasLogs(k)
    BY <1>9 DEF PollPersists, chain, HasLogs
  <2>2. poll' \in [Polls -> Polling] /\ \A j \in Polls : Bounded(j)'
    BY <1>2, <1>3, <2>0, <2>1 DEF PollStates
  <2>3. stored' \in 0..head
    BY <1>0, <1>9, StoredType DEF PollPersists
  <2> QED
    BY <1>0, <1>9, <2>1, <2>2, <2>3
       DEF TypeInv, TypeOK, PollPersists, chain, history
<1>10. CASE PollReachesHead(k)
  <2>0. poll' = [poll EXCEPT ![k] = [pc |-> "PersistingHead", head |-> p.head, logs |-> p.logs]]
    BY <1>0, <1>10, PollGoes DEF PollReachesHead
  <2>1. head' = head
    BY <1>10 DEF PollReachesHead, chain
  <2>2. poll' \in [Polls -> Polling] /\ \A j \in Polls : Bounded(j)'
    BY <1>2, <1>3, <2>0, <2>1 DEF PollStates
  <2>3. lastSeen' \in 0..head
    BY <1>0, <1>10 DEF PollReachesHead, HeadAtStart
  <2> QED
    BY <1>0, <1>10, <2>1, <2>2, <2>3
       DEF TypeInv, TypeOK, PollReachesHead, chain, history
<1>11. CASE PollEnds(k)
  <2>1. poll' = [poll EXCEPT ![k] = IdlePoll] /\ head' = head
    BY <1>11 DEF PollEnds, chain
  <2>2. poll' \in [Polls -> Polling] /\ \A j \in Polls : Bounded(j)'
    BY <1>2, <1>3, <2>1 DEF IdlePoll
  <2>3. stored' \in 0..head
    BY <1>0, <1>11, StoredType DEF PollEnds
  <2> QED
    BY <1>0, <1>11, <2>1, <2>2, <2>3
       DEF TypeInv, TypeOK, PollEnds, chain, history
<1> QED
  BY <1>1, <1>4, <1>5, <1>6, <1>7, <1>8, <1>9, <1>10, <1>11
     DEF Catchup, Handling

-----------------------------------------------------------------------------
(* The subscription only delivers events of the chain.                     *)
Mined == \A d \in Disputes : live[d] # "None" => BlockOf[d] <= head

LEMMA DueIsMined ==
  ASSUME TypeOK, NEW d \in Disputes, d <= Cardinality(Logs(0, head))
  PROVE  BlockOf[d] <= head
<1>1. head \in Nat /\ d \in Nat /\ d >= 1 /\ Cardinality(Disputes) \in Nat
  BY TriggerAssumption, FS_CardinalityType DEF TypeOK
<1>2. SUFFICES ASSUME BlockOf[d] > head PROVE FALSE
  BY <1>1, DisputeBlocks
<1>3. ASSUME NEW e \in Logs(0, head) PROVE e \in 1..(d - 1)
  <2>1. e \in Disputes /\ BlockOf[e] <= head
    BY <1>1, DisputeBlocks DEF Logs
  <2>2. ~(d <= e)
    BY <1>1, <1>2, <2>1, DisputeBlocks, TriggerAssumption
  <2> QED
    BY <1>1, <2>1, <2>2, TriggerAssumption
<1>4. IsFiniteSet(1..(d - 1)) /\ Cardinality(1..(d - 1)) = d - 1
  <2>1. 1 \in Int /\ d - 1 \in Int
    BY <1>1
  <2>2. /\ IsFiniteSet(1..(d - 1))
        /\ Cardinality(1..(d - 1))
             = IF 1 > d - 1 THEN 0 ELSE d - 1 - 1 + 1
    BY <2>1, FS_Interval
  <2> QED
    BY <1>1, <2>2
<1>5. Logs(0, head) \in SUBSET (1..(d - 1))
  BY <1>3
<1>6. Cardinality(Logs(0, head)) <= d - 1
  BY <1>4, <1>5, FS_Subset
<1> QED
  BY <1>1, <1>6, LogsCount

LEMMA MinedStep ==
  ASSUME TypeInv, Mined, Next PROVE Mined'
<1>0. TypeOK /\ head \in Nat /\ live \in [Disputes -> HandlerStates]
  BY TriggerAssumption DEF TypeInv, TypeOK
<1>1. ASSUME live' = live, head' \in Nat, head <= head' PROVE Mined'
  BY <1>0, <1>1, DisputeBlocks DEF Mined
<1>2. CASE Mine \/ Start \/ Stop
  BY <1>0, <1>1, <1>2 DEF Mine, Start, Stop, chain
<1>3. ASSUME ProcessEnds PROVE Mined'
  BY <1>3 DEF ProcessEnds, Mined
<1>4. CASE Exit
  BY <1>3, <1>4 DEF Exit
<1>5. CASE Deliver
  <2> DEFINE d == cursor + 1
  <2>1. d \in 1..Cardinality(Disputes) /\ d <= Cardinality(Logs(0, head))
    BY <1>0, <1>5, LogsCount, TriggerAssumption, FS_CardinalityType
       DEF Deliver, EventDue, TypeOK
  <2>2. d \in Disputes /\ BlockOf[d] <= head
    BY <1>0, <2>1, DueIsMined, TriggerAssumption
  <2>3. head' = head /\ \A e \in Disputes : e # d => live'[e] = live[e]
    BY <1>0, <1>5 DEF Deliver, chain
  <2> QED
    BY <2>2, <2>3 DEF Mined
<1>6. CASE Miss
  BY <1>0, <1>1, <1>6 DEF Miss
<1>7. ASSUME NEW d \in Disputes, Live(d) PROVE Mined'
  <2>1. CASE LiveCompletes(d) \/ LivePersists(d)
    <3>1. live[d] # "None" /\ head' = head
      BY <2>1 DEF LiveCompletes, LivePersists, chain
    <3>2. \A e \in Disputes : e # d => live'[e] = live[e]
      BY <1>0, <2>1 DEF LiveCompletes, LivePersists
    <3> QED
      BY <3>1, <3>2 DEF Mined
  <2>2. CASE LiveFails(d)
    BY <1>3, <2>2 DEF LiveFails
  <2> QED
    BY <1>7, <2>1, <2>2 DEF Live
<1>8. ASSUME NEW k \in Polls, Catchup(k) PROVE Mined'
  <2>1. live' = live /\ head' = head
    BY <1>8
       DEF Catchup, Handling, Poll, PollGetsLogs, PollRefused, PollSkips,
           PollHandles, PollCompletes, PollFails, PollPersists,
           PollReachesHead, PollEnds, chain
  <2> QED
    BY <1>0, <1>1, <2>1
<1> QED
  BY <1>2, <1>4, <1>5, <1>6, <1>7, <1>8 DEF Next

LEMMA TypeStep ==
  TypeInv /\ Mined /\ [Next]_vars => TypeInv' /\ Mined'
<1> SUFFICES ASSUME TypeInv, Mined, [Next]_vars PROVE TypeInv' /\ Mined'
  OBVIOUS
<1>1. CASE Next
  <2>1. ASSUME NEW d \in Disputes, Live(d) PROVE BlockOf[d] <= head
    BY <2>1 DEF Live, LiveCompletes, LiveFails, LivePersists, Mined
  <2>2. TypeInv'
    BY <1>1, <2>1, EnvironmentType, SubscriptionType, LiveType, PollType
       DEF Next
  <2> QED
    BY <1>1, <2>2, MinedStep
<1>2. CASE UNCHANGED vars
  BY <1>2
     DEF TypeInv, TypeOK, Bounded, HasLogs, Mined, vars, chain, history
<1> QED
  BY <1>1, <1>2

(* The state of the trigger is well typed: above all, lastSeenBlock never  *)
(* runs ahead of the chain, in memory or on disk.                          *)
THEOREM TypeCorrect == Spec => []TypeOK
<1>1. Init => TypeInv /\ Mined
  BY TypeInit DEF Init, Mined
<1>2. TypeInv => TypeOK
  BY DEF TypeInv
<1> QED
  BY <1>1, <1>2, TypeStep, PTL DEF Spec

-----------------------------------------------------------------------------
(* The poller on its own.                                                  *)
Firsts == {d \in Disputes : FirstOfBlock(d)}

(* Of no block up to b the first dispute was not adjudicated.              *)
Covered(b) == \A d \in Firsts : BlockOf[d] <= b => d \in finished

(* What was not adjudicated yet lies ahead of every poll under way.        *)
Ahead(k) ==
  HasLogs(k) => \A d \in Firsts : BlockOf[d] <= poll[k].head =>
                  d \in finished \/ d \in poll[k].logs

Inv ==
  /\ TypeInv
  /\ \A d \in Disputes : live[d] = "None"
  /\ Covered(lastSeen) /\ Covered(stored)
  /\ \A k \in Polls : Ahead(k)

(* What one poll does is enough to look at.                                *)
LEMMA InvKept ==
  ASSUME Inv, TypeInv', live' = live, finished \subseteq finished',
         Covered(lastSeen)', Covered(stored)',
         \A k \in Polls : poll'[k] = poll[k] \/ Ahead(k)'
  PROVE  Inv'
<1>1. \A k \in Polls : Ahead(k)'
  BY DEF Inv, Ahead, HasLogs
<1> QED
  BY <1>1 DEF Inv

(* Where lastSeenBlock and the file move to covered blocks only.           *)
LEMMA CoveredKept ==
  ASSUME Inv, finished \subseteq finished',
         lastSeen' \in {lastSeen, stored, 0},
         stored' \in {lastSeen, stored, 0}
  PROVE  Covered(lastSeen)' /\ Covered(stored)'
<1>1. Covered(0)
  BY DisputeBlocks DEF Covered, Firsts
<1> QED
  BY <1>1 DEF Inv, Covered

LEMMA ProcessEndsKeepsInv ==
  ASSUME Inv, TypeInv', ProcessEnds PROVE Inv'
<1>1. Covered(lastSeen)' /\ Covered(stored)'
  BY CoveredKept DEF ProcessEnds, StartBlock
<1>2. \A k \in Polls : Ahead(k)'
  BY DEF ProcessEnds, Ahead, HasLogs, IdlePoll
<1> QED
  BY <1>1, <1>2 DEF Inv, ProcessEnds

(* An event that is missed changes nothing the poller looks at.            *)
LEMMA EnvironmentKeepsInv ==
  ASSUME Inv, TypeInv', Mine \/ Start \/ Stop \/ Exit \/ Miss PROVE Inv'
<1>1. CASE Mine \/ Start \/ Stop \/ Miss
  <2>1. live' = live /\ finished' = finished /\ poll' = poll
    BY <1>1 DEF Mine, Start, Stop, Miss, history
  <2>2. /\ lastSeen' \in {lastSeen, stored, 0}
        /\ stored' \in {lastSeen, stored, 0}
    BY <1>1 DEF Mine, Start, Stop, Miss, MaxOf, PersistState, chain
  <2> QED
    BY <2>1, <2>2, CoveredKept, InvKept
<1>2. CASE Exit
  BY <1>2, ProcessEndsKeepsInv DEF Exit
<1> QED
  BY <1>1, <1>2

(* The first log of a poll precedes every first dispute of a block that is *)
(* not adjudicated yet, or is that dispute.                                *)
LEMMA FirstLogCovered ==
  ASSUME Inv, NEW k \in Polls, poll[k].pc = "Adjudicating",
         finished' = finished \cup {NextLog(k)},
         poll'[k].head = poll[k].head,
         poll'[k].logs = poll[k].logs \ {NextLog(k)}
  PROVE  /\ \A d \in Firsts :
              BlockOf[d] <= BlockOf[NextLog(k)] => d \in finished'
         /\ Ahead(k)'
<1> DEFINE m == NextLog(k)
           logs == poll[k].logs
<1>1. /\ Bounded(k) /\ Ahead(k) /\ HasLogs(k) /\ poll[k] \in Polling
      /\ logs \in SUBSET Disputes /\ poll[k].head \in Nat
  BY TriggerAssumption DEF Inv, TypeInv, TypeOK, Polling, HasLogs
<1>2. m \in logs /\ \A d \in logs : m <= d
  BY <1>1, FirstLog DEF NextLog, Bounded
<1> HIDE DEF m
<1>3. ASSUME NEW d \in Firsts, BlockOf[d] <= BlockOf[m]
      PROVE  d \in finished \cup {m}
  <2>0. d \in Disputes /\ FirstOfBlock(d)
    BY DEF Firsts
  <2>1. BlockOf[d] <= poll[k].head
    BY <1>1, <1>2, <1>3, <2>0, DisputeBlocks DEF Bounded
  <2>2. CASE d \in logs
    <3>1. m <= d /\ BlockOf[m] <= BlockOf[d] /\ m \in Disputes
      BY <1>1, <1>2, <2>2, TriggerAssumption
    <3>2. BlockOf[m] = BlockOf[d]
      BY <1>3, <2>0, <3>1, DisputeBlocks
    <3>3. d <= m
      BY <2>0, <3>1, <3>2 DEF FirstOfBlock
    <3> QED
      BY <2>0, <3>1, <3>3, DisputeBlocks
  <2> QED
    BY <1>1, <2>1, <2>2 DEF Ahead
<1>4. \A d \in Firsts : BlockOf[d] <= BlockOf[m] => d \in finished'
  BY <1>3 DEF m
<1>5. Ahead(k)'
  BY <1>1 DEF Ahead, m
<1> QED
  BY <1>4, <1>5 DEF m

LEMMA PollKeepsInv ==
  ASSUME Inv, TypeInv', NEW k \in Polls, Catchup(k)
  PROVE  Inv'
<1>0. /\ Ahead(k) /\ poll \in [Polls -> Polling]
      /\ Covered(lastSeen) /\ Covered(stored)
  BY DEF Inv, TypeInv, TypeOK
<1>1. live' = live
  BY DEF Catchup, Handling, Poll, PollGetsLogs, PollRefused, PollSkips,
         PollHandles, PollCompletes, PollFails, PollPersists,
         PollReachesHead, PollEnds
<1>2. \A j \in Polls \ {k} : poll'[j] = poll[j]
  BY <1>0
     DEF Catchup, Handling, Poll, PollGetsLogs, PollRefused, PollSkips,
         PollHandles, PollCompletes, PollFails, PollPersists,
         PollReachesHead, PollEnds, PollGoesTo
<1>3. ASSUME finished \subseteq finished', Ahead(k)',
             Covered(lastSeen)', Covered(stored)'
      PROVE  Inv'
  BY <1>1, <1>2, <1>3, InvKept
<1>4. ASSUME lastSeen' = lastSeen, stored' \in {lastSeen, stored, 0},
             finished' = finished, Ahead(k)'
      PROVE  Inv'
  BY <1>3, <1>4, CoveredKept
<1>5. CASE Poll(k) \/ PollRefused(k) \/ PollFails(k)
  <2>1. Ahead(k)'
    BY <1>0, <1>5
       DEF Poll, PollRefused, PollFails, Ahead, HasLogs, IdlePoll, Polling
  <2>2. lastSeen' = lastSeen /\ stored' = stored /\ finished' = finished
    BY <1>5 DEF Poll, PollRefused, PollFails, history
  <2> QED
    BY <1>4, <2>1, <2>2
<1>6. CASE PollGetsLogs(k)
  <2>1. /\ lastSeen' = lastSeen /\ stored' = stored /\ finished' = finished
        /\ poll'[k].head = poll[k].head
        /\ poll'[k].logs = Logs(lastSeen + 1, poll[k].head)
    BY <1>0, <1>6 DEF PollGetsLogs, history, Polling
  <2>2. lastSeen \in Nat /\ poll[k].head \in Nat
    BY <1>0, TriggerAssumption DEF Inv, TypeInv, TypeOK, Polling
  <2>3. \A d \in Firsts : BlockOf[d] <= poll[k].head =>
          d \in finished \/ d \in Logs(lastSeen + 1, poll[k].head)
    BY <1>0, <2>2, DisputeBlocks DEF Covered, Logs, Firsts
  <2> QED
    BY <1>4, <2>1, <2>3 DEF Ahead
<1>7. CASE PollSkips(k)
  <2>1. /\ lastSeen' = lastSeen /\ stored' = stored /\ finished' = finished
        /\ poll'[k].head = poll[k].head
        /\ poll'[k].logs = poll[k].logs \ {NextLog(k)}
    BY <1>0, <1>7 DEF PollSkips, history, Polling
  <2>2. HasLogs(k) /\ NextLog(k) \in Disputes
    BY <1>0, <1>7, FirstLog DEF PollSkips, HasLog, HasLogs, NextLog, Polling
  <2>3. NextLog(k) \in Firsts => NextLog(k) \in finished
    <3>1. ~(BlockOf[NextLog(k)] > lastSeen) /\ lastSeen \in Nat
      BY <1>7, TriggerAssumption
         DEF PollSkips, IsNew, Inv, TypeInv, TypeOK
    <3> QED
      BY <1>0, <2>2, <3>1, DisputeBlocks DEF Covered
  <2>4. Ahead(k)'
    BY <1>0, <2>1, <2>2, <2>3 DEF Ahead
  <2> QED
    BY <1>4, <2>1, <2>4
<1>8. CASE PollHandles(k) \/ PollPersists(k)
  <2>1. /\ lastSeen' = lastSeen /\ finished' = finished
        /\ stored' \in {lastSeen, stored, 0} /\ HasLogs(k)
    BY <1>8 DEF PollHandles, PollPersists, PersistState, history, HasLog,
                HasLogs
  <2>2. poll'[k].head = poll[k].head /\ poll'[k].logs = poll[k].logs
    BY <1>0, <1>8 DEF PollHandles, PollPersists, PollGoesTo, Polling
  <2>3. Ahead(k)'
    BY <1>0, <2>1, <2>2 DEF Ahead
  <2> QED
    BY <1>4, <2>1, <2>3
<1>9. CASE PollCompletes(k)
  <2>1. /\ poll[k].pc = "Adjudicating" /\ stored' = stored
        /\ finished' = finished \cup {NextLog(k)}
        /\ lastSeen' = BlockOf[NextLog(k)]
    BY <1>9 DEF PollCompletes, Complete
  <2>2. /\ poll'[k].head = poll[k].head
        /\ poll'[k].logs = poll[k].logs \ {NextLog(k)}
    BY <1>0, <1>9 DEF PollCompletes, Polling
  <2>3. /\ \A d \in Firsts :
             BlockOf[d] <= BlockOf[NextLog(k)] => d \in finished'
        /\ Ahead(k)'
    BY <2>1, <2>2, FirstLogCovered
  <2>4. Covered(lastSeen)' /\ Covered(stored)'
    BY <1>0, <2>1, <2>3 DEF Covered
  <2> QED
    BY <1>3, <2>1, <2>3, <2>4
<1>10. CASE PollReachesHead(k)
  <2>1. /\ lastSeen' = poll[k].head /\ stored' = stored
        /\ finished' = finished /\ poll[k].logs = {} /\ HasLogs(k)
    BY <1>10 DEF PollReachesHead, HeadAtStart, history, HasLogs
  <2>2. Covered(lastSeen)' /\ Covered(stored)'
    BY <1>0, <2>1 DEF Covered, Ahead
  <2>3. Ahead(k)'
    BY <1>0, <1>10 DEF PollReachesHead, PollGoesTo, Ahead, HasLogs, Polling
  <2> QED
    BY <1>3, <2>1, <2>2, <2>3
<1>11. CASE PollEnds(k)
  <2>1. Ahead(k)'
    BY <1>0, <1>11 DEF PollEnds, Ahead, HasLogs, IdlePoll
  <2>2. /\ lastSeen' = lastSeen /\ finished' = finished
        /\ stored' \in {lastSeen, stored, 0}
    BY <1>11 DEF PollEnds, PersistState, history
  <2> QED
    BY <1>4, <2>1, <2>2
<1> QED
  BY <1>5, <1>6, <1>7, <1>8, <1>9, <1>10, <1>11 DEF Catchup, Handling

(* Whatever the chain holds by now, the subscription is not yet past it.   *)
LEMMA MinedIsDue ==
  ASSUME TypeOK, NEW d \in Disputes, BlockOf[d] <= head
  PROVE  d <= Cardinality(Logs(0, head))
<1>1. head \in Nat /\ d \in Nat /\ d >= 1 /\ Cardinality(Disputes) \in Nat
      /\ d <= Cardinality(Disputes)
  BY TriggerAssumption, FS_CardinalityType DEF TypeOK
<1>2. ASSUME NEW e \in 1..d PROVE e \in Logs(0, head)
  <2>1. e \in Disputes /\ e <= d
    BY <1>1, TriggerAssumption
  <2>2. BlockOf[e] <= BlockOf[d]
    BY <2>1, TriggerAssumption
  <2> QED
    BY <1>1, <2>1, <2>2, DisputeBlocks DEF Logs
<1>3. Cardinality(1..d) = d
  <2>1. Cardinality(1..d) = IF 1 > d THEN 0 ELSE d - 1 + 1
    BY <1>1, FS_Interval
  <2> QED
    BY <1>1, <2>1
<1>4. IsFiniteSet(Logs(0, head))
  <2>1. Logs(0, head) \in SUBSET Disputes
    BY DEF Logs
  <2> QED
    BY <2>1, TriggerAssumption, FS_Subset
<1>5. PICK T : T = 1..d
  OBVIOUS
<1>6. T \in SUBSET Logs(0, head)
  BY <1>2, <1>5
<1>7. Cardinality(T) <= Cardinality(Logs(0, head))
  BY <1>4, <1>6, FS_Subset
<1> QED
  BY <1>3, <1>5, <1>7

(* The subscription passes each event once: restarts do not take it back.  *)
EventsPassed ==
  \A d \in Disputes : event[d] # "None" => d <= cursor /\ BlockOf[d] <= head

LEMMA EventsPassedStep ==
  ASSUME TypeInv, EventsPassed, Next PROVE EventsPassed'
<1>0. /\ TypeOK /\ head \in Nat /\ cursor \in Nat
      /\ event \in [Disputes -> {"None", "Delivered", "Missed"}]
  <2>1. TypeOK
    BY DEF TypeInv
  <2> QED
    BY <2>1, TriggerAssumption, FS_CardinalityType DEF TypeOK
<1>1. CASE Deliver \/ Miss
  <2> DEFINE c == cursor + 1
  <2>1. c \in 1..Cardinality(Disputes) /\ c <= Cardinality(Logs(0, head))
    BY <1>0, <1>1, LogsCount, TriggerAssumption, FS_CardinalityType
       DEF Deliver, Miss, EventDue
  <2>2. c \in Disputes /\ BlockOf[c] <= head
    BY <1>0, <2>1, DueIsMined, TriggerAssumption
  <2>3. /\ head' = head /\ cursor' = c
        /\ \A d \in Disputes \ {c} : event'[d] = event[d]
    BY <1>0, <1>1 DEF Deliver, Miss, chain
  <2> QED
    BY <1>0, <2>2, <2>3, DisputeBlocks DEF EventsPassed
<1>2. CASE Start
  <2>1. /\ cursor' = Cardinality(Logs(0, head)) /\ head' = head
        /\ event' = event
    BY <1>2 DEF Start, chain, history
  <2> QED
    BY <1>0, <2>1, MinedIsDue DEF EventsPassed
<1>3. CASE Mine
  <2>1. cursor' = cursor /\ event' = event /\ head' = head + 1
    BY <1>3 DEF Mine, history
  <2> QED
    BY <1>0, <2>1, DisputeBlocks DEF EventsPassed
<1>4. CASE ~(Deliver \/ Miss \/ Start \/ Mine)
  <2>1. cursor' = cursor /\ event' = event /\ head' = head
    BY <1>4
       DEF Next, Stop, Exit, ProcessEnds, Live, LiveCompletes, LiveFails,
           LivePersists, Catchup, Handling, Poll, PollGetsLogs, PollRefused,
           PollSkips, PollHandles, PollCompletes, PollFails, PollPersists,
           PollReachesHead, PollEnds, chain, history
  <2> QED
    BY <2>1 DEF EventsPassed
<1> QED
  BY <1>1, <1>2, <1>3, <1>4

(* The inductive invariant: as long as nothing was delivered, the poller   *)
(* has covered what it has seen.                                           *)
PolledInv == TypeInv /\ Mined /\ EventsPassed /\ (OnlyPolled => Inv)

LEMMA OnlyPolledBefore ==
  ASSUME TypeInv, EventsPassed, Next, OnlyPolled' PROVE OnlyPolled /\ ~Deliver
<1>1. event \in [Disputes -> {"None", "Delivered", "Missed"}]
  BY DEF TypeInv, TypeOK
<1>2. ~Deliver
  <2> SUFFICES ASSUME Deliver PROVE FALSE
    OBVIOUS
  <2> DEFINE c == cursor + 1
  <2>1. c \in Disputes
    BY LogsCount, TriggerAssumption, FS_CardinalityType
       DEF Deliver, EventDue, TypeInv, TypeOK
  <2>2. event' = [event EXCEPT ![c] = "Delivered"]
    BY DEF Deliver
  <2> HIDE DEF c
  <2> QED
    BY <1>1, <2>1, <2>2 DEF OnlyPolled
<1>3. CASE Miss
  <2>1. event' = [event EXCEPT ![cursor + 1] = "Missed"] /\ cursor \in Nat
    BY <1>3, TriggerAssumption, FS_CardinalityType DEF Miss, TypeInv, TypeOK
  <2>2. \A d \in Disputes : event[d] = "Delivered" => ~(d = cursor + 1)
    BY <2>1, DisputeBlocks DEF EventsPassed
  <2>3. \A d \in Disputes : event[d] = "Delivered" => event'[d] = "Delivered"
    BY <1>1, <2>1, <2>2
  <2> QED
    BY <1>2, <2>3 DEF OnlyPolled
<1>4. CASE ~Miss
  <2>1. event' = event
    BY <1>2, <1>4
       DEF Next, Mine, Start, Stop, Exit, ProcessEnds, Live, LiveCompletes,
           LiveFails, LivePersists, Catchup, Handling, Poll, PollGetsLogs,
           PollRefused, PollSkips, PollHandles, PollCompletes, PollFails,
           PollPersists, PollReachesHead, PollEnds, history
  <2> QED
    BY <1>2, <2>1 DEF OnlyPolled
<1> QED
  BY <1>2, <1>3, <1>4

LEMMA PolledStep == PolledInv /\ [Next]_vars => PolledInv'
<1> SUFFICES ASSUME PolledInv, [Next]_vars PROVE PolledInv'
  OBVIOUS
<1>1. TypeInv' /\ Mined' /\ EventsPassed'
  <2>1. CASE Next
    BY <2>1, TypeStep, EventsPassedStep DEF PolledInv
  <2>2. CASE UNCHANGED vars
    BY <2>2, TypeStep DEF PolledInv, EventsPassed, vars, chain, history
  <2> QED
    BY <2>1, <2>2
<1>2. ASSUME OnlyPolled', Next PROVE Inv'
  <2>1. Inv /\ ~Deliver
    BY <1>2, OnlyPolledBefore DEF PolledInv
  <2>2. \A d \in Disputes : ~Live(d)
    BY <2>1 DEF Inv, Live, LiveCompletes, LiveFails, LivePersists
  <2> QED
    BY <1>1, <1>2, <2>1, <2>2, EnvironmentKeepsInv, PollKeepsInv DEF Next
<1>3. ASSUME OnlyPolled', UNCHANGED vars PROVE Inv'
  <2>1. OnlyPolled
    BY <1>3 DEF OnlyPolled, vars, history
  <2> QED
    BY <1>1, <1>3, <2>1
       DEF PolledInv, Inv, Covered, Ahead, HasLogs, vars, chain, history
<1> QED
  BY <1>1, <1>2, <1>3 DEF PolledInv

(* As long as the subscription delivers nothing, the poller leaves no first*)
(* dispute of a block behind: lastSeenBlock, in memory and on disk, only   *)
(* passes blocks of which that dispute was adjudicated, however many polls *)
(* overlap and whatever fails.                                             *)
THEOREM NothingLeftBehind == Spec => []SeenMeansAdjudicated
<1>1. Init => PolledInv
  <2> SUFFICES ASSUME Init PROVE PolledInv
    OBVIOUS
  <2>1. Covered(0)
    BY DisputeBlocks DEF Covered, Firsts
  <2>2. TypeInv /\ \A d \in Disputes : live[d] = "None"
    BY TypeInit DEF Init
  <2>3. \A k \in Polls : Ahead(k)
    BY DEF Init, Ahead, HasLogs, IdlePoll
  <2> QED
    BY <2>1, <2>2, <2>3
       DEF PolledInv, Inv, Mined, EventsPassed, Init, StartBlock
<1>2. PolledInv => SeenMeansAdjudicated
  BY DEF PolledInv, Inv, Covered, Firsts, SeenMeansAdjudicated
<1> QED
  BY <1>1, <1>2, PolledStep, PTL DEF Spec

-----------------------------------------------------------------------------
(* The subscription and the poller together.  What the subscription has yet*)
(* to deliver was begun, it or an earlier dispute of its block, wherever   *)
(* lastSeenBlock has passed that block ...                                 *)
Begun(d) == \E e \in 1..d : BlockOf[e] = BlockOf[d] /\ started[e] > 0

BegunUpTo(b) ==
  \A d \in Disputes : d > cursor /\ BlockOf[d] <= b => Begun(d)

(* ... and otherwise still ahead of every poll that will pass it.          *)
Reaching(k) ==
  /\ HasLogs(k) =>
       \A d \in Disputes : d > cursor /\ BlockOf[d] <= poll[k].head =>
         Begun(d) \/ d \in poll[k].logs
  /\ poll[k].pc = "Adjudicating" => started[NextLog(k)] > 0

HandledIsPassed ==
  \A d \in Disputes : live[d] # "None" => d <= cursor /\ started[d] > 0

SubscriptionInv ==
  /\ TypeInv /\ Mined
  /\ BegunUpTo(lastSeen)
  /\ \A k \in Polls : Reaching(k)
  /\ HandledIsPassed
  /\ DeliveredIsTriggered

(* What was begun stays begun, and a dispute stands for the later ones of  *)
(* its block.                                                              *)
LEMMA BegunKept ==
  ASSUME NEW d \in Disputes, Begun(d),
         \A e \in Disputes : started[e] > 0 => started'[e] > 0
  PROVE  Begun(d)'
<1>1. 1..d \subseteq Disputes
  BY TriggerAssumption, FS_CardinalityType
<1> QED
  BY <1>1 DEF Begun

LEMMA BegunFor ==
  ASSUME NEW m \in Disputes, NEW d \in Disputes,
         m <= d, BlockOf[m] = BlockOf[d], started[m] > 0
  PROVE  Begun(d)
BY DisputeBlocks, TriggerAssumption, FS_CardinalityType DEF Begun

LEMMA DeliveredIsBegun ==
  DeliveredIsTriggered <=>
    \A d \in Disputes : event[d] = "Delivered" => Begun(d)
BY DEF DeliveredIsTriggered, Begun

(* A step that leaves the subscription where it is.                        *)
LEMMA SubscriptionInvKept ==
  ASSUME SubscriptionInv, TypeInv', Mined',
         cursor' = cursor, event' = event,
         \A e \in Disputes : started[e] > 0 => started'[e] > 0,
         \A d \in Disputes : live'[d] # "None" => live[d] # "None",
         BegunUpTo(lastSeen)',
         \A k \in Polls : poll'[k] = poll[k] \/ Reaching(k)'
  PROVE  SubscriptionInv'
<1>1. ASSUME NEW k \in Polls PROVE Reaching(k)'
  <2>1. CASE poll'[k] = poll[k]
    <3>1. Reaching(k) /\ Bounded(k) /\ poll[k] \in Polling
      BY DEF SubscriptionInv, TypeInv, TypeOK
    <3>2. poll[k].pc = "Adjudicating" => NextLog(k) \in Disputes
      BY <3>1, FirstLog DEF Bounded, NextLog, Polling
    <3> QED
      BY <2>1, <3>1, <3>2, BegunKept DEF Reaching, HasLogs, NextLog
  <2> QED
    BY <2>1
<1>2. HandledIsPassed'
  BY DEF SubscriptionInv, HandledIsPassed
<1>3. DeliveredIsTriggered'
  <2>1. \A d \in Disputes : event'[d] = "Delivered" => Begun(d)'
    BY BegunKept, DeliveredIsBegun DEF SubscriptionInv
  <2> QED
    BY <2>1 DEF DeliveredIsTriggered, Begun
<1> QED
  BY <1>1, <1>2, <1>3 DEF SubscriptionInv

LEMMA BeginGrows ==
  ASSUME TypeOK, NEW m \in Disputes, Begin(m)
  PROVE  /\ started'[m] > 0
         /\ \A d \in Disputes : started[d] > 0 => started'[d] > 0
BY DEF TypeOK, Begin

LEMMA ProcessEndsKeepsSubscription ==
  ASSUME SubscriptionInv, TypeInv', Mined', ProcessEnds
  PROVE  SubscriptionInv'
<1>1. /\ cursor' = cursor /\ event' = event /\ started' = started
      /\ lastSeen' = 0 /\ \A d \in Disputes : live'[d] = "None"
      /\ \A k \in Polls : poll'[k] = IdlePoll
  BY DEF ProcessEnds, StartBlock
<1>2. BegunUpTo(lastSeen)'
  BY <1>1, DisputeBlocks DEF BegunUpTo
<1>3. \A k \in Polls : Reaching(k)'
  BY <1>1 DEF Reaching, HasLogs, IdlePoll
<1> QED
  BY <1>1, <1>2, <1>3, SubscriptionInvKept

LEMMA EnvironmentKeepsSubscription ==
  ASSUME SubscriptionInv, TypeInv', Mined', Mine \/ Start \/ Stop \/ Exit
  PROVE  SubscriptionInv'
<1>1. CASE Mine \/ Stop
  <2>1. /\ cursor' = cursor /\ event' = event /\ started' = started
        /\ lastSeen' = lastSeen /\ live' = live /\ poll' = poll
    BY <1>1 DEF Mine, Stop, history
  <2>2. BegunUpTo(lastSeen)'
    BY <2>1 DEF SubscriptionInv, BegunUpTo, Begun
  <2> QED
    BY <2>1, <2>2, SubscriptionInvKept
<1>2. CASE Start
  <2>1. /\ cursor' = Cardinality(Logs(0, head)) /\ head' = head
        /\ event' = event /\ started' = started
        /\ live' = live /\ poll' = poll
    BY <1>2 DEF Start, chain, history
  <2>2. TypeOK /\ TypeOK' /\ head \in Nat
    BY TriggerAssumption DEF SubscriptionInv, TypeInv, TypeOK
  <2>3. \A d \in Disputes : BlockOf[d] <= head => ~(d > cursor')
    <3>1. \A d \in Disputes : BlockOf[d] <= head => d <= cursor'
      BY <2>1, <2>2, MinedIsDue
    <3>2. cursor' \in Nat
      BY <2>2, TriggerAssumption, FS_CardinalityType DEF TypeOK
    <3> QED
      BY <3>1, <3>2, DisputeBlocks
  <2>4. BegunUpTo(lastSeen)'
    <3>1. lastSeen' \in Nat /\ lastSeen' <= head
      BY <2>1, <2>2 DEF TypeOK
    <3> QED
      BY <2>2, <2>3, <3>1, DisputeBlocks DEF BegunUpTo
  <2>5. ASSUME NEW k \in Polls PROVE Reaching(k)'
    <3>1. Reaching(k) /\ poll[k].head \in Nat /\ poll[k].head <= head
      BY TriggerAssumption
         DEF SubscriptionInv, TypeInv, TypeOK, Bounded, Polling
    <3>2. \A d \in Disputes :
            d > cursor' /\ BlockOf[d] <= poll[k].head => FALSE
      BY <2>2, <2>3, <3>1, DisputeBlocks
    <3> QED
      BY <2>1, <3>1, <3>2 DEF Reaching, HasLogs, NextLog
  <2>6. HandledIsPassed'
    BY <2>1, <2>2, MinedIsDue DEF SubscriptionInv, Mined, HandledIsPassed
  <2>7. DeliveredIsTriggered'
    BY <2>1 DEF SubscriptionInv, DeliveredIsTriggered
  <2> QED
    BY <2>4, <2>5, <2>6, <2>7 DEF SubscriptionInv
<1>3. CASE Exit
  BY <1>3, ProcessEndsKeepsSubscription DEF Exit
<1> QED
  BY <1>1, <1>2, <1>3

(* An event that is delivered or missed moves the subscription past it.    *)
LEMMA EventKeepsSubscription ==
  ASSUME SubscriptionInv, TypeInv', Mined', Deliver \/ Miss
  PROVE  SubscriptionInv'
<1> DEFINE c == cursor + 1
<1>1. /\ TypeOK /\ cursor \in Nat /\ cursor' = c /\ c \in Disputes
      /\ poll' = poll /\ lastSeen' = lastSeen
  <2>1. /\ TypeOK /\ cursor \in Nat /\ cursor' = c /\ EventDue
        /\ poll' = poll /\ lastSeen' = lastSeen
    <3>1. TypeOK
      BY DEF SubscriptionInv, TypeInv
    <3>2. cursor \in Nat
      BY <3>1, TriggerAssumption, FS_CardinalityType DEF TypeOK
    <3>3. /\ cursor' = c /\ EventDue /\ poll' = poll
          /\ lastSeen' = lastSeen
      BY DEF Deliver, Miss
    <3> QED
      BY <3>1, <3>2, <3>3
  <2>2. c \in 1..Cardinality(Disputes)
    BY <2>1, LogsCount, TriggerAssumption, FS_CardinalityType DEF EventDue
  <2> QED
    BY <2>1, <2>2, TriggerAssumption
<1>2. \A d \in Disputes : d > c => d > cursor
  BY <1>1, DisputeBlocks
<1>3. /\ \A d \in Disputes : started[d] > 0 => started'[d] > 0
      /\ \A d \in Disputes \ {c} : live'[d] = live[d] /\ event'[d] = event[d]
      /\ event'[c] = "Delivered" => Begun(c) \/ started'[c] > 0
      /\ live'[c] # "None" => live[c] # "None" \/ started'[c] > 0
  <2>0. /\ live \in [Disputes -> HandlerStates]
        /\ event \in [Disputes -> {"None", "Delivered", "Missed"}]
    BY <1>1 DEF TypeOK
  <2>1. CASE Deliver /\ IsNew(c) /\ Begin(c)
    <3>1. \A d \in Disputes \ {c} : live'[d] = live[d] /\ event'[d] = event[d]
      BY <2>0, <2>1 DEF Deliver
    <3> HIDE DEF c
    <3> QED
      BY <1>1, <2>1, <3>1, BeginGrows
  <2>2. CASE Deliver /\ ~IsNew(c)
    <3>1. live' = live /\ started' = started
      BY <2>2 DEF Deliver
    <3>2. \A d \in Disputes \ {c} : event'[d] = event[d]
      BY <2>0, <2>2 DEF Deliver
    <3>3. c > cursor /\ BlockOf[c] <= lastSeen
      BY <1>1, <2>2, TriggerAssumption, DisputeBlocks DEF IsNew, TypeOK
    <3>4. Begun(c)
      BY <1>1, <3>3 DEF SubscriptionInv, BegunUpTo
    <3> QED
      BY <3>1, <3>2, <3>4
  <2>3. CASE Miss
    BY <1>1, <2>0, <2>3 DEF Miss
  <2> QED
    BY <2>1, <2>2, <2>3 DEF Deliver
<1> HIDE DEF c
<1>4. BegunUpTo(lastSeen)'
  BY <1>1, <1>2, <1>3, BegunKept DEF SubscriptionInv, BegunUpTo
<1>5. ASSUME NEW k \in Polls PROVE Reaching(k)'
  <2>1. Reaching(k) /\ Bounded(k) /\ poll[k] \in Polling
    BY <1>1 DEF SubscriptionInv, TypeInv, TypeOK
  <2>2. poll[k].pc = "Adjudicating" => NextLog(k) \in Disputes
    BY <2>1, FirstLog DEF Bounded, NextLog, Polling
  <2> QED
    BY <1>1, <1>2, <1>3, <2>1, <2>2, BegunKept DEF Reaching, HasLogs, NextLog
<1>6. HandledIsPassed'
  <2>1. ASSUME NEW d \in Disputes, live'[d] # "None"
        PROVE  d <= c /\ started'[d] > 0
    <3>1. CASE d = c
      BY <1>1, <1>3, <2>1, <3>1, DisputeBlocks
         DEF SubscriptionInv, HandledIsPassed
    <3>2. CASE d # c
      <4>1. d <= cursor /\ started[d] > 0
        BY <1>3, <2>1, <3>2 DEF SubscriptionInv, HandledIsPassed
      <4> QED
        BY <1>1, <1>3, <4>1, DisputeBlocks DEF c
    <3> QED
      BY <3>1, <3>2
  <2> QED
    BY <1>1, <2>1 DEF HandledIsPassed
<1>7. DeliveredIsTriggered'
  <2>1. ASSUME NEW d \in Disputes, event'[d] = "Delivered" PROVE Begun(d)'
    <3>1. CASE d = c /\ started'[c] > 0
      BY <3>1, DisputeBlocks, TriggerAssumption, FS_CardinalityType DEF Begun
    <3>2. CASE Begun(d)
      BY <1>3, <3>2, BegunKept
    <3> QED
      BY <1>3, <2>1, <3>1, <3>2, DeliveredIsBegun DEF SubscriptionInv
  <2> QED
    BY <2>1 DEF DeliveredIsTriggered, Begun
<1> QED
  BY <1>4, <1>5, <1>6, <1>7 DEF SubscriptionInv

(* A handler that completes moves lastSeenBlock to a block the subscription*)
(* has reached: what it has yet to deliver lies in later ones, or behind   *)
(* the handled dispute in the same.                                        *)
LEMMA LiveKeepsSubscription ==
  ASSUME SubscriptionInv, TypeInv', Mined',
         NEW m \in Disputes, Live(m)
  PROVE  SubscriptionInv'
<1>0. TypeOK /\ live \in [Disputes -> HandlerStates] /\ cursor \in Nat
  <2>1. TypeOK
    BY DEF SubscriptionInv, TypeInv
  <2>2. Cardinality(Disputes) \in Nat
    BY TriggerAssumption, FS_CardinalityType
  <2> QED
    BY <2>1, <2>2 DEF TypeOK
<1>1. CASE LiveCompletes(m) \/ LivePersists(m)
  <2>1. /\ cursor' = cursor /\ event' = event /\ started' = started
        /\ poll' = poll /\ live[m] # "None"
    BY <1>1 DEF LiveCompletes, LivePersists, history
  <2>2. \A d \in Disputes : live'[d] # "None" => live[d] # "None"
    BY <1>0, <1>1, <2>1 DEF LiveCompletes, LivePersists
  <2>3. BegunUpTo(lastSeen)'
    <3>1. CASE LiveCompletes(m)
      <4>1. lastSeen' = BlockOf[m] /\ m <= cursor /\ started[m] > 0
        BY <2>1, <3>1
           DEF LiveCompletes, Complete, SubscriptionInv, HandledIsPassed
      <4>2. ASSUME NEW d \in Disputes, d > cursor, BlockOf[d] <= BlockOf[m]
            PROVE  Begun(d)
        <5>1. m <= d
          BY <1>0, <4>1, <4>2, DisputeBlocks
        <5>2. BlockOf[m] <= BlockOf[d]
          BY <5>1, TriggerAssumption
        <5>3. BlockOf[m] = BlockOf[d]
          BY <4>2, <5>2, DisputeBlocks
        <5> QED
          BY <4>1, <5>1, <5>3, BegunFor
      <4> QED
        BY <2>1, <4>1, <4>2, BegunKept DEF BegunUpTo
    <3>2. CASE LivePersists(m)
      BY <2>1, <3>2, BegunKept DEF LivePersists, SubscriptionInv, BegunUpTo
    <3> QED
      BY <1>1, <3>1, <3>2
  <2> QED
    BY <2>1, <2>2, <2>3, SubscriptionInvKept
<1>2. CASE LiveFails(m)
  BY <1>2, ProcessEndsKeepsSubscription DEF LiveFails
<1> QED
  BY <1>1, <1>2 DEF Live

LEMMA PollKeepsSubscription ==
  ASSUME SubscriptionInv, TypeInv', Mined',
         NEW k \in Polls, Catchup(k)
  PROVE  SubscriptionInv'
<1>0. /\ TypeOK /\ poll \in [Polls -> Polling] /\ BegunUpTo(lastSeen)
      /\ lastSeen \in Nat /\ poll[k].head \in Nat
      /\ Reaching(k) /\ Bounded(k)
  BY TriggerAssumption DEF SubscriptionInv, TypeInv, TypeOK, Polling
<1>1. cursor' = cursor /\ event' = event /\ live' = live
  BY DEF Catchup, Handling, Poll, PollGetsLogs, PollRefused, PollSkips,
         PollHandles, PollCompletes, PollFails, PollPersists,
         PollReachesHead, PollEnds, history
<1>2. \A j \in Polls \ {k} : poll'[j] = poll[j]
  BY <1>0
     DEF Catchup, Handling, Poll, PollGetsLogs, PollRefused, PollSkips,
         PollHandles, PollCompletes, PollFails, PollPersists,
         PollReachesHead, PollEnds, PollGoesTo
<1>3. ASSUME \A d \in Disputes : started[d] > 0 => started'[d] > 0,
             BegunUpTo(lastSeen)', Reaching(k)'
      PROVE  SubscriptionInv'
  BY <1>1, <1>2, <1>3, SubscriptionInvKept DEF SubscriptionInv
<1>4. ASSUME lastSeen' = lastSeen, started' = started, Reaching(k)'
      PROVE  SubscriptionInv'
  <2>1. BegunUpTo(lastSeen)'
    BY <1>0, <1>1, <1>4, BegunKept DEF BegunUpTo
  <2> QED
    BY <1>3, <1>4, <2>1
(* The log at the poll's turn, if it has one.                              *)
<1>5. poll[k].logs # {} =>
        /\ NextLog(k) \in poll[k].logs /\ NextLog(k) \in Disputes
        /\ \A d \in poll[k].logs : NextLog(k) <= d
  BY <1>0, FirstLog DEF NextLog, Polling
<1>6. CASE Poll(k) \/ PollRefused(k) \/ PollFails(k) \/ PollEnds(k)
  <2>1. Reaching(k)'
    BY <1>0, <1>6
       DEF Poll, PollRefused, PollFails, PollEnds, Reaching, HasLogs, IdlePoll,
           Polling
  <2>2. lastSeen' = lastSeen /\ started' = started
    BY <1>6 DEF Poll, PollRefused, PollFails, PollEnds, history
  <2> QED
    BY <1>4, <2>1, <2>2
<1>7. CASE PollGetsLogs(k)
  <2>1. /\ lastSeen' = lastSeen /\ started' = started
        /\ poll'[k].head = poll[k].head /\ poll'[k].pc = "Logs"
        /\ poll'[k].logs = Logs(lastSeen + 1, poll[k].head)
    BY <1>0, <1>7 DEF PollGetsLogs, history, Polling
  <2>2. ASSUME NEW d \in Disputes, d > cursor, BlockOf[d] <= poll[k].head
        PROVE  Begun(d) \/ d \in Logs(lastSeen + 1, poll[k].head)
    <3>1. CASE BlockOf[d] <= lastSeen
      BY <1>0, <2>2, <3>1 DEF BegunUpTo
    <3>2. CASE ~(BlockOf[d] <= lastSeen)
      BY <1>0, <2>2, <3>2, DisputeBlocks DEF Logs
    <3> QED
      BY <3>1, <3>2
  <2>3. Reaching(k)'
    BY <1>1, <2>1, <2>2, BegunKept DEF Reaching
  <2> QED
    BY <1>4, <2>1, <2>3
<1>8. CASE PollSkips(k)
  <2>1. /\ lastSeen' = lastSeen /\ started' = started
        /\ poll'[k].head = poll[k].head /\ poll'[k].pc = "Logs"
        /\ poll'[k].logs = poll[k].logs \ {NextLog(k)}
        /\ HasLogs(k) /\ poll[k].logs # {} /\ ~IsNew(NextLog(k))
    BY <1>0, <1>8 DEF PollSkips, HasLog, HasLogs, history, Polling
  <2>2. NextLog(k) > cursor => Begun(NextLog(k))
    BY <1>0, <1>5, <2>1, DisputeBlocks DEF IsNew, BegunUpTo
  <2>3. Reaching(k)'
    BY <1>0, <1>1, <2>1, <2>2, BegunKept DEF Reaching
  <2> QED
    BY <1>4, <2>1, <2>3
<1>9. CASE PollHandles(k)
  <2>1. /\ lastSeen' = lastSeen /\ Begin(NextLog(k)) /\ HasLogs(k)
        /\ poll'[k].head = poll[k].head /\ poll'[k].logs = poll[k].logs
        /\ poll[k].logs # {}
    BY <1>0, <1>9 DEF PollHandles, PollGoesTo, HasLog, HasLogs, Polling
  <2>2. /\ started'[NextLog(k)] > 0
        /\ \A d \in Disputes : started[d] > 0 => started'[d] > 0
    BY <1>0, <1>5, <2>1, BeginGrows
  <2>3. NextLog(k)' = NextLog(k)
    BY <2>1 DEF NextLog
  <2>4. Reaching(k)'
    BY <1>0, <1>1, <2>1, <2>2, <2>3, BegunKept DEF Reaching
  <2>5. BegunUpTo(lastSeen)'
    BY <1>0, <1>1, <2>1, <2>2, BegunKept DEF BegunUpTo
  <2> QED
    BY <1>3, <2>2, <2>4, <2>5
<1>10. CASE PollCompletes(k)
  <2> DEFINE m == NextLog(k)
  <2>1. /\ lastSeen' = BlockOf[m] /\ started' = started
        /\ poll'[k].head = poll[k].head /\ poll'[k].pc = "Persisting"
        /\ poll'[k].logs = poll[k].logs \ {m}
        /\ HasLogs(k) /\ poll[k].logs # {} /\ started[m] > 0
    BY <1>0, <1>10
       DEF PollCompletes, Complete, HasLogs, Polling, Bounded, Reaching
  <2>2. /\ m \in poll[k].logs /\ m \in Disputes
        /\ \A d \in poll[k].logs : m <= d
    BY <1>5, <2>1
  <2> HIDE DEF m
  <2>3. BegunUpTo(lastSeen)'
    <3>1. ASSUME NEW d \in Disputes, d > cursor, BlockOf[d] <= BlockOf[m]
          PROVE  Begun(d)
      <4>1. BlockOf[d] <= poll[k].head
        BY <1>0, <2>1, <2>2, <3>1, DisputeBlocks DEF Bounded
      <4>2. CASE d \in poll[k].logs
        <5>1. m <= d /\ BlockOf[m] <= BlockOf[d]
          BY <2>2, <4>2, TriggerAssumption
        <5>2. BlockOf[m] = BlockOf[d]
          BY <2>2, <3>1, <5>1, DisputeBlocks
        <5> QED
          BY <2>1, <2>2, <5>1, <5>2, BegunFor
      <4> QED
        BY <1>0, <2>1, <3>1, <4>1, <4>2 DEF Reaching
    <3> QED
      BY <1>1, <2>1, <3>1, BegunKept DEF BegunUpTo
  <2>4. Begun(m)
    BY <2>1, <2>2, BegunFor, DisputeBlocks
  <2>5. Reaching(k)'
    BY <1>0, <1>1, <2>1, <2>4, BegunKept DEF Reaching
  <2> QED
    BY <1>3, <2>1, <2>3, <2>5
<1>11. CASE PollPersists(k)
  <2>1. /\ lastSeen' = lastSeen /\ started' = started /\ HasLogs(k)
        /\ poll'[k].head = poll[k].head /\ poll'[k].logs = poll[k].logs
        /\ poll'[k].pc = "Logs"
    BY <1>0, <1>11 DEF PollPersists, PollGoesTo, HasLogs, history, Polling
  <2>2. Reaching(k)'
    BY <1>0, <1>1, <2>1, BegunKept DEF Reaching
  <2> QED
    BY <1>4, <2>1, <2>2
<1>12. CASE PollReachesHead(k)
  <2>1. /\ lastSeen' = poll[k].head /\ started' = started
        /\ poll[k].logs = {} /\ HasLogs(k) /\ poll'[k].pc = "PersistingHead"
    BY <1>0, <1>12
       DEF PollReachesHead, HeadAtStart, PollGoesTo, HasLogs, history, Polling
  <2>2. BegunUpTo(lastSeen)'
    BY <1>0, <1>1, <2>1, BegunKept DEF BegunUpTo, Reaching
  <2>3. Reaching(k)'
    BY <2>1 DEF Reaching, HasLogs
  <2> QED
    BY <1>3, <2>1, <2>2, <2>3
<1> QED
  BY <1>6, <1>7, <1>8, <1>9, <1>10, <1>11, <1>12 DEF Catchup, Handling

(* An event the subscription delivered is dropped only for a dispute of its*)
(* block that was begun, no later one: lastSeenBlock passes what is yet to *)
(* be delivered only after such a dispute.  Disconnects, restarts, failures*)
(* and overlapping polls included.                                         *)
THEOREM DeliveredIsNotDropped == Spec => []DeliveredIsTriggered
<1>1. Init => SubscriptionInv
  <2> SUFFICES ASSUME Init PROVE SubscriptionInv
    OBVIOUS
  <2>1. TypeInv /\ Mined
    BY TypeInit DEF Init, Mined
  <2>2. BegunUpTo(lastSeen)
    BY DisputeBlocks DEF Init, StartBlock, BegunUpTo
  <2>3. \A k \in Polls : Reaching(k)
    BY DEF Init, Reaching, HasLogs, IdlePoll
  <2>4. HandledIsPassed /\ DeliveredIsTriggered
    BY DEF Init, HandledIsPassed, DeliveredIsTriggered
  <2> QED
    BY <2>1, <2>2, <2>3, <2>4 DEF SubscriptionInv
<1>2. SubscriptionInv /\ [Next]_vars => SubscriptionInv'
  <2> SUFFICES ASSUME SubscriptionInv, [Next]_vars PROVE SubscriptionInv'
    OBVIOUS
  <2>1. TypeInv' /\ Mined'
    BY TypeStep DEF SubscriptionInv
  <2>2. CASE Next
    BY <2>1, <2>2, EnvironmentKeepsSubscription, EventKeepsSubscription,
       LiveKeepsSubscription, PollKeepsSubscription DEF Next
  <2>3. CASE UNCHANGED vars
    <3>1. /\ cursor' = cursor /\ event' = event /\ started' = started
          /\ lastSeen' = lastSeen /\ live' = live /\ poll' = poll
      BY <2>3 DEF vars, history
    <3>2. BegunUpTo(lastSeen)'
      BY <3>1, BegunKept DEF SubscriptionInv, BegunUpTo
    <3> QED
      BY <2>1, <3>1, <3>2, SubscriptionInvKept
  <2> QED
    BY <2>2, <2>3
<1>3. SubscriptionInv => DeliveredIsTriggered
  BY DEF SubscriptionInv
<1> QED
  BY <1>1, <1>2, <1>3, PTL DEF Spec
=============================================================================
