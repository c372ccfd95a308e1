-------------------------- MODULE EosHistoryProofs --------------------------
(***************************************************************************)
(* Proofs about EosHistory, for every number of logs, forks, set-ups of    *)
(* the node and stops, and every size of an answer.                        *)
(***************************************************************************)
EXTENDS EosHistory, TLAPS

\* Between the calls: the log of the position that PullContractEvents works on is
\* the one with the stored number, and after the first action of an answer the
\* number of the next action.  Every action of the answer was a log of the chain,
\* and the ones before it are stored.
PositionInv ==
  /\ \A id \in Ids : id < size => logs[id] # NoBody
  /\ pc \in {"idle", "fetch", "adjust"} => base = 0 /\ parsed = 0
  /\ pc \in {"fetch", "adjust"} => current = index
  /\ pc = "parse" /\ parsed = 0 => current = index
  /\ pc \in {"parse", "offset"} /\ parsed > 0 => current = pos
  /\ pc = "parse" =>
       /\ \A id \in Ids : pos <= id /\ id < last => body[id] # NoBody
       /\ parsed > 0 => \A id \in Ids : Start <= id /\ id < pos => events[id] # NoBody

\* Each action of the answer still to be parsed is what the chain has, or a fork has
\* overtaken it.
AnswerCurrent ==
  pc = "parse" =>
    \A id \in Ids : pos <= id /\ id < last =>
      (id < size /\ body[id] = logs[id]) \/ <<id, body[id]>> \in overtaken


\* The smaller of two numbers is one of them.
LEMMA LeastFact ==
  ASSUME NEW a \in Nat, NEW b \in Nat
  PROVE  Least(a, b) \in Nat /\ Least(a, b) <= a /\ Least(a, b) <= b
           /\ (Least(a, b) = a \/ Least(a, b) = b)
BY DEF Least

-----------------------------------------------------------------------------
\* Boot, and every step of the chain, the node and the engine keep the types: the
\* numbers that are stored stay within the logs.
LEMMA TypeInit == Init => TypeOK
BY NumbersAssumption DEF Init, TypeOK, Ids, Bodies, NoAnswer, NoBody

\* A loop that goes back to idle keeps the types.
LEMMA IdleType ==
  ASSUME TypeOK, Idle, UNCHANGED <<chain, node, store, overtaken>>, known' \in 0 .. final,
         crashes' \in 0 .. MaxCrashes
  PROVE  TypeOK'
BY NumbersAssumption DEF Idle, NoAnswer, NoBody, chain, node, store, TypeOK, Ids, Bodies

\* Every step of the chain, the node and the scan keeps the types.
LEMMA TypeStep ==
  ASSUME TypeOK, PositionInv, [Next]_vars
  PROVE  TypeOK'
<1> USE NumbersAssumption
<1> USE DEF NoBody, chain, node, store, local
<1>1. CASE TxRequest
  BY <1>1 DEF TxRequest, TypeOK, Ids, Bodies
<1>2. CASE BlockBecomesIrreversible
  BY <1>2 DEF BlockBecomesIrreversible, TypeOK, Ids, Bodies
<1>3. ASSUME NEW k \in 0 .. MaxLogs, Fork(k) PROVE TypeOK'
  <2>1. Least(head, k) \in Nat /\ Least(head, k) <= k /\ (Least(head, k) = head \/ Least(head, k) = k)
    BY LeastFact DEF TypeOK
  <2>2. logs' \in [Ids -> Bodies]
    BY <1>3 DEF Fork, TypeOK, Bodies
  <2>3. overtaken' \subseteq Ids \X Bodies
    BY <1>3 DEF Fork, Unparsed, TypeOK
  <2> QED BY <1>3, <2>1, <2>2, <2>3 DEF Fork, TypeOK
<1>4. CASE NodeReceives
  BY <1>4 DEF NodeReceives, TypeOK, Ids, Bodies
<1>5. ASSUME NEW f \in 0 .. MaxLogs, RestoreSnapshot(f) PROVE TypeOK'
  BY <1>5 DEF RestoreSnapshot, TypeOK, Ids, Bodies
<1>6. CASE CheckNetworkStatus
  <2>1. Least(final, head) \in Nat /\ Least(final, head) <= final
    BY LeastFact DEF TypeOK
  <2> QED BY <1>6, <2>1 DEF CheckNetworkStatus, TypeOK, Ids, Bodies
<1>7. CASE PullContractEvents
  BY <1>7 DEF PullContractEvents, TxRequestsCount, TypeOK, PositionInv, Ids, Bodies
<1>8. CASE FetchActions
  <2>1. CASE From < head
    <3>1. Least(head, From + Limit) \in Nat /\ Least(head, From + Limit) <= head
      BY LeastFact DEF TypeOK, From
    <3>2. pc = "fetch" /\ pc' = "parse" /\ pos' = From /\ base' = first
            /\ last' = Least(head, From + Limit)
            /\ body' = [id \in Ids |-> IF id \in From .. (last' - 1) THEN logs[id] ELSE NoBody]
            /\ UNCHANGED <<count, current, parsed, chain, node, known, store, crashes, overtaken>>
      BY <1>8, <2>1 DEF FetchActions, ParseTxLogs, TypeOK, From
    <3>3. body' \in [Ids -> Bodies]
      BY <3>2 DEF TypeOK, Bodies
    <3> QED BY <3>1, <3>2, <3>3, <2>1 DEF TypeOK, Ids, Bodies, From
  <2>2. CASE From >= head
    <3>1. CASE Idle
      BY <1>8, <3>1, IdleType DEF FetchActions, ParseTxLogs, TypeOK
    <3>2. CASE pc' = "adjust" /\ UNCHANGED <<count, current, pos, base, last, body, parsed>>
      BY <1>8, <3>2 DEF FetchActions, ParseTxLogs, TypeOK
    <3> QED BY <1>8, <2>2, <3>1, <3>2 DEF FetchActions, ParseTxLogs, TypeOK, From
  <2> QED BY <2>1, <2>2 DEF TypeOK, From
<1>9. CASE AdjustOffset
  <2>1. CASE Idle
    BY <1>9, <2>1, IdleType DEF AdjustOffset, TypeOK
  <2>2. CASE ~ Idle
    <3>1. current >= first /\ pos' = current - first /\ pc' = "fetch" /\ base = 0
            /\ UNCHANGED <<count, current, base, last, body, parsed, chain, node, known, store, crashes, overtaken>>
      BY <1>9, <2>2 DEF AdjustOffset, PositionInv
    <3> QED BY <3>1 DEF TypeOK
  <2> QED BY <2>1, <2>2
<1>10. CASE StoreEvent
  <2>1. pos \in Ids
    BY <1>10 DEF StoreEvent, MoreActions, TypeOK, Ids
  <2>2. events' \in [Ids -> Bodies]
    BY <1>10, <2>1 DEF StoreEvent, WriteEvent, TypeOK
  <2> QED BY <1>10, <2>1, <2>2 DEF StoreEvent, TypeOK, Ids, Bodies
<1>11. CASE MismatchFound
  BY <1>11 DEF MismatchFound, NoAnswer, TypeOK, Ids, Bodies
<1>12. CASE WriteNonce
  <2>1. CASE parsed = 0
    BY <1>12, <2>1, IdleType DEF WriteNonce, TypeOK
  <2>2. CASE parsed > 0
    BY <1>12, <2>2 DEF WriteNonce, TypeOK
  <2> QED BY <2>1, <2>2 DEF TypeOK
<1>13. CASE WriteOffset
  BY <1>13 DEF WriteOffset, Idle, NoAnswer, TypeOK, Ids, Bodies
<1>14. CASE Crash
  <2>1. Least(final, head) \in Nat /\ Least(final, head) <= final
    BY LeastFact DEF TypeOK
  <2> QED BY <1>14, <2>1 DEF Crash, Idle, NoAnswer, TypeOK, Ids, Bodies
<1>15. CASE UNCHANGED vars
  BY <1>15 DEF vars, TypeOK
<1> QED
  BY <1>1, <1>2, <1>3, <1>4, <1>5, <1>6, <1>7, <1>8, <1>9, <1>10, <1>11, <1>12, <1>13,
     <1>14, <1>15 DEF Next

-----------------------------------------------------------------------------
\* Before the first scan nothing is fetched and nothing is stored.
LEMMA PositionInit == Init => PositionInv
BY NumbersAssumption DEF Init, PositionInv, NoAnswer, Ids

\* A step that ends PullContractEvents leaves no position behind.
LEMMA IdlePosition ==
  ASSUME PositionInv, Idle, logs' = logs, size' = size
  PROVE  PositionInv'
BY DEF Idle, PositionInv

\* A step of the chain, the node or the network check does not touch the position.
LEMMA ChainPosition ==
  ASSUME TypeOK, PositionInv, UNCHANGED <<local, store>>,
         \A id \in Ids : id < size' => logs'[id] # NoBody
  PROVE  PositionInv'
<1>1. /\ UNCHANGED <<pc, count, current, pos, base, last, body, parsed>>
      /\ UNCHANGED <<events, index, offset>>
  BY DEF local, store
<1> QED BY <1>1 DEF PositionInv

\* Every step keeps what the locals of PullContractEvents say of the stored number.
LEMMA PositionStep ==
  ASSUME TypeOK, PositionInv, NoLogMissed, [Next]_vars
  PROVE  PositionInv'
<1> USE NumbersAssumption
<1> USE DEF NoBody, chain, node, store
<1>1. CASE TxRequest
  <2>1. \A id \in Ids : id < size' => logs'[id] # NoBody
    BY <1>1 DEF TxRequest, PositionInv, TypeOK, Ids
  <2> QED BY <1>1, <2>1, ChainPosition DEF TxRequest
<1>2. CASE BlockBecomesIrreversible
  BY <1>2, ChainPosition DEF BlockBecomesIrreversible, PositionInv
<1>3. ASSUME NEW k \in 0 .. MaxLogs, Fork(k) PROVE PositionInv'
  <2>1. \A id \in Ids : id < size' => logs'[id] # NoBody
    BY <1>3 DEF Fork, PositionInv, TypeOK, Ids
  <2> QED BY <1>3, <2>1, ChainPosition DEF Fork
<1>4. CASE NodeReceives
  BY <1>4, ChainPosition DEF NodeReceives, PositionInv
<1>5. ASSUME NEW f \in 0 .. MaxLogs, RestoreSnapshot(f) PROVE PositionInv'
  BY <1>5, ChainPosition DEF RestoreSnapshot, PositionInv
<1>6. CASE CheckNetworkStatus
  BY <1>6, ChainPosition DEF CheckNetworkStatus, PositionInv
<1>7. CASE PullContractEvents
  BY <1>7 DEF PullContractEvents, TxRequestsCount, PositionInv
<1>8. CASE FetchActions
  <2>1. CASE Idle
    BY <1>8, <2>1, IdlePosition DEF FetchActions
  <2>2. CASE pc' = "adjust" /\ UNCHANGED <<count, current, pos, base, last, body, parsed>>
    BY <1>8, <2>2 DEF FetchActions, ParseTxLogs, PositionInv
  <2>3. CASE ~ Idle /\ pc' # "adjust"
    <3>1. From < head /\ pc = "fetch" /\ pc' = "parse" /\ pos' = From
            /\ last' = Least(head, From + Limit)
            /\ body' = [id \in Ids |-> IF id \in From .. (last' - 1) THEN logs[id] ELSE NoBody]
            /\ UNCHANGED <<count, current, parsed, chain, node, known, store, crashes, overtaken>>
      BY <1>8, <2>3 DEF FetchActions, ParseTxLogs
    <3>2. Least(head, From + Limit) \in Nat /\ Least(head, From + Limit) <= head
      BY LeastFact DEF TypeOK, From
    <3>3. current = index /\ parsed = 0
      BY <3>1 DEF PositionInv
    <3>4. \A id \in Ids : pos' <= id /\ id < last' => body'[id] # NoBody
      <4> TAKE id \in Ids
      <4> HAVE pos' <= id /\ id < last'
      <4>1. id \in From .. (last' - 1) /\ id < size
        BY <3>1, <3>2 DEF TypeOK, Ids, From
      <4>2. body'[id] = logs[id]
        BY <3>1, <4>1
      <4> QED BY <4>1, <4>2 DEF PositionInv
    <3>5. \A id \in Ids : id < size' => logs'[id] # NoBody
      BY <3>1 DEF PositionInv
    <3> QED BY <3>1, <3>3, <3>4, <3>5 DEF PositionInv
  <2> QED BY <1>8, <2>1, <2>2, <2>3 DEF FetchActions
<1>9. CASE AdjustOffset
  <2>1. CASE Idle
    BY <1>9, <2>1, IdlePosition DEF AdjustOffset
  <2>2. CASE ~ Idle
    BY <1>9, <2>2 DEF AdjustOffset, PositionInv
  <2> QED BY <2>1, <2>2
<1>10. CASE StoreEvent
  <2>1. pc = "parse" /\ pc' = pc /\ pos < last /\ pos \in Ids /\ ~ Mismatch
    BY <1>10 DEF StoreEvent, WriteEvent, MoreActions, TypeOK, Ids
  <2>2. pos >= Start => events'[pos] # NoBody
    BY <1>10, <2>1 DEF StoreEvent, WriteEvent, PositionInv, TypeOK, Ids
  <2>3. \A id \in Ids : events[id] # NoBody => events'[id] # NoBody
    BY <1>10, <2>1, <2>2 DEF StoreEvent, WriteEvent, TypeOK
  <2>4. \A id \in Ids : Start <= id /\ id < pos => events[id] # NoBody
    <3>1. CASE parsed = 0
      <4>1. current = index
        BY <2>1, <3>1 DEF PositionInv
      <4>2. pos < Start \/ pos = current
        BY <1>10 DEF StoreEvent, WriteEvent, Mismatch, TypeOK
      <4> QED BY <4>1, <4>2 DEF NoLogMissed, TypeOK, Ids
    <3>2. CASE parsed > 0
      BY <2>1, <3>2 DEF PositionInv
    <3> QED BY <3>1, <3>2 DEF TypeOK
  <2>5. \A id \in Ids : Start <= id /\ id < pos' => events'[id] # NoBody
    <3>1. pos' = pos + 1
      BY <1>10 DEF StoreEvent, WriteEvent
    <3> QED BY <2>2, <2>3, <2>4, <3>1 DEF TypeOK, Ids
  <2>6. \A id \in Ids : pos' <= id /\ id < last' => body'[id] # NoBody
    BY <1>10, <2>1 DEF StoreEvent, WriteEvent, PositionInv, TypeOK, Ids
  <2>7. current' = pos' /\ parsed' > 0
    BY <1>10 DEF StoreEvent, WriteEvent, TypeOK
  <2>8. \A id \in Ids : id < size' => logs'[id] # NoBody
    BY <1>10 DEF StoreEvent, WriteEvent, PositionInv
  <2> QED BY <2>1, <2>5, <2>6, <2>7, <2>8 DEF PositionInv
<1>11. CASE MismatchFound
  <2>1. pc = "parse"
    BY <1>11 DEF MismatchFound, Mismatch, MoreActions
  <2> QED BY <1>11, <2>1 DEF MismatchFound, PositionInv, TypeOK
<1>12. CASE WriteNonce
  <2>1. CASE parsed = 0
    BY <1>12, <2>1, IdlePosition DEF WriteNonce, TypeOK
  <2>2. CASE parsed > 0
    BY <1>12, <2>2 DEF WriteNonce, PositionInv, TypeOK
  <2> QED BY <2>1, <2>2 DEF TypeOK
<1>13. CASE WriteOffset
  BY <1>13, IdlePosition DEF WriteOffset
<1>14. CASE Crash
  BY <1>14, IdlePosition DEF Crash
<1>15. CASE UNCHANGED vars
  BY <1>15, ChainPosition DEF vars, PositionInv
<1> QED
  BY <1>1, <1>2, <1>3, <1>4, <1>5, <1>6, <1>7, <1>8, <1>9, <1>10, <1>11, <1>12, <1>13,
     <1>14, <1>15 DEF Next

-----------------------------------------------------------------------------
\* Only storeWriteTxRequestNonce moves the stored number, to that of the next action,
\* below which everything is stored; and nothing removes an event.
LEMMA MissedStep ==
  ASSUME TypeOK, PositionInv, NoLogMissed, [Next]_vars
  PROVE  NoLogMissed'
<1> USE NumbersAssumption
<1> USE DEF chain, node, store
<1>1. \A id \in Ids : events[id] # NoBody => events'[id] # NoBody
  <2>1. CASE StoreEvent
    <3>1. pos \in Ids /\ pos < last /\ pc = "parse"
      BY <2>1 DEF StoreEvent, WriteEvent, MoreActions, TypeOK, Ids
    <3>2. CASE events' = events
      BY <3>2
    <3>3. CASE events' = [events EXCEPT ![pos] = body[pos]]
      BY <3>1, <3>3 DEF PositionInv, TypeOK
    <3> QED BY <2>1, <3>2, <3>3 DEF StoreEvent, WriteEvent
  <2>2. CASE ~ StoreEvent
    <3>1. events' = events
      BY <2>2 DEF Next, vars, TxRequest, BlockBecomesIrreversible, Fork, NodeReceives,
        RestoreSnapshot, CheckNetworkStatus, PullContractEvents, FetchActions, ParseTxLogs, AdjustOffset,
        MismatchFound, WriteNonce, WriteOffset, Crash
    <3> QED BY <3>1
  <2> QED BY <2>1, <2>2
<1>2. CASE WriteNonce /\ parsed > 0
  <2>1. pc = "parse" /\ index' = current /\ current = pos
    BY <1>2 DEF WriteNonce, NoMoreActions, PositionInv, TypeOK
  <2> QED BY <1>1, <1>2, <2>1 DEF PositionInv, NoLogMissed, TypeOK
<1>3. CASE ~ (WriteNonce /\ parsed > 0)
  <2>1. index' = index
    BY <1>3 DEF Next, vars, TxRequest, BlockBecomesIrreversible, Fork, NodeReceives,
      RestoreSnapshot, CheckNetworkStatus, PullContractEvents, FetchActions, ParseTxLogs, AdjustOffset,
      StoreEvent, MismatchFound, WriteNonce, WriteOffset, Crash
  <2> QED BY <1>1, <2>1 DEF NoLogMissed
<1> QED BY <1>2, <1>3

\* All the invariants that hold whatever the chain does while the engine parses.
HistoryInv == TypeOK /\ PositionInv /\ NoLogMissed

\* The invariant of the scan holds in every behaviour.
LEMMA HistoryInvariant == Spec => []HistoryInv
<1>1. Init => HistoryInv
  <2>1. Init => NoLogMissed
    BY NumbersAssumption DEF Init, NoLogMissed, Ids
  <2> QED BY TypeInit, PositionInit, <2>1 DEF HistoryInv
<1>2. HistoryInv /\ [Next]_vars => HistoryInv'
  BY TypeStep, PositionStep, MissedStep DEF HistoryInv
<1> QED BY <1>1, <1>2, PTL DEF Spec

\* The numbers that PullContractEvents stores and works with stay within the logs,
\* for every behaviour of the chain and the node.
THEOREM TypeCorrect == Spec => []TypeOK
<1>1. HistoryInv => TypeOK
  BY DEF HistoryInv
<1> QED BY <1>1, HistoryInvariant, PTL

\* The stored number of the next log never passes a log that parseActions has not
\* stored, whatever stops, forks and new histories come between the writes.
THEOREM NoLogIsMissed == Spec => []NoLogMissed
<1>1. HistoryInv => NoLogMissed
  BY DEF HistoryInv
<1> QED BY <1>1, HistoryInvariant, PTL

\* parseActions never meets a wrong number after the first action of an answer, which
\* is where the code panics.
THEOREM NoLaterMismatch == Spec => []NeverMismatchedLater
<1>1. HistoryInv => NeverMismatchedLater
  BY DEF HistoryInv, PositionInv, TypeOK, NeverMismatchedLater, Mismatch, MoreActions
<1> QED BY <1>1, HistoryInvariant, PTL

-----------------------------------------------------------------------------
\* A step that leaves the logs and the local variables alone keeps the answer current.
LEMMA SameAnswer ==
  ASSUME AnswerCurrent, UNCHANGED <<pc, pos, last, body, logs, size, overtaken>>
  PROVE  AnswerCurrent'
BY DEF AnswerCurrent

\* Every step keeps the answer in agreement with the chain, where it is not
\* overtaken by a fork.
LEMMA CurrentStep ==
  ASSUME HistoryInv, AnswerCurrent, [Next]_vars
  PROVE  AnswerCurrent'
<1> USE NumbersAssumption
<1> USE DEF chain, node, store, local
<1>0. TypeOK
  BY DEF HistoryInv
<1>1. CASE TxRequest
  BY <1>0, <1>1 DEF TxRequest, AnswerCurrent, TypeOK, Ids
<1>2. ASSUME NEW k \in 0 .. MaxLogs, Fork(k) PROVE AnswerCurrent'
  <2>1. /\ k \in Nat /\ size' = k /\ UNCHANGED <<pc, pos, last, body>>
        /\ overtaken' = overtaken \cup Unparsed(k)
        /\ \A id \in Ids : id < k => logs'[id] = logs[id]
    BY <1>0, <1>2 DEF Fork
  <2>2. ASSUME pc = "parse", NEW id \in Ids, pos <= id, id < last
        PROVE  (id < k /\ body[id] = logs'[id]) \/ <<id, body[id]>> \in overtaken'
    <3>1. CASE id < k
      BY <2>1, <2>2, <3>1 DEF AnswerCurrent
    <3>2. CASE k <= id
      BY <2>1, <2>2, <3>2 DEF Unparsed
    <3> QED BY <1>0, <2>1, <3>1, <3>2 DEF TypeOK, Ids
  <2> QED BY <2>1, <2>2 DEF AnswerCurrent
<1>3. CASE FetchActions
  <2>1. CASE pc' # "parse"
    BY <2>1 DEF AnswerCurrent
  <2>2. CASE pc' = "parse"
    <3>1. From < head /\ pos' = From /\ last' = Least(head, From + Limit)
            /\ body' = [id \in Ids |-> IF id \in From .. (last' - 1) THEN logs[id] ELSE NoBody]
            /\ UNCHANGED <<logs, size>>
      BY <1>3, <2>2 DEF FetchActions, ParseTxLogs, Idle
    <3>2. Least(head, From + Limit) \in Nat /\ Least(head, From + Limit) <= head
      BY <1>0, LeastFact DEF TypeOK, From
    <3>3. \A id \in Ids : pos' <= id /\ id < last' => id < size' /\ body'[id] = logs'[id]
      BY <1>0, <3>1, <3>2 DEF TypeOK, Ids, From
    <3> QED BY <3>3 DEF AnswerCurrent
  <2> QED BY <2>1, <2>2
<1>4. CASE StoreEvent
  BY <1>0, <1>4 DEF StoreEvent, WriteEvent, AnswerCurrent, TypeOK, Ids
<1>5. CASE PullContractEvents \/ AdjustOffset \/ MismatchFound \/ WriteNonce \/ WriteOffset \/ Crash
  <2>1. pc' # "parse"
    BY <1>5 DEF PullContractEvents, TxRequestsCount, AdjustOffset, MismatchFound, WriteNonce, WriteOffset, Crash, Idle
  <2> QED BY <2>1 DEF AnswerCurrent
<1>6. CASE \/ BlockBecomesIrreversible \/ NodeReceives \/ CheckNetworkStatus
           \/ \E f \in 0 .. MaxLogs : RestoreSnapshot(f)
  BY <1>6, SameAnswer DEF BlockBecomesIrreversible, NodeReceives, CheckNetworkStatus, RestoreSnapshot
<1>7. CASE UNCHANGED vars
  BY <1>7, SameAnswer DEF vars
<1> QED BY <1>1, <1>2, <1>3, <1>4, <1>5, <1>6, <1>7 DEF Next

\* Every step keeps what is stored on the chain for good.
LEMMA FinalStep ==
  ASSUME HistoryInv, AnswerCurrent, StoredIsFinal, [Next]_vars
  PROVE  StoredIsFinal'
<1> USE NumbersAssumption
<1> USE DEF chain, node, store, local
<1>0. TypeOK
  BY DEF HistoryInv
<1>1. CASE TxRequest
  BY <1>0, <1>1 DEF TxRequest, StoredIsFinal, TypeOK, Ids
<1>2. ASSUME NEW k \in 0 .. MaxLogs, Fork(k) PROVE StoredIsFinal'
  BY <1>0, <1>2 DEF Fork, StoredIsFinal, TypeOK, Ids
<1>3. CASE StoreEvent
  <2>1. pos \in Ids /\ ((pos < final /\ body[pos] = logs[pos]) \/ Overtaken)
    BY <1>0, <1>3 DEF StoreEvent, WriteEvent, MoreActions, Overtaken, AnswerCurrent, TypeOK, Ids
  <2>2. UNCHANGED <<final, logs, overtaken>>
    BY <1>3 DEF StoreEvent, WriteEvent
  <2>3. CASE events' = events
    BY <2>2, <2>3 DEF StoredIsFinal
  <2>4. CASE events' = [events EXCEPT ![pos] = body[pos]]
    BY <1>0, <2>1, <2>2, <2>4 DEF StoredIsFinal, Overtaken, TypeOK
  <2> QED BY <1>3, <2>3, <2>4 DEF StoreEvent, WriteEvent
<1>4. CASE BlockBecomesIrreversible
  BY <1>0, <1>4 DEF BlockBecomesIrreversible, StoredIsFinal, TypeOK, Ids
<1>5. CASE \/ NodeReceives \/ CheckNetworkStatus \/ \E f \in 0 .. MaxLogs : RestoreSnapshot(f)
           \/ PullContractEvents \/ FetchActions \/ AdjustOffset \/ MismatchFound
           \/ WriteNonce \/ WriteOffset \/ Crash \/ UNCHANGED vars
  <2>1. UNCHANGED <<events, final, logs, overtaken>>
    BY <1>5 DEF NodeReceives, CheckNetworkStatus, RestoreSnapshot, PullContractEvents,
      FetchActions, ParseTxLogs, AdjustOffset, MismatchFound, WriteNonce, WriteOffset, Crash, vars
  <2> QED BY <2>1 DEF StoredIsFinal
<1> QED BY <1>1, <1>2, <1>3, <1>4, <1>5 DEF Next

\* What is stored is irreversible and what the chain has, or a log that a fork
\* dropped between the fetch of its answer and the check against lastChainInfo,
\* whatever forks, stops and new histories of the node come in between.
THEOREM StoredStaysFinal == Spec => []StoredIsFinal
<1>1. Init => AnswerCurrent /\ StoredIsFinal
  BY DEF Init, AnswerCurrent, StoredIsFinal, NoAnswer
<1>2. HistoryInv /\ AnswerCurrent /\ StoredIsFinal /\ [Next]_vars
        => AnswerCurrent' /\ StoredIsFinal'
  BY CurrentStep, FinalStep
<1> QED BY <1>1, <1>2, HistoryInvariant, PTL DEF Spec
=============================================================================
