----------------------------- MODULE EosHistory -----------------------------
(***************************************************************************)
(* How the EOS engine (mvm/eos/engine.go, PullContractEvents) reads the    *)
(* payments that contracts request from mtg.xin.                           *)
(*                                                                         *)
(* mtg.xin numbers its logs.  A node serves them by their position in its  *)
(* own history, which starts anew when the node is set up from a snapshot; *)
(* the engine keeps the position and the number of the next log and finds  *)
(* the position again by the number.  Logs above the last irreversible     *)
(* block may still be replaced.                                            *)
(***************************************************************************)
EXTENDS Naturals

CONSTANTS
  MaxLogs,          \* bound on the logs
  Limit,            \* actions in an answer, MAX_ACTIONS in the code
  Start,            \* number of logs before actionStartSequence
  MaxForks,         \* bound on forks
  MaxSnapshots,     \* bound on new set-ups of the node
  MaxCrashes        \* bound on stops of the engine, panics left aside

ASSUME NumbersAssumption ==
  /\ MaxLogs \in Nat
  /\ Limit \in Nat \ {0}
  /\ Start \in Nat
  /\ MaxForks \in Nat
  /\ MaxSnapshots \in Nat
  /\ MaxCrashes \in Nat

Ids == 0 .. (MaxLogs - 1)
NoBody == 0
Bodies == 0 .. (MaxForks + 1)   \* a log is told apart by the fork it is on

VARIABLES
  logs,       \* logs[id]: the log of mtg.xin, NoBody when there is none
  size,       \* KEY_TX_REQUEST_SEQ, the number of logs
  final,      \* number of logs in irreversible blocks
  first,      \* number of the first log in the node's history
  head,       \* number of logs up to the node's head block
  forks,      \* forks so far
  snapshots,  \* set-ups of the node so far
  known,      \* lastChainInfo, as the number of logs known to be irreversible
  events,     \* events[id]: EOS:CONTRACT:EVENT:QUEUE, NoBody when not stored
  index,      \* stored tx request nonce, the next log to store
  offset,     \* stored position of the next log in the node's history
  pc,         \* where PullContractEvents is
  count,      \* txRequestCount
  current,    \* currentTxRequestIndex, then txRequestIndex of parseActions
  pos,        \* offset of the next fetch; then the log that is parsed next
  base,       \* number of the first log in the history of the answer
  last,       \* the answer holds the logs below this number
  body,       \* body[id]: what the answer says of log id
  parsed,     \* actions of the answer that were parsed
  crashes,    \* stops so far
  overtaken   \* history: logs, as pairs of number and body, that a fork dropped
              \* while they were in an answer still to be parsed

chain == <<logs, size, final, forks>>
node == <<first, head, snapshots>>
store == <<events, index, offset>>
local == <<pc, count, current, pos, base, last, body, parsed>>
vars == <<chain, node, known, store, local, crashes, overtaken>>

NoAnswer == [id \in Ids |-> NoBody]
Least(a, b) == IF a < b THEN a ELSE b

\* The engine is configured so that the history it starts with holds log 0 or
\* begins before the start sequence.
Init ==
  /\ logs = NoAnswer
  /\ size = 0
  /\ final = 0
  /\ forks = 0
  /\ first = 0
  /\ head = 0
  /\ snapshots = 0
  /\ known = 0
  /\ events = NoAnswer
  /\ index = 0
  /\ offset = 0
  /\ pc = "idle"
  /\ count = 0
  /\ current = 0
  /\ pos = 0
  /\ base = 0
  /\ last = 0
  /\ body = NoAnswer
  /\ parsed = 0
  /\ crashes = 0
  /\ overtaken = {}

-----------------------------------------------------------------------------
(* The chain and the node *)

\* txrequest of mtg.xin
TxRequest ==
  /\ size < MaxLogs
  /\ logs' = [logs EXCEPT ![size] = forks + 1]
  /\ size' = size + 1
  /\ UNCHANGED <<final, forks, node, known, store, local, crashes, overtaken>>

BlockBecomesIrreversible ==
  /\ final < size
  /\ final' = final + 1
  /\ UNCHANGED <<logs, size, forks, node, known, store, local, crashes, overtaken>>

\* The logs of the answer that are still to be parsed, from number k on.
Unparsed(k) ==
  {<<id, body[id]>> : id \in {i \in Ids : pc = "parse" /\ pos <= i /\ k <= i /\ i < last}}

\* The logs from k on are dropped with their blocks, whatever the engine is doing.
Fork(k) ==
  /\ forks < MaxForks
  /\ k \in final .. size
  /\ k < size
  /\ overtaken' = overtaken \cup Unparsed(k)
  /\ forks' = forks + 1
  /\ logs' = [id \in Ids |-> IF id < k THEN logs[id] ELSE NoBody]
  /\ size' = k
  /\ head' = Least(head, k)
  /\ UNCHANGED <<final, first, snapshots, known, store, local, crashes>>

\* the node receives blocks up to the next log
NodeReceives ==
  /\ head < size
  /\ head' = head + 1
  /\ UNCHANGED <<chain, first, snapshots, known, store, local, crashes, overtaken>>

\* The node is set up from a snapshot that is not younger than what the engine
\* has read, or, before it has read anything, than the start sequence.
RestoreSnapshot(f) ==
  /\ snapshots < MaxSnapshots
  /\ f \in 0 .. final
  /\ f <= index \/ (index = 0 /\ f < Start)
  /\ snapshots' = snapshots + 1
  /\ first' = f
  /\ head' = f
  /\ UNCHANGED <<chain, known, store, local, crashes, overtaken>>

-----------------------------------------------------------------------------
(* The engine *)

\* loopCheckNetworkStatus, next to everything else
CheckNetworkStatus ==
  /\ known # Least(final, head)
  /\ known' = Least(final, head)
  /\ UNCHANGED <<chain, node, store, local, crashes, overtaken>>

\* local variables at the end of PullContractEvents
Idle ==
  /\ pc' = "idle"
  /\ count' = 0
  /\ current' = 0
  /\ pos' = 0
  /\ base' = 0
  /\ last' = 0
  /\ body' = NoAnswer
  /\ parsed' = 0

\* KEY_TX_REQUEST_SEQ in the state of the node
TxRequestsCount == head

\* GetTxRequestsCount, which fails without a counter, and the stored positions
PullContractEvents ==
  /\ pc = "idle"
  /\ TxRequestsCount > 0
  /\ pc' = "fetch"
  /\ count' = TxRequestsCount
  /\ current' = index
  /\ pos' = offset
  /\ UNCHANGED <<base, last, body, parsed, chain, node, known, store, crashes, overtaken>>

\* the numbers of the logs in an answer start here
From == first + pos

\* the log of each action trace of an answer, by the number it carries
ParseTxLogs(from, to) == [id \in Ids |-> IF id \in from .. (to - 1) THEN logs[id] ELSE NoBody]

\* FetchActions, and what PullContractEvents does with an empty answer
FetchActions ==
  /\ pc = "fetch"
  /\ \/ /\ From >= head
        /\ current > 0 /\ count >= current + 1
        /\ pc' = "adjust"
        /\ UNCHANGED <<count, current, pos, base, last, body, parsed>>
     \/ /\ From >= head
        /\ ~ (current > 0 /\ count >= current + 1)
        /\ Idle
     \/ /\ From < head
        /\ pc' = "parse"
        /\ pos' = From
        /\ base' = first
        /\ last' = Least(head, From + Limit)
        /\ body' = ParseTxLogs(From, last')
        /\ UNCHANGED <<count, current, parsed>>
  /\ UNCHANGED <<chain, node, known, store, crashes, overtaken>>

\* the position is taken as it is
MutantAdjustOffset ==
  /\ pc = "adjust"
  /\ \/ /\ first = head \/ current < first
        /\ Idle
     \/ /\ first < head /\ current >= first
        /\ pos' = current
        /\ pc' = "fetch"
        /\ UNCHANGED <<count, current, base, last, body, parsed>>
  /\ UNCHANGED <<chain, node, known, store, crashes, overtaken>>

\* a panic ends the program, which is started again
AdjustOffset ==
  /\ pc = "adjust"
  /\ \/ /\ first = head \/ current < first
        /\ Idle
     \/ /\ first < head /\ current >= first
        /\ pos' = current - first
        /\ pc' = "fetch"
        /\ UNCHANGED <<count, current, base, last, body, parsed>>
  /\ UNCHANGED <<chain, node, known, store, crashes, overtaken>>

\* the last irreversible block is not looked at
MutantMoreActions == pc = "parse" /\ pos < last

\* The next action of the answer is of a block that a fork has dropped since.
Overtaken == <<pos, body[pos]>> \in overtaken

\* parseActions has a next action, with a block number that is irreversible as far as
\* known.  The number of a dropped block may be one of another block by now, before
\* or after the last irreversible one: blocks without logs count too.
MoreActions == pc = "parse" /\ pos < last /\ (pos < known \/ Overtaken)

\* parseActions has no next action, or breaks off at it
NoMoreActions == pc = "parse" /\ (pos < last => pos >= known \/ Overtaken)

\* the numbers do not match, which only a first action may
Mismatch == MoreActions /\ pos >= Start /\ pos # current

\* storeWriteContractEvent: a stored event is never replaced
WriteEvent(id) ==
  events' = IF events[id] = NoBody THEN [events EXCEPT ![id] = body[id]] ELSE events

\* a skipped action is counted
MutantStoreEvent ==
  /\ MoreActions /\ ~ Mismatch
  /\ IF pos >= Start THEN WriteEvent(pos) ELSE UNCHANGED events
  /\ current' = current + 1
  /\ pos' = pos + 1
  /\ parsed' = parsed + 1
  /\ UNCHANGED <<pc, count, base, last, body, index, offset, chain, node, known, crashes, overtaken>>

\* parseActions: actions before the start sequence are skipped
StoreEvent ==
  /\ MoreActions /\ ~ Mismatch
  /\ IF pos >= Start THEN WriteEvent(pos) ELSE UNCHANGED events
  /\ current' = pos + 1
  /\ pos' = pos + 1
  /\ parsed' = parsed + 1
  /\ UNCHANGED <<pc, count, base, last, body, index, offset, chain, node, known, crashes, overtaken>>

\* the history is another one; the code panics when it is not the first action
MismatchFound ==
  /\ Mismatch
  /\ parsed = 0
  /\ pc' = "adjust"
  /\ pos' = 0
  /\ base' = 0
  /\ last' = 0
  /\ body' = NoAnswer
  /\ UNCHANGED <<count, current, parsed, chain, node, known, store, crashes, overtaken>>

\* storeWriteTxRequestNonce, when an action was parsed
WriteNonce ==
  /\ NoMoreActions
  /\ \/ /\ parsed = 0
        /\ Idle
        /\ UNCHANGED index
     \/ /\ parsed > 0
        /\ index' = current
        /\ pc' = "offset"
        /\ UNCHANGED <<count, current, pos, base, last, body, parsed>>
  /\ UNCHANGED <<events, offset, chain, node, known, crashes, overtaken>>

\* storeWriteContractLogsOffset: the position after the last action that was
\* parsed, in the history the answer came from
WriteOffset ==
  /\ pc = "offset"
  /\ offset' = pos - base
  /\ Idle
  /\ UNCHANGED <<events, index, chain, node, known, crashes, overtaken>>

\* A call to the node fails, or the engine stops between two writes and Boot reads
\* the status of the network.
Crash ==
  /\ crashes < MaxCrashes
  /\ crashes' = crashes + 1
  /\ Idle
  /\ known' \in {known, Least(final, head)}
  /\ UNCHANGED <<chain, node, store, overtaken>>

Next ==
  \/ TxRequest
  \/ BlockBecomesIrreversible
  \/ \E k \in 0 .. MaxLogs : Fork(k)
  \/ NodeReceives
  \/ \E f \in 0 .. MaxLogs : RestoreSnapshot(f)
  \/ CheckNetworkStatus
  \/ PullContractEvents
  \/ FetchActions
  \/ AdjustOffset
  \/ StoreEvent
  \/ MismatchFound
  \/ WriteNonce
  \/ WriteOffset
  \/ Crash

Spec == Init /\ [][Next]_vars

\* Blocks become irreversible, the node follows the chain, and both loops of the
\* engine run for ever.
Fairness ==
  /\ WF_vars(BlockBecomesIrreversible)
  /\ WF_vars(NodeReceives)
  /\ WF_vars(CheckNetworkStatus)
  /\ WF_vars(PullContractEvents \/ FetchActions \/ AdjustOffset \/ StoreEvent
               \/ MismatchFound \/ WriteNonce \/ WriteOffset)

FairSpec == Spec /\ Fairness

-----------------------------------------------------------------------------
\* Types of all the variables.
TypeOK ==
  /\ logs \in [Ids -> Bodies]
  /\ size \in 0 .. MaxLogs
  /\ final \in 0 .. size
  /\ forks \in 0 .. MaxForks
  /\ first \in 0 .. final
  /\ head \in first .. size
  /\ snapshots \in 0 .. MaxSnapshots
  /\ known \in 0 .. final
  /\ events \in [Ids -> Bodies]
  /\ index \in 0 .. MaxLogs
  /\ offset \in Nat
  /\ pc \in {"idle", "fetch", "adjust", "parse", "offset"}
  /\ count \in 0 .. MaxLogs
  /\ current \in 0 .. MaxLogs
  /\ pos \in Nat
  /\ base \in 0 .. pos
  /\ last \in 0 .. MaxLogs
  /\ body \in [Ids -> Bodies]
  /\ parsed \in Nat
  /\ crashes \in 0 .. MaxCrashes
  /\ overtaken \subseteq Ids \X Bodies

\* The number of the next log that parseActions stores never passes a log that is
\* not stored, whatever stop or new history of the node comes between the writes.
NoLogMissed == \A id \in Ids : Start <= id /\ id < index => events[id] # NoBody

\* Every stored payment request is one of the chain for good, unless a fork dropped
\* it between the fetch of the answer and the check of its block number against the
\* last irreversible block, which is read after the fetch and knows numbers only.
StoredIsFinal ==
  \A id \in Ids : events[id] # NoBody =>
    \/ id < final /\ events[id] = logs[id]
    \/ <<id, events[id]>> \in overtaken

\* parseActions never panics in the middle of a list.
NeverMismatchedLater == Mismatch => parsed = 0

\* The history of the node begins after the stored number, where AdjustOffset panics.
NotOverlapped == 0 < index /\ index < first

\* Every payment request from the start sequence on is stored once its block is
\* irreversible (or, in its place, one that was overtaken), although the position of
\* the log in the history is lost by stops and by new histories.  Only a number that
\* was stored with an overtaken log, and that a repeated scan from the start sequence
\* takes back, may leave the engine before a history that begins too late.
EventuallyStored ==
  \A id \in Ids : (Start <= id /\ id < final) ~>
    (events[id] # NoBody \/ (overtaken # {} /\ NotOverlapped))
=============================================================================
