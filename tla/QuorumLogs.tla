----------------------------- MODULE QuorumLogs -----------------------------
(***************************************************************************)
(* How a member's quorum engine collects the MixinTransaction logs of the  *)
(* contracts: loopGetLogs of mvm/quorum/engine.go with the log tables of   *)
(* mvm/quorum/store.go.                                                    *)
(*                                                                         *)
(* A log is one event; events are numbered in the order the contract emits *)
(* them.  The chain (external) only grows, and answers each call for the   *)
(* block it has reached when the call is made.  What every module has, its *)
(* initial states, steps and types, is named Logs... here, since proofs    *)
(* take this module together with QuorumNotifier.                          *)
(***************************************************************************)
EXTENDS Naturals, Sequences, FiniteSets

CONSTANTS
  Base,            \* conf.Base, the first block that matters
  Window,          \* blocks per GetLogs call, 10 in the code
  MaxHeight,       \* bound on the chain
  MaxEvents,       \* bound on the events
  Refused,         \* nonces of logs parseTransactionLog or DecodeEvent refuses
  Malformed        \* nonces of logs that state a size beyond their data

ASSUME LogsAssumption ==
  /\ Base \in Nat
  /\ Window \in Nat \ {0}
  /\ MaxHeight \in Nat
  /\ MaxEvents \in Nat
  /\ Refused \subseteq Nat
  /\ Malformed \subseteq Nat

VARIABLES
  height,        \* the head of the chain
  block,         \* block[k + 1]: the block of the event with nonce k
  storedOffset,  \* QUORUM:CONTRACT:LOG:OFFSET:ALL, 0 when missing
  events,        \* QUORUM:CONTRACT:EVENT:QUEUE, nonces of the stored events
  scanning,      \* GetLogs has been answered, GetBlockHeight not yet
  answer,        \* nonces of the logs of that answer still to be stored
  mined,         \* blocks mined since that answer
  unread         \* history: blocks mined during a scan that moved the offset,
                 \* and followed by another one before its GetBlockHeight

logsVars == <<height, block, storedOffset, events, scanning, answer, mined, unread>>

EventNonces == {k - 1 : k \in 1 .. Len(block)}

BlockOf(k) == block[k + 1]

\* The chain has reached Base (NewRPC refuses to start before it does).
LogsInit ==
  /\ height = Base
  /\ block = << >>
  /\ storedOffset = 0
  /\ events = {}
  /\ scanning = FALSE
  /\ answer = {}
  /\ mined = 0
  /\ unread = {}

\* the first window starts at the configured base
Offset == IF storedOffset < Base THEN Base ELSE storedOffset

\* A block is mined (external), with the logs of n events, at any time: the store
\* writes and the call between GetLogs and GetBlockHeight take as long as they do.
MineBlock(n) ==
  /\ height < MaxHeight
  /\ Len(block) + n <= MaxEvents
  /\ height' = height + 1
  /\ block' = block \o [i \in 1 .. n |-> height + 1]
  /\ mined' = IF scanning THEN mined + 1 ELSE 0
  /\ UNCHANGED <<storedOffset, events, scanning, answer, unread>>

\* Both ends belong to the window of eth_getLogs.
LogsOfWindow(o) == {k \in EventNonces : o <= BlockOf(k) /\ BlockOf(k) <= o + Window}

\* a log that is refused is left out
ParseTransactionLogs(S) == S \ Refused

\* A slice beyond the data of one log panics, before any log is stored.
ParsePanics(S) == S \cap Malformed # {}

\* windows do not overlap
MutantNextWindow(o) ==
  ParseTransactionLogs({k \in EventNonces : o < BlockOf(k) /\ BlockOf(k) <= o + Window})

\* GetLogs(topic, o, o + Window)
GetLogs(o) == ParseTransactionLogs(LogsOfWindow(o))

\* GetLogs panics: the process stops, and is started again where it was.
ScanPanics ==
  /\ ~ scanning
  /\ ParsePanics(LogsOfWindow(Offset))
  /\ UNCHANGED logsVars

ScanLogs ==
  /\ ~ scanning
  /\ ~ ParsePanics(LogsOfWindow(Offset))
  /\ scanning' = TRUE
  /\ answer' = GetLogs(Offset)
  /\ mined' = 0
  /\ UNCHANGED <<height, block, storedOffset, events, unread>>

\* storeWriteContractEvent, one transaction per log, in the order of the logs;
\* an event that is stored already is kept.
StoreEvent(k) ==
  /\ k \in answer
  /\ \A j \in answer : k <= j
  /\ events' = events \cup {k}
  /\ answer' = answer \ {k}
  /\ UNCHANGED <<height, block, storedOffset, scanning, mined, unread>>

GetBlockHeight == height

WriteContractLogsOffset(o) == storedOffset' = o

\* The offset is written once the chain has reached the end of the window; a
\* failed call leaves it alone.
AdvanceOffset ==
  /\ scanning
  /\ answer = {}
  /\ IF Offset + Window > GetBlockHeight
     THEN UNCHANGED <<storedOffset, unread>>
     ELSE /\ WriteContractLogsOffset(Offset + Window)
          /\ unread' = unread \cup (((height - mined) + 1) .. (height - 1))
  /\ scanning' = FALSE
  /\ mined' = 0
  /\ UNCHANGED <<height, block, events, answer>>

\* an RPC call fails, or the process is restarted: the window is read again
ScanFails ==
  /\ scanning
  /\ scanning' = FALSE
  /\ answer' = {}
  /\ mined' = 0
  /\ UNCHANGED <<height, block, storedOffset, events, unread>>

LogsNext ==
  \/ \E n \in 0 .. MaxEvents : MineBlock(n)
  \/ ScanPanics
  \/ ScanLogs
  \/ \E k \in answer : StoreEvent(k)
  \/ AdvanceOffset
  \/ ScanFails

LogsSpec == LogsInit /\ [][LogsNext]_logsVars

\* The loop keeps running, and is not stopped for ever before the same event.
LogsFairness ==
  /\ WF_logsVars(ScanLogs)
  /\ \A k \in (0 .. (MaxEvents - 1)) \ Refused : SF_logsVars(StoreEvent(k))
  /\ SF_logsVars(AdvanceOffset)

LogsFairSpec == LogsSpec /\ LogsFairness

-----------------------------------------------------------------------------
\* Types of all the variables.
LogsTypeOK ==
  /\ height \in Nat
  /\ block \in Seq(Nat)
  /\ storedOffset \in Nat
  /\ events \subseteq EventNonces
  /\ scanning \in BOOLEAN
  /\ answer \subseteq EventNonces
  /\ mined \in Nat
  /\ unread \subseteq Nat

\* The block of the event went unread.
WentUnread(k) == k \in EventNonces /\ BlockOf(k) \in unread

\* Every event of a block before the stored offset, which is never read again, is
\* in the store, unless its log is refused or its block is one of those no answer
\* could hold: it was mined after the GetLogs of the scan that moved the offset,
\* and was not the last one mined before its GetBlockHeight.  The block at the edge
\* of two windows is read by both, which makes up for one block and for no more.
NoLogMissed ==
  \A k \in EventNonces \ Refused :
    BlockOf(k) < Offset => k \in events \/ WentUnread(k)

\* GetLogs panics at every start: a malformed log is in the window that is read next.
WindowPanics == ParsePanics(LogsOfWindow(Offset))

\* Every event is stored eventually, unless its log is refused, its block went unread
\* as above, or a malformed log in the window of the scan stops it for ever.
EventuallyStored ==
  \A k \in (0 .. (MaxEvents - 1)) \ (Refused \cup Malformed) :
    [](k \in EventNonces =>
         \/ <>(k \in events \/ WentUnread(k))
         \/ <>[]WindowPanics)
=============================================================================
