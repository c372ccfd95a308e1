--------------------------- MODULE MachineLedger ---------------------------
(***************************************************************************)
(* The accounts of one process at one member: outputs of the group are     *)
(* credited and become numbered group events, events of the contract are   *)
(* debited and become group transactions.                                  *)
(*                                                                         *)
(*   mvm/machine/machine.go      Loop, AddProcess, WriteGroupEvent         *)
(*   mvm/machine/collectible.go  WriteNFOGroupEvent                        *)
(*   mvm/machine/receiver.go     ProcessOutput, ProcessCollectibleOutput   *)
(*   mvm/machine/process.go      loopReceiveEvents, buildGroupTransaction  *)
(*   mvm/store/account.go, process.go, event.go                            *)
(*                                                                         *)
(* Each store call is a transaction of its own, and the process may stop   *)
(* between any two of them, so every store call is a step.  The outputs    *)
(* come from the mtg library (external): it calls the worker with one      *)
(* output at a time, in order within a stream (fungible outputs,           *)
(* collectibles), and calls again with an output whose call did not return *)
(* before a crash.                                                         *)
(***************************************************************************)
EXTENDS Naturals, Sequences, FiniteSetsExt

CONSTANTS
  Assets,
  Streams,       \* queues of outputs of the mtg library
  Outputs,       \* Outputs[s]: sequence of [asset, amount, kind]
  Events,        \* events of the contract, a sequence of [asset, amount, mine]
  ListLimit,     \* limit of ReceiveGroupEvents, 100 in the code
  None

\* outputs are named by stream and position, out.UTXOID or out.OutputId
OutputIds == UNION {{<<s, i>> : i \in 1 .. Len(Outputs[s])} : s \in Streams}

Output(o) == Outputs[o[1]][o[2]]

\* nonces of group events, and of contract events
Nonces == 0 .. Cardinality(OutputIds)
EventNonces == 0 .. (Len(Events) - 1)

EventAt(k) == Events[k + 1]

Snapshot == [asset : Assets, amount : Nat]

\* the credit of an output, or the debit of an event
BuildAccountSnapshot(e) == [asset |-> e.asset, amount |-> e.amount]

\* "add" is a paid AddProcess operation of the process, "event" a group event
\* for it, "other" any other memo
OutputType == [asset : Assets, amount : Nat \ {0}, kind : {"add", "event", "other"}]
EventType == [asset : Assets, amount : Nat, mine : BOOLEAN]

\* The objects of the process there may be in memory: the one AddProcess makes,
\* and the one Loop reads from the store.  Each is spawned with its own loops.
Objects == {"added", "stored"}

ASSUME OutputsAssumption ==
  /\ IsFiniteSet(Streams)
  /\ Outputs \in [Streams -> Seq(OutputType)]

ASSUME EventsAssumption == Events \in Seq(EventType)

ASSUME LimitAssumption == ListLimit \in Nat \ {0}

ASSUME NoneAssumption ==
  None \notin Snapshot /\ None \notin OutputIds /\ None \notin Nat /\ None \notin Objects

VARIABLES
  \* durable
  handled,      \* outputs of each stream whose call has returned (mtg's store)
  identifiers,  \* MVM:EVENT:PENDING:IDENTIFIER
  eventOutput,  \* the output of the group event written with a nonce
  known,        \* MVM:PROCESS:PAYLOAD has the process ...
  storedNonce,  \* ... with this Nonce
  inc,          \* MVM:ACCOUNT:SNAPSHOT:INC
  dec,          \* MVM:ACCOUNT:SNAPSHOT:DEC
  balance,      \* MVM:ACCOUNT:BALANCE
  offset,       \* MVM:ENGINE:GROUP:EVENTS:OFFSET
  built,        \* traces of the group transactions mtg has stored
  arrived,      \* contract events in the engine's store
  \* volatile
  loop,         \* Loop before ListProcesses, between it and the map, after both
  proc,         \* the object in m.processes
  running,      \* the objects whose loops are spawned
  memNonce,     \* Nonce of each object
  writing,      \* output whose call has made its first change
  held,         \* the object WriteGroupEvent has found
  written,      \* ... and whose event it has stored
  listed,       \* per loop, contract events of its list still to be handled
  step,         \* per loop, how far the first of them has come
  processed,    \* per loop, the map of loopReceiveEvents
  panicked,     \* a panic has stopped the process
  \* history, which the properties refer to
  dropped,      \* outputs handled while the process is stored and not in memory
  refused       \* contract events whose transaction mtg has refused

accounts == <<inc, dec, balance>>
payments == <<offset, built, arrived>>
stores == <<handled, identifiers, eventOutput, known, storedNonce, accounts, payments>>
memory == <<loop, proc, running, memNonce>>
writer == <<writing, held, written>>
receiver == <<listed, step, processed>>
history == <<dropped, refused>>
vars == <<stores, memory, writer, receiver, panicked, history>>

\* The member starts for the first time: the stores are empty.
Init ==
  /\ handled = [s \in Streams |-> 0]
  /\ identifiers = {}
  /\ eventOutput = [k \in Nonces |-> None]
  /\ known = FALSE
  /\ storedNonce = 0
  /\ inc = [k \in Nonces |-> None]
  /\ dec = [k \in EventNonces |-> None]
  /\ balance = [a \in Assets |-> 0]
  /\ offset = 0
  /\ built = {}
  /\ arrived = 0
  /\ loop = "start"
  /\ proc = None
  /\ running = {}
  /\ memNonce = [l \in Objects |-> 0]
  /\ writing = None
  /\ held = None
  /\ written = FALSE
  /\ listed = [l \in Objects |-> {}]
  /\ step = [l \in Objects |-> "idle"]
  /\ processed = [l \in Objects |-> {}]
  /\ panicked = FALSE
  /\ dropped = {}
  /\ refused = {}

-----------------------------------------------------------------------------
(* ProcessOutput and ProcessCollectibleOutput                              *)

\* the output the mtg library calls the worker with, if any is left
Current(s) == <<s, handled[s] + 1>>

\* bootCmd starts Loop in a goroutine and does not wait for it, so outputs are
\* handled whether or not the process is loaded.
Calls(s, kind) ==
  /\ ~ panicked
  /\ writing = None
  /\ handled[s] < Len(Outputs[s])
  /\ Output(Current(s)).kind = kind

\* the output has become a pending event before
CheckPendingGroupEventIdentifier(o) == o \in identifiers

Return(s) == handled' = [handled EXCEPT ![s] = @ + 1]

\* The call returns without effect: the memo is none of the two operations, the
\* process to add is in m.processes, the process of the event is not (yet), or
\* the output was handled before a crash.
IgnoreOutput(s) ==
  /\ \/ Calls(s, "other")
     \/ Calls(s, "add") /\ proc # None
     \/ Calls(s, "event") /\ (proc = None \/ CheckPendingGroupEventIdentifier(Current(s)))
  /\ Return(s)
  /\ dropped' = IF Output(Current(s)).kind = "event" /\ known /\ proc = None
                THEN dropped \cup {Current(s)} ELSE dropped
  /\ UNCHANGED <<identifiers, eventOutput, known, storedNonce, accounts, payments,
                 memory, writer, receiver, panicked, refused>>

\* A record that is stored already is kept, with its nonce.
WriteProcess == known' = TRUE

\* AddProcess looks for the process in m.processes only ...
AddProcess(s) ==
  /\ Calls(s, "add")
  /\ proc = None
  /\ WriteProcess
  /\ writing' = Current(s)
  /\ UNCHANGED <<handled, identifiers, eventOutput, storedNonce, accounts, payments,
                 memory, held, written, receiver, panicked, history>>

Spawn(l) ==
  /\ proc' = l
  /\ running' = running \cup {l}

\* ... then the new object, with nonce zero, is put into the map and spawned.
SpawnAdded ==
  /\ ~ panicked
  /\ writing # None
  /\ Output(writing).kind = "add"
  /\ Spawn("added")
  /\ memNonce' = [memNonce EXCEPT !["added"] = 0]
  /\ Return(writing[1])
  /\ writing' = None
  /\ UNCHANGED <<identifiers, eventOutput, known, storedNonce, accounts, payments,
                 loop, held, written, receiver, panicked, history>>

\* the account is credited again when the output comes a second time
MutantCreditAgain(k, o) ==
  /\ inc' = [inc EXCEPT ![k] = BuildAccountSnapshot(Output(o))]
  /\ balance' = [balance EXCEPT ![Output(o).asset] = @ + Output(o).amount]

\* WriteAccountSnapshot with Credit: nothing if the nonce has its snapshot
CreditAccount(k, o) ==
  IF inc[k] # None
    THEN UNCHANGED <<inc, balance>>
    ELSE /\ inc' = [inc EXCEPT ![k] = BuildAccountSnapshot(Output(o))]
         /\ balance' = [balance EXCEPT ![Output(o).asset] = @ + Output(o).amount]

\* WriteGroupEvent, WriteNFOGroupEvent: credit the account ...
CreditOutput(s) ==
  /\ Calls(s, "event")
  /\ proc # None
  /\ ~ CheckPendingGroupEventIdentifier(Current(s))
  /\ CreditAccount(memNonce[proc], Current(s))
  /\ writing' = Current(s)
  /\ held' = proc
  /\ UNCHANGED <<handled, identifiers, eventOutput, known, storedNonce, dec, payments,
                 memory, written, receiver, panicked, history>>

\* the identifier of the output is not stored with the event
MutantForgetIdentifier ==
  /\ ~ panicked
  /\ held # None
  /\ ~ written
  /\ eventOutput' = [eventOutput EXCEPT ![storedNonce] = writing]
  /\ storedNonce' = storedNonce + 1
  /\ written' = TRUE
  /\ UNCHANGED <<handled, identifiers, known, accounts, payments, memory, writing, held,
                 receiver, panicked, history>>

\* the nonce of the event is not compared with the stored one
MutantAnyNonce ==
  /\ ~ panicked
  /\ held # None
  /\ ~ written
  /\ identifiers' = identifiers \cup {writing}
  /\ eventOutput' = [eventOutput EXCEPT ![memNonce[held]] = writing]
  /\ storedNonce' = memNonce[held] + 1
  /\ written' = TRUE
  /\ UNCHANGED <<handled, known, accounts, payments, memory, writing, held, receiver,
                 panicked, history>>

\* ... then WritePendingGroupEventAndNonce, which panics if the identifier is
\* known or the nonce is not the next one ...
WritePending ==
  /\ ~ panicked
  /\ held # None
  /\ ~ written
  /\ IF CheckPendingGroupEventIdentifier(writing) \/ storedNonce # memNonce[held]
       THEN /\ panicked' = TRUE
            /\ UNCHANGED <<identifiers, eventOutput, storedNonce, written>>
       ELSE /\ identifiers' = identifiers \cup {writing}
            /\ eventOutput' = [eventOutput EXCEPT ![storedNonce] = writing]
            /\ storedNonce' = storedNonce + 1
            /\ written' = TRUE
            /\ UNCHANGED panicked
  /\ UNCHANGED <<handled, known, accounts, payments, memory, writing, held, receiver,
                 history>>

\* ... then the nonce in memory, and the call returns.
FinishOutput ==
  /\ ~ panicked
  /\ written
  /\ memNonce' = [memNonce EXCEPT ![held] = @ + 1]
  /\ Return(writing[1])
  /\ writing' = None
  /\ held' = None
  /\ written' = FALSE
  /\ UNCHANGED <<identifiers, eventOutput, known, storedNonce, accounts, payments,
                 loop, proc, running, receiver, panicked, history>>

-----------------------------------------------------------------------------
(* loopReceiveEvents of the object l                                       *)

\* the engine stores one more event of the contract (external)
EventArrives ==
  /\ arrived < Len(Events)
  /\ arrived' = arrived + 1
  /\ UNCHANGED <<handled, identifiers, eventOutput, known, storedNonce, accounts,
                 offset, built, memory, writer, receiver, panicked, history>>

First(l) == Min(listed[l])

\* the nonce of the last payment that was made, zero before the first
ReadEngineGroupEventsOffset == offset

\* storeListContractEvents from an offset on, the event at the offset too
ListContractEvents(o) == {k \in EventNonces : o <= k /\ k < arrived /\ k < o + ListLimit}

ListEvents(l) ==
  /\ ~ panicked
  /\ l \in running
  /\ listed[l] = {}
  /\ listed' = [listed EXCEPT ![l] = ListContractEvents(ReadEngineGroupEventsOffset)]
  /\ UNCHANGED <<stores, memory, writer, step, processed, panicked, history>>

\* events that are not processed are skipped
Skipped(l, k) == ~ EventAt(k).mine \/ k \in processed[l] \/ EventAt(k).amount = 0

\* the loop is done with the first event of its list
Handled(l) == listed' = [listed EXCEPT ![l] = @ \ {First(l)}]

Step(l, from, to) ==
  /\ ~ panicked
  /\ listed[l] # {}
  /\ step[l] = from
  /\ step' = [step EXCEPT ![l] = to]

SkipEvent(l) ==
  /\ Step(l, "idle", "idle")
  /\ Skipped(l, First(l))
  /\ Handled(l)
  /\ UNCHANGED <<stores, memory, writer, processed, panicked, history>>

\* an event that takes the whole balance is not paid
MutantMoreThanEnough(k) == dec[k] # None \/ balance[EventAt(k).asset] > EventAt(k).amount

\* CheckAccountSnapshot
Enough(k) == dec[k] # None \/ balance[EventAt(k).asset] >= EventAt(k).amount

\* Enough, so the event counts as processed.
CheckEvent(l) ==
  /\ Step(l, "idle", "checked")
  /\ ~ Skipped(l, First(l))
  /\ Enough(First(l))
  /\ processed' = [processed EXCEPT ![l] = @ \cup {First(l)}]
  /\ UNCHANGED <<stores, memory, writer, listed, panicked, history>>

\* an event that is not funded is passed over
MutantPassOver(l) ==
  /\ Step(l, "idle", "idle")
  /\ ~ Skipped(l, First(l))
  /\ ~ Enough(First(l))
  /\ Handled(l)
  /\ UNCHANGED <<stores, memory, writer, processed, panicked, history>>

\* Otherwise the loop sleeps and lists again.
NotEnough(l) ==
  /\ Step(l, "idle", "idle")
  /\ ~ Skipped(l, First(l))
  /\ ~ Enough(First(l))
  /\ listed' = [listed EXCEPT ![l] = {}]
  /\ UNCHANGED <<stores, memory, writer, processed, panicked, history>>

\* WriteAccountSnapshot without Credit: nothing if the nonce has its snapshot
DebitAccount(k) ==
  LET e == EventAt(k) IN
  IF dec[k] # None
    THEN UNCHANGED <<dec, balance, panicked>>
  ELSE IF balance[e.asset] < e.amount
    THEN panicked' = TRUE /\ UNCHANGED <<dec, balance>>
  ELSE /\ dec' = [dec EXCEPT ![k] = BuildAccountSnapshot(e)]
       /\ balance' = [balance EXCEPT ![e.asset] = @ - e.amount]
       /\ UNCHANGED panicked

DebitEvent(l) ==
  /\ Step(l, "checked", "debited")
  /\ DebitAccount(First(l))
  /\ UNCHANGED <<handled, identifiers, eventOutput, known, storedNonce, inc, payments,
                 memory, writer, listed, processed, history>>

\* buildGroupTransaction: mtg stores the transaction under its trace, once ...
BuildTransaction(l) ==
  /\ Step(l, "debited", "unsaved")
  /\ built' = built \cup {First(l)}
  /\ UNCHANGED <<handled, identifiers, eventOutput, known, storedNonce, accounts, offset,
                 arrived, memory, writer, listed, processed, panicked, history>>

\* ... or returns an error, and the loop goes on with the next event.
BuildFails(l) ==
  /\ Step(l, "debited", "idle")
  /\ Handled(l)
  /\ refused' = refused \cup {First(l)}
  /\ UNCHANGED <<stores, memory, writer, processed, panicked, dropped>>

\* WriteEngineGroupEventsOffset
WriteOffset(l) ==
  /\ Step(l, "unsaved", "idle")
  /\ offset' = First(l)
  /\ Handled(l)
  /\ UNCHANGED <<handled, identifiers, eventOutput, known, storedNonce, accounts, built,
                 arrived, memory, writer, processed, panicked, history>>

-----------------------------------------------------------------------------
\* The process stops and starts: only the stores survive.
Restart ==
  /\ loop' = "start"
  /\ proc' = None
  /\ running' = {}
  /\ memNonce' = [l \in Objects |-> 0]
  /\ writing' = None
  /\ held' = None
  /\ written' = FALSE
  /\ listed' = [l \in Objects |-> {}]
  /\ step' = [l \in Objects |-> "idle"]
  /\ processed' = [l \in Objects |-> {}]
  /\ panicked' = FALSE
  /\ UNCHANGED <<stores, history>>

\* the nonce in memory starts at zero again
MutantListZero ==
  /\ ~ panicked
  /\ loop = "start"
  /\ loop' = IF known THEN "read" ELSE "done"
  /\ UNCHANGED <<stores, proc, running, memNonce, writer, receiver, panicked, history>>

\* Loop reads the stored processes; group.Run is started beside it ...
ListProcesses ==
  /\ ~ panicked
  /\ loop = "start"
  /\ loop' = IF known THEN "read" ELSE "done"
  /\ memNonce' = IF known THEN [memNonce EXCEPT !["stored"] = storedNonce] ELSE memNonce
  /\ UNCHANGED <<stores, proc, running, writer, receiver, panicked, history>>

\* ... and puts what it has read into the map, without the lock of AddProcess.
SpawnStored ==
  /\ ~ panicked
  /\ loop = "read"
  /\ loop' = "done"
  /\ Spawn("stored")
  /\ UNCHANGED <<stores, memNonce, writer, receiver, panicked, history>>

Receive(l) ==
  \/ ListEvents(l)
  \/ SkipEvent(l)
  \/ CheckEvent(l)
  \/ NotEnough(l)
  \/ DebitEvent(l)
  \/ BuildTransaction(l)
  \/ BuildFails(l)
  \/ WriteOffset(l)

Next ==
  \/ \E s \in Streams : IgnoreOutput(s) \/ AddProcess(s) \/ CreditOutput(s)
  \/ SpawnAdded
  \/ WritePending
  \/ FinishOutput
  \/ EventArrives
  \/ \E l \in Objects : Receive(l)
  \/ Restart
  \/ ListProcesses
  \/ SpawnStored

Spec == Init /\ [][Next]_vars

\* The loops keep running and the store answers; a member that has panicked is
\* started again, and stops for other reasons only finitely often.
Fairness ==
  /\ \A l \in Objects : WF_vars(Receive(l))
  /\ WF_vars(ListProcesses \/ SpawnStored)
  /\ WF_vars(panicked /\ Restart)
  /\ <>[][~ Restart \/ panicked]_vars

FairSpec == Spec /\ Fairness

-----------------------------------------------------------------------------
(* Properties                                                              *)

\* Types of all the variables; balances are never negative.
TypeOK ==
  /\ handled \in [Streams -> Nat]
  /\ identifiers \subseteq OutputIds
  /\ eventOutput \in [Nonces -> OutputIds \cup {None}]
  /\ known \in BOOLEAN
  /\ storedNonce \in Nonces
  /\ inc \in [Nonces -> Snapshot \cup {None}]
  /\ dec \in [EventNonces -> Snapshot \cup {None}]
  /\ balance \in [Assets -> Nat]
  /\ offset \in Nat
  /\ built \subseteq EventNonces
  /\ arrived \in 0 .. Len(Events)
  /\ loop \in {"start", "read", "done"}
  /\ proc \in Objects \cup {None}
  /\ running \subseteq Objects
  /\ memNonce \in [Objects -> Nonces]
  /\ writing \in OutputIds \cup {None}
  /\ held \in Objects \cup {None}
  /\ written \in BOOLEAN
  /\ listed \in [Objects -> SUBSET EventNonces]
  /\ step \in [Objects -> {"idle", "checked", "debited", "unsaved"}]
  /\ processed \in [Objects -> SUBSET EventNonces]
  /\ panicked \in BOOLEAN
  /\ dropped \subseteq OutputIds
  /\ refused \subseteq EventNonces

\* None of the consistency panics is reached, whatever was credited or restarted
\* in between, unless the process was added while Loop had not put the stored
\* ones into the map: then two objects of it count their own nonces.
PanicsOnlyInRace ==
  panicked => "added" \in running /\ (loop # "done" \/ "stored" \in running)

\* what a snapshot counts for asset a
Amount(snapshot, a) ==
  IF snapshot # None /\ snapshot.asset = a THEN snapshot.amount ELSE 0

Total(snapshots, S, a) == SumFunctionOnSet([k \in S |-> Amount(snapshots[k], a)], S)

\* The balance of an asset is what its snapshots credited less what they
\* debited, so no crash or redelivery counts an output or a payment twice.
BalanceBacked ==
  \A a \in Assets :
    balance[a] + Total(dec, EventNonces, a) = Total(inc, Nonces, a)

\* what output o brings of asset a, if it is one of the first n[s] of its stream
Brings(o, n, a) ==
  IF Output(o).kind = "event" /\ Output(o).asset = a /\ o[2] <= n[o[1]]
  THEN Output(o).amount ELSE 0

Received(n, a) == SumFunctionOnSet([o \in OutputIds |-> Brings(o, n, a)], OutputIds)

\* the outputs whose call was made
Called == [s \in Streams |-> handled[s] + 1]

\* No more of an asset is ever credited than the outputs whose call was made
\* hold, so the process cannot send out what the group has not received for it.
CreditsWithinOutputs ==
  \A a \in Assets : Total(inc, Nonces, a) <= Received(Called, a)

\* Each output becomes at most one group event, and the credit stored with the
\* nonce of that event is the one of its output, also when the process stopped
\* between the credit and the event; unless an output came again before Loop
\* had loaded the process, when the next one takes the nonce with its credit.
CreditMatchesOutput ==
  dropped = {} => \A k \in Nonces :
    eventOutput[k] # None =>
      /\ inc[k] = BuildAccountSnapshot(Output(eventOutput[k]))
      /\ \A j \in Nonces : eventOutput[j] = eventOutput[k] => j = k

Payable(k) == EventAt(k).mine /\ EventAt(k).amount > 0

\* The payments that are forgotten: events before the stored offset, from which
\* a restart lists, without a group transaction.
Forgotten == {k \in EventNonces : Payable(k) /\ k < offset /\ k \notin built}

\* A payment is forgotten only if mtg has refused its transaction; no crash
\* between the debit, the transaction and the offset is enough.
ForgottenWasRefused == Forgotten \subseteq refused

\* A group event that follows an AddProcess in its queue has become a pending
\* event when its call has returned, also when a stale object made the member
\* panic, unless Loop had not yet loaded the process.
OutputBecomesEvent ==
  \A o \in OutputIds :
    /\ Output(o).kind = "event"
    /\ o[2] <= handled[o[1]]
    /\ \E i \in 1 .. o[2] : Output(<<o[1], i>>).kind = "add"
    => o \in identifiers \cup dropped

\* A payable event in the window that is listed, which is funded and has no
\* payable event before it that is still to be paid, is paid eventually, unless
\* mtg refuses a transaction.
EventuallyPaid ==
  \A k \in EventNonces :
    (/\ Payable(k)
     /\ known
     /\ k < arrived
     /\ k < offset + ListLimit
     /\ balance[EventAt(k).asset] >= EventAt(k).amount
     /\ \A j \in EventNonces : Payable(j) /\ j < k => j \in built)
      ~> (k \in built \/ refused # {})
=============================================================================
