------------------------ MODULE MachineLedgerProofs ------------------------
(***************************************************************************)
(* Proofs about MachineLedger, for every number of streams, outputs and    *)
(* events, every list limit and any number of restarts.                    *)
(***************************************************************************)
EXTENDS MachineLedger, SumTheorems

-----------------------------------------------------------------------------
(* Constants and helpers *)

\* The minimum of a set of numbers is its least element.
LEMMA MinFact ==
  ASSUME NEW S \in SUBSET Nat, S # {}
  PROVE  Min(S) \in S /\ \A y \in S : Min(S) <= y
<1>1. \E z \in S : \A y \in S : z <= y
  BY LeastNumber
<1> QED BY <1>1 DEF Min

\* An output is known by its stream and its place in it.
LEMMA OutputIdsFact ==
  /\ \A s \in Streams : Len(Outputs[s]) \in Nat
  /\ \A s \in Streams : \A i \in 1 .. Len(Outputs[s]) : <<s, i>> \in OutputIds
  /\ \A o \in OutputIds : /\ o[1] \in Streams
                          /\ o[2] \in 1 .. Len(Outputs[o[1]])
                          /\ o = <<o[1], o[2]>>
                          /\ Output(o) \in OutputType
BY OutputsAssumption DEF OutputIds, Output

\* There are finitely many outputs.
LEMMA FiniteOutputs == IsFiniteSet(OutputIds) /\ Cardinality(OutputIds) \in Nat
<1> DEFINE Of(s) == {<<s, i>> : i \in 1 .. Len(Outputs[s])}
           All == {Of(s) : s \in Streams}
           f == [s \in Streams |-> Of(s)]
<1>1. \A s \in Streams : IsFiniteSet(Of(s))
  <2> TAKE s \in Streams
  <2>1. Of(s) = {s} \X (1 .. Len(Outputs[s]))
    OBVIOUS
  <2>2. Len(Outputs[s]) \in Int
    BY OutputIdsFact
  <2>3. IsFiniteSet(1 .. Len(Outputs[s]))
    BY <2>2, FS_Interval
  <2>4. IsFiniteSet({s})
    BY FS_Singleton
  <2>5. IsFiniteSet({s} \X (1 .. Len(Outputs[s])))
    BY <2>3, <2>4, FS_Product
  <2> QED BY <2>1, <2>5
<1>2. f \in Surjection(Streams, All)
  BY DEF Surjection
<1>3. IsFiniteSet(All)
  <2> HIDE DEF f, All
  <2> QED BY <1>2, OutputsAssumption, FS_Surjection
<1>4. IsFiniteSet(UNION All)
  <2>1. \A T \in All : IsFiniteSet(T)
    BY <1>1
  <2> HIDE DEF All
  <2> QED BY <1>3, <2>1, FS_UNION
<1>5. IsFiniteSet(OutputIds)
  BY <1>4 DEF OutputIds
<1> QED BY <1>5, FS_CardinalityType

\* Nonces are natural numbers, and each contract event has one.
LEMMA NoncesFact ==
  /\ 0 \in Nonces
  /\ Nonces \subseteq Nat
  /\ EventNonces \subseteq Nat
  /\ \A k \in EventNonces : EventAt(k) \in EventType
<1>1. 0 \in Nonces /\ Nonces \subseteq Nat
  BY FiniteOutputs DEF Nonces
<1>2. EventNonces \subseteq Nat /\ \A k \in EventNonces : EventAt(k) \in EventType
  BY EventsAssumption DEF EventNonces, EventAt
<1> QED BY <1>1, <1>2

\* The current output of a stream.
LEMMA CurrentFact ==
  ASSUME TypeOK, NEW s \in Streams, handled[s] < Len(Outputs[s])
  PROVE  /\ Current(s) \in OutputIds
         /\ Current(s)[1] = s
         /\ Current(s)[2] = handled[s] + 1
         /\ Output(Current(s)) \in OutputType
         /\ Current(s) # None
<1>1. handled[s] \in Nat
  BY DEF TypeOK
<1>2. Current(s) \in OutputIds
  BY <1>1, OutputIdsFact DEF Current
<1> QED BY <1>2, OutputIdsFact, NoneAssumption DEF Current

\* The first event of a list.
LEMMA FirstFact ==
  ASSUME TypeOK, NEW l \in Objects, listed[l] # {}
  PROVE  /\ First(l) \in listed[l]
         /\ First(l) \in EventNonces
         /\ First(l) \in Nat
         /\ \A k \in listed[l] : First(l) <= k
<1>1. listed[l] \subseteq EventNonces /\ listed[l] \subseteq Nat
  BY NoncesFact DEF TypeOK
<1> QED BY <1>1, MinFact DEF First

\* The record of a credit or a debit is a snapshot.
LEMMA SnapshotFact ==
  /\ \A o \in OutputIds : BuildAccountSnapshot(Output(o)) \in Snapshot
  /\ \A k \in EventNonces : BuildAccountSnapshot(EventAt(k)) \in Snapshot
<1>1. \A o \in OutputIds : BuildAccountSnapshot(Output(o)) \in Snapshot
  BY OutputIdsFact DEF BuildAccountSnapshot, Snapshot, OutputType
<1>2. \A k \in EventNonces : BuildAccountSnapshot(EventAt(k)) \in Snapshot
  BY NoncesFact DEF BuildAccountSnapshot, Snapshot, EventType
<1> QED BY <1>1, <1>2

-----------------------------------------------------------------------------
(* The inductive invariant *)

\* two objects of the process, or one while Loop may still make the other
Race == "added" \in running /\ (loop # "done" \/ "stored" \in running)

\* 1 between the event and the nonce in memory
Ahead == IF written THEN 1 ELSE 0

\* where the call that is made stands
WriterInv ==
  /\ \A s \in Streams : handled[s] <= Len(Outputs[s])
  /\ writing # None =>
       /\ writing[1] \in Streams
       /\ writing = Current(writing[1])
       /\ handled[writing[1]] < Len(Outputs[writing[1]])
       /\ \/ Output(writing).kind = "add" /\ known /\ held = None /\ "added" \notin running
          \/ Output(writing).kind = "event" /\ held # None
  /\ held # None =>
       /\ writing # None
       /\ held \in running
       /\ written <=> writing \in identifiers
       /\ inc[memNonce[held]] # None
  /\ written => held # None /\ memNonce[held] + 1 = storedNonce

\* the objects in memory
ObjectInv ==
  /\ proc = None => running = {}
  /\ proc # None => proc \in running
  /\ running # {} => known
  /\ "stored" \in running => loop = "done"
  /\ loop = "read" => known
  /\ ~ known => storedNonce = 0
  /\ \A l \in Objects : l \notin running => listed[l] = {}
  /\ \A l \in Objects : step[l] # "idle" => listed[l] # {}

\* what is stored with the nonces
NonceInv ==
  /\ storedNonce = Cardinality(identifiers)
  /\ \A k \in Nonces : eventOutput[k] # None <=> k < storedNonce
  /\ \A k \in Nonces : eventOutput[k] # None => eventOutput[k] \in identifiers
  /\ \A j, k \in Nonces : eventOutput[k] # None /\ eventOutput[j] = eventOutput[k] => j = k
  /\ \A l \in Objects : memNonce[l] <= storedNonce
  /\ \A k \in Nonces : k < storedNonce => inc[k] # None
  /\ \A k \in Nonces : inc[k] # None => k <= storedNonce

\* without the race, an object in memory knows the stored nonce, and what it has
\* checked it can debit
RaceInv ==
  /\ panicked => Race
  /\ ~ Race =>
       /\ (loop = "read" \/ "stored" \in running) => memNonce["stored"] + Ahead = storedNonce
       /\ "added" \in running => memNonce["added"] + Ahead = storedNonce
       /\ loop = "done" /\ running = {} => storedNonce = 0
       /\ \A l \in Objects : step[l] = "checked" => Enough(First(l))

\* the outputs that have returned, after the process was added
ReturnedInv ==
  \A s \in Streams :
    (\E i \in 1 .. handled[s] : Output(<<s, i>>).kind = "add") => known

\* event k is paid, or was refused
Settled(k) == Payable(k) => k \in built \cup refused

\* the list of a loop has no gaps, and what the loop has passed is settled
LoopInv(l) ==
  /\ \A i, j \in listed[l] : \A k \in EventNonces : i <= k /\ k <= j => k \in listed[l]
  /\ listed[l] # {} => \A k \in EventNonces : k < First(l) => Settled(k)
  /\ \A k \in processed[l] : Settled(k) \/ (step[l] # "idle" /\ k = First(l))
  /\ step[l] = "unsaved" => First(l) \in built

PaymentInv == \A l \in Objects : LoopInv(l)

\* with one stream: the credit ahead of the events is that of the current output
SingleStream == \A s, t \in Streams : s = t

\* output o has its credit
Credited(o) == o \in identifiers \/ inc[storedNonce] # None

CreditInv ==
  /\ dropped = {} => \A s \in Streams :
       inc[storedNonce] # None =>
         /\ handled[s] < Len(Outputs[s])
         /\ Output(Current(s)).kind = "event"
         /\ Current(s) \notin identifiers
         /\ inc[storedNonce] = BuildAccountSnapshot(Output(Current(s)))
  /\ \A k \in Nonces : inc[k] # None => known

SumInv ==
  \A a \in Assets :
    \/ Total(inc, Nonces, a) <= Received(handled, a)
    \/ \E s \in Streams :
         /\ handled[s] < Len(Outputs[s])
         /\ Output(Current(s)).kind = "event"
         /\ Credited(Current(s))
         /\ Total(inc, Nonces, a) <= Received(Called, a)

LedgerInv ==
  /\ TypeOK
  /\ WriterInv
  /\ ObjectInv
  /\ NonceInv
  /\ RaceInv
  /\ ReturnedInv
  /\ PaymentInv
  /\ ForgottenWasRefused

-----------------------------------------------------------------------------
(* Types *)

\* A number is left for the next event as long as an output has none.
LEMMA RoomForNonce ==
  ASSUME TypeOK, NonceInv, NEW o \in OutputIds, o \notin identifiers
  PROVE  /\ storedNonce + 1 \in Nonces
         /\ Cardinality(identifiers \cup {o}) = storedNonce + 1
<1>1. identifiers \in SUBSET OutputIds /\ identifiers \cup {o} \in SUBSET OutputIds
  BY DEF TypeOK
<1>2. IsFiniteSet(identifiers)
  BY <1>1, FiniteOutputs, FS_Subset
<1>3. Cardinality(identifiers \cup {o}) = Cardinality(identifiers) + 1
  BY <1>2, FS_AddElement
<1>4. Cardinality(identifiers \cup {o}) <= Cardinality(OutputIds)
  BY <1>1, FiniteOutputs, FS_Subset
<1>5. storedNonce \in Nat
  BY NoncesFact DEF TypeOK
<1> QED BY <1>3, <1>4, <1>5, FiniteOutputs DEF NonceInv, Nonces

\* A credit snapshot keeps the types of the store.
LEMMA CreditType ==
  ASSUME TypeOK, NEW k \in Nonces, NEW o \in OutputIds, CreditAccount(k, o)
  PROVE  inc' \in [Nonces -> Snapshot \cup {None}] /\ balance' \in [Assets -> Nat]
<1>1. CASE UNCHANGED <<inc, balance>>
  BY <1>1 DEF TypeOK
<1>2. CASE /\ inc' = [inc EXCEPT ![k] = BuildAccountSnapshot(Output(o))]
           /\ balance' = [balance EXCEPT ![Output(o).asset] = @ + Output(o).amount]
  <2>1. inc' \in [Nonces -> Snapshot \cup {None}]
    BY <1>2, SnapshotFact DEF TypeOK
  <2>2. Output(o).asset \in Assets /\ Output(o).amount \in Nat
    BY OutputIdsFact DEF OutputType
  <2>3. balance' \in [Assets -> Nat]
    BY <1>2, <2>2 DEF TypeOK
  <2> QED BY <2>1, <2>3
<1> QED BY <1>1, <1>2 DEF CreditAccount

\* A debit snapshot keeps the types of the store: an account that does not cover it
\* panics.
LEMMA DebitType ==
  ASSUME TypeOK, NEW k \in EventNonces, DebitAccount(k)
  PROVE  /\ dec' \in [EventNonces -> Snapshot \cup {None}]
         /\ balance' \in [Assets -> Nat]
         /\ panicked' \in BOOLEAN
<1> DEFINE e == EventAt(k)
<1>0. e.asset \in Assets /\ e.amount \in Nat /\ balance[e.asset] \in Nat
  BY NoncesFact DEF EventType, TypeOK
<1>1. CASE UNCHANGED <<dec, balance>> /\ (panicked' = TRUE \/ panicked' = panicked)
  BY <1>1 DEF TypeOK
<1>2. CASE /\ balance[e.asset] >= e.amount
           /\ dec' = [dec EXCEPT ![k] = BuildAccountSnapshot(e)]
           /\ balance' = [balance EXCEPT ![e.asset] = @ - e.amount]
           /\ UNCHANGED panicked
  <2>1. dec' \in [EventNonces -> Snapshot \cup {None}]
    BY <1>2, SnapshotFact DEF TypeOK
  <2>2. balance' \in [Assets -> Nat]
    BY <1>0, <1>2 DEF TypeOK
  <2>3. panicked' \in BOOLEAN
    BY <1>2 DEF TypeOK
  <2> QED BY <2>1, <2>2, <2>3
<1>3. CASE dec[k] # None
  BY <1>1, <1>3 DEF DebitAccount
<1>4. CASE dec[k] = None /\ balance[e.asset] < e.amount
  BY <1>1, <1>4 DEF DebitAccount
<1>5. CASE dec[k] = None /\ ~ (balance[e.asset] < e.amount)
  BY <1>0, <1>2, <1>5 DEF DebitAccount
<1> QED BY <1>3, <1>4, <1>5

\* The types hold at the start.
LEMMA TypeInit == Init => TypeOK
<1> SUFFICES ASSUME Init PROVE TypeOK
  OBVIOUS
<1> USE NoncesFact DEF Init
<1>1. /\ handled \in [Streams -> Nat]
      /\ identifiers \subseteq OutputIds
      /\ eventOutput \in [Nonces -> OutputIds \cup {None}]
      /\ storedNonce \in Nonces
      /\ inc \in [Nonces -> Snapshot \cup {None}]
      /\ dec \in [EventNonces -> Snapshot \cup {None}]
      /\ balance \in [Assets -> Nat]
      /\ offset \in Nat
      /\ built \subseteq EventNonces
  OBVIOUS
<1>2. arrived \in 0 .. Len(Events)
  BY EventsAssumption
<1>3. /\ loop \in {"start", "read", "done"}
      /\ proc \in Objects \cup {None}
      /\ running \subseteq Objects
      /\ memNonce \in [Objects -> Nonces]
      /\ writing \in OutputIds \cup {None}
      /\ held \in Objects \cup {None}
      /\ listed \in [Objects -> SUBSET EventNonces]
      /\ step \in [Objects -> {"idle", "checked", "debited", "unsaved"}]
      /\ processed \in [Objects -> SUBSET EventNonces]
      /\ dropped \subseteq OutputIds
      /\ refused \subseteq EventNonces
  OBVIOUS
<1>4. known \in BOOLEAN /\ written \in BOOLEAN /\ panicked \in BOOLEAN
  BY Zenon
<1> QED BY <1>1, <1>2, <1>3, <1>4, Zenon DEF TypeOK

\* The output that is being written belongs to a stream.
LEMMA WritingFact ==
  ASSUME TypeOK, WriterInv, writing # None
  PROVE  /\ writing[1] \in Streams
         /\ writing \in OutputIds
         /\ Output(writing) \in OutputType
BY OutputIdsFact DEF WriterInv, TypeOK

\* The steps of loopReceiveEvents keep the types.
LEMMA ReceiveType ==
  ASSUME TypeOK, NEW l \in Objects, Receive(l)
  PROVE  TypeOK'
<1> USE NoncesFact
<1> USE DEF accounts, payments, stores, memory, writer, receiver, history
<1>0. listed[l] # {} => First(l) \in EventNonces
  BY FirstFact
<1>1. CASE ListEvents(l)
  BY <1>1 DEF ListEvents, ListContractEvents, TypeOK
<1>2. CASE SkipEvent(l)
  BY <1>2 DEF SkipEvent, Step, Handled, TypeOK
<1>3. CASE CheckEvent(l)
  BY <1>0, <1>3 DEF CheckEvent, Step, TypeOK
<1>4. CASE NotEnough(l)
  BY <1>4 DEF NotEnough, Step, TypeOK
<1>5. CASE DebitEvent(l)
  <2>1. First(l) \in EventNonces /\ DebitAccount(First(l))
    BY <1>0, <1>5 DEF DebitEvent, Step
  <2>2. /\ dec' \in [EventNonces -> Snapshot \cup {None}]
        /\ balance' \in [Assets -> Nat]
        /\ panicked' \in BOOLEAN
    BY <2>1, DebitType
  <2> QED BY <1>5, <2>2 DEF DebitEvent, Step, TypeOK
<1>6. CASE BuildTransaction(l)
  BY <1>0, <1>6 DEF BuildTransaction, Step, TypeOK
<1>7. CASE BuildFails(l)
  BY <1>0, <1>7 DEF BuildFails, Step, Handled, TypeOK
<1>8. CASE WriteOffset(l)
  BY <1>0, <1>8 DEF WriteOffset, Step, Handled, TypeOK
<1> QED BY <1>1, <1>2, <1>3, <1>4, <1>5, <1>6, <1>7, <1>8 DEF Receive

\* Every step keeps the types.
LEMMA TypeStep ==
  ASSUME TypeOK, WriterInv, NonceInv, [Next]_vars
  PROVE  TypeOK'
<1> USE NoncesFact
<1> USE DEF accounts, payments, stores, memory, writer, receiver, history
<1>1. ASSUME NEW s \in Streams, IgnoreOutput(s) PROVE TypeOK'
  <2>1. handled[s] < Len(Outputs[s])
    BY <1>1 DEF IgnoreOutput, Calls
  <2>2. Current(s) \in OutputIds
    BY <2>1, CurrentFact
  <2> QED BY <1>1, <2>2 DEF IgnoreOutput, Return, TypeOK
<1>2. ASSUME NEW s \in Streams, AddProcess(s) PROVE TypeOK'
  <2>1. Current(s) \in OutputIds
    BY <1>2, CurrentFact DEF AddProcess, Calls
  <2> QED BY <1>2, <2>1 DEF AddProcess, WriteProcess, TypeOK
<1>3. ASSUME NEW s \in Streams, CreditOutput(s) PROVE TypeOK'
  <2>1. Current(s) \in OutputIds
    BY <1>3, CurrentFact DEF CreditOutput, Calls
  <2>2. proc \in Objects /\ memNonce[proc] \in Nonces
    BY <1>3 DEF CreditOutput, TypeOK
  <2>3. inc' \in [Nonces -> Snapshot \cup {None}] /\ balance' \in [Assets -> Nat]
    BY <1>3, <2>1, <2>2, CreditType DEF CreditOutput
  <2> QED BY <1>3, <2>1, <2>2, <2>3 DEF CreditOutput, TypeOK
<1>4. CASE SpawnAdded
  <2>1. writing[1] \in Streams
    BY <1>4, WritingFact DEF SpawnAdded
  <2> QED BY <1>4, <2>1 DEF SpawnAdded, Spawn, Return, Objects, TypeOK
<1>5. CASE WritePending
  <2>1. writing \in OutputIds
    BY <1>5 DEF WritePending, WriterInv, TypeOK
  <2>2. CASE panicked' = TRUE /\ UNCHANGED <<identifiers, eventOutput, storedNonce, written>>
    BY <1>5, <2>2 DEF WritePending, TypeOK
  <2>3. CASE /\ writing \notin identifiers
             /\ identifiers' = identifiers \cup {writing}
             /\ eventOutput' = [eventOutput EXCEPT ![storedNonce] = writing]
             /\ storedNonce' = storedNonce + 1
             /\ written' = TRUE
             /\ UNCHANGED panicked
    <3>1. storedNonce + 1 \in Nonces
      BY <2>1, <2>3, RoomForNonce
    <3> QED BY <1>5, <2>1, <2>3, <3>1 DEF WritePending, TypeOK
  <2> QED BY <1>5, <2>2, <2>3 DEF WritePending, CheckPendingGroupEventIdentifier
<1>6. CASE FinishOutput
  <2>1. writing # None /\ held \in Objects /\ memNonce[held] + 1 \in Nonces
    BY <1>6 DEF FinishOutput, WriterInv, TypeOK
  <2>2. writing[1] \in Streams
    BY <2>1, WritingFact
  <2>3. memNonce' \in [Objects -> Nonces] /\ handled' \in [Streams -> Nat]
    BY <1>6, <2>1, <2>2 DEF FinishOutput, Return, TypeOK
  <2>4. writing' = None /\ held' = None /\ written' = FALSE
    BY <1>6 DEF FinishOutput
  <2> QED BY <1>6, <2>3, <2>4 DEF FinishOutput, TypeOK
<1>7. CASE EventArrives
  BY <1>7, EventsAssumption DEF EventArrives, TypeOK
<1>8. ASSUME NEW l \in Objects, Receive(l) PROVE TypeOK'
  BY <1>8, ReceiveType
<1>9. CASE Restart
  BY <1>9 DEF Restart, TypeOK
<1>10. CASE ListProcesses
  BY <1>10 DEF ListProcesses, Objects, TypeOK
<1>11. CASE SpawnStored
  BY <1>11 DEF SpawnStored, Spawn, Objects, TypeOK
<1>12. CASE UNCHANGED vars
  BY <1>12 DEF vars, TypeOK
<1> QED
  BY <1>1, <1>2, <1>3, <1>4, <1>5, <1>6, <1>7, <1>8, <1>9, <1>10, <1>11, <1>12 DEF Next

-----------------------------------------------------------------------------
(* The writer *)

\* loopReceiveEvents touches neither the writer nor what the writer stores.
LEMMA ReceiveFrame ==
  ASSUME NEW l \in Objects, Receive(l)
  PROVE  UNCHANGED <<handled, identifiers, eventOutput, known, storedNonce, inc, arrived,
                     memory, writer, dropped>>
BY DEF Receive, ListEvents, SkipEvent, CheckEvent, NotEnough, DebitEvent, BuildTransaction,
  BuildFails, WriteOffset, stores, accounts, payments, history

\* Without a call there is nothing held and nothing written.
LEMMA IdleWriter ==
  ASSUME TypeOK, WriterInv, writing = None
  PROVE  held = None /\ written = FALSE
BY DEF WriterInv, TypeOK

\* Every step keeps what is known of the call that is made.
LEMMA WriterStep ==
  ASSUME LedgerInv, [Next]_vars
  PROVE  WriterInv'
<1> USE DEF accounts, payments, stores, memory, writer, receiver, history
<1>0. TypeOK /\ WriterInv /\ ObjectInv /\ NonceInv
  BY DEF LedgerInv
<1>a. ASSUME NEW s \in Streams
      PROVE  handled[s] \in Nat /\ Len(Outputs[s]) \in Nat /\ handled[s] <= Len(Outputs[s])
  BY <1>0, OutputIdsFact DEF TypeOK, WriterInv
<1>1. ASSUME NEW s \in Streams, IgnoreOutput(s) PROVE WriterInv'
  <2>1. writing = None /\ handled[s] < Len(Outputs[s])
    BY <1>1 DEF IgnoreOutput, Calls
  <2>2. writing' = None /\ held' = None /\ written' = FALSE
    BY <1>0, <1>1, <2>1, IdleWriter DEF IgnoreOutput
  <2>3. \A t \in Streams : handled'[t] <= Len(Outputs[t])
    BY <1>0, <1>1, <1>a, <2>1 DEF IgnoreOutput, Return, TypeOK
  <2> QED BY <2>2, <2>3 DEF WriterInv
<1>2. ASSUME NEW s \in Streams, AddProcess(s) PROVE WriterInv'
  <2>1. writing = None /\ handled[s] < Len(Outputs[s]) /\ Output(Current(s)).kind = "add"
    BY <1>2 DEF AddProcess, Calls
  <2>2. held' = None /\ written' = FALSE /\ handled' = handled /\ known' = TRUE /\ running' = {}
    BY <1>0, <1>2, <2>1, IdleWriter DEF AddProcess, WriteProcess, ObjectInv
  <2>3. writing' = Current(s) /\ Current(s)' = Current(s) /\ Current(s)[1] = s
    BY <1>0, <1>2, <2>1, <2>2, CurrentFact DEF AddProcess, Current
  <2> QED BY <1>0, <2>1, <2>2, <2>3 DEF WriterInv
<1>3. ASSUME NEW s \in Streams, CreditOutput(s) PROVE WriterInv'
  <2>1. writing = None /\ handled[s] < Len(Outputs[s]) /\ Output(Current(s)).kind = "event"
    BY <1>3 DEF CreditOutput, Calls
  <2>2. held' = proc /\ proc # None /\ written' = FALSE /\ Current(s) \notin identifiers
          /\ UNCHANGED <<handled, identifiers, known, memNonce, storedNonce, running>>
    BY <1>0, <1>3, <2>1, IdleWriter DEF CreditOutput, CheckPendingGroupEventIdentifier
  <2>3. writing' = Current(s) /\ Current(s)' = Current(s) /\ Current(s)[1] = s /\ Current(s) # None
    BY <1>0, <1>3, <2>1, <2>2, CurrentFact DEF CreditOutput, Current
  <2>4. proc \in running
    BY <1>0, <2>2 DEF ObjectInv
  <2>5. inc'[memNonce[proc]] # None
    <3>1. proc \in Objects /\ memNonce[proc] \in Nonces
      BY <1>0, <2>2 DEF TypeOK
    <3>2. Current(s) \in OutputIds
      BY <1>0, <2>1, CurrentFact
    <3>3. BuildAccountSnapshot(Output(Current(s))) # None
      BY <3>2, SnapshotFact, NoneAssumption
    <3>4. CreditAccount(memNonce[proc], Current(s))
      BY <1>3 DEF CreditOutput
    <3> QED BY <1>0, <3>1, <3>3, <3>4 DEF CreditAccount, TypeOK
  <2> QED BY <1>0, <2>1, <2>2, <2>3, <2>4, <2>5 DEF WriterInv
<1>4. CASE SpawnAdded
  <2>1. writing # None /\ Output(writing).kind = "add"
    BY <1>4 DEF SpawnAdded
  <2>2. held = None /\ writing[1] \in Streams /\ handled[writing[1]] < Len(Outputs[writing[1]])
    BY <1>0, <2>1 DEF WriterInv
  <2>3. writing' = None /\ held' = None /\ written' = FALSE
    BY <1>0, <1>4, <2>2 DEF SpawnAdded, WriterInv, TypeOK
  <2>4. \A t \in Streams : handled'[t] <= Len(Outputs[t])
    BY <1>0, <1>4, <1>a, <2>2 DEF SpawnAdded, Return, TypeOK
  <2> QED BY <2>3, <2>4 DEF WriterInv
<1>5. CASE WritePending
  <2>0. held # None /\ written = FALSE
          /\ UNCHANGED <<handled, known, inc, memNonce, running, writing, held>>
    BY <1>0, <1>5 DEF WritePending, TypeOK
  <2>1. \A t \in Streams : Current(t)' = Current(t)
    BY <2>0 DEF Current
  <2>2. CASE UNCHANGED <<identifiers, storedNonce, written>>
    BY <1>0, <2>0, <2>1, <2>2 DEF WriterInv
  <2>3. CASE /\ storedNonce = memNonce[held]
             /\ identifiers' = identifiers \cup {writing}
             /\ storedNonce' = storedNonce + 1
             /\ written' = TRUE
    BY <1>0, <2>0, <2>1, <2>3 DEF WriterInv
  <2> QED BY <1>5, <2>2, <2>3 DEF WritePending
<1>6. CASE FinishOutput
  <2>1. writing[1] \in Streams /\ handled[writing[1]] < Len(Outputs[writing[1]])
    BY <1>0, <1>6 DEF FinishOutput, WriterInv
  <2>2. writing' = None /\ held' = None /\ written' = FALSE
    BY <1>6 DEF FinishOutput
  <2>3. \A t \in Streams : handled'[t] <= Len(Outputs[t])
    BY <1>0, <1>6, <1>a, <2>1 DEF FinishOutput, Return, TypeOK
  <2> QED BY <2>2, <2>3 DEF WriterInv
<1>7. CASE /\ UNCHANGED <<handled, identifiers, known, storedNonce, inc, memNonce, writer>>
           /\ running' = running \/ running' = running \cup {"stored"}
  <2>1. \A t \in Streams : Current(t)' = Current(t)
    BY <1>7 DEF Current
  <2> QED BY <1>0, <1>7, <2>1 DEF WriterInv
<1>8. CASE Restart
  BY <1>0, <1>8 DEF Restart, WriterInv
<1>9. CASE ListProcesses
  <2>1. held # "stored"
    BY <1>0, <1>9, NoneAssumption DEF ListProcesses, WriterInv, ObjectInv, Objects
  <2>2. held # None => memNonce'[held] = memNonce[held]
    BY <1>0, <1>9, <2>1 DEF ListProcesses, TypeOK
  <2>3. UNCHANGED <<handled, identifiers, known, storedNonce, inc, writer, running>>
    BY <1>9 DEF ListProcesses
  <2>4. \A t \in Streams : Current(t)' = Current(t)
    BY <2>3 DEF Current
  <2> QED BY <1>0, <2>2, <2>3, <2>4 DEF WriterInv
<1>10. ASSUME NEW l \in Objects, Receive(l) PROVE WriterInv'
  BY <1>7, <1>10, ReceiveFrame
<1>11. CASE EventArrives \/ SpawnStored \/ UNCHANGED vars
  BY <1>7, <1>11 DEF EventArrives, SpawnStored, Spawn, vars
<1> QED
  BY <1>1, <1>2, <1>3, <1>4, <1>5, <1>6, <1>8, <1>9, <1>10, <1>11 DEF Next

-----------------------------------------------------------------------------
(* The objects and their loops *)

\* A loop leaves the lists of the other objects alone and never stops within an
\* event whose list it has given up.
LEMMA ReceiveLists ==
  ASSUME TypeOK, ObjectInv, NEW l \in Objects, Receive(l)
  PROVE  \A m \in Objects : /\ m \notin running => listed'[m] = {}
                            /\ step'[m] # "idle" => listed'[m] # {}
<1> USE DEF accounts, payments, stores, memory, writer, receiver, history
<1>0. \A m \in Objects : /\ m \notin running => listed[m] = {}
                         /\ step[m] # "idle" => listed[m] # {}
  BY DEF ObjectInv
<1>1. CASE ListEvents(l)
  BY <1>0, <1>1 DEF ListEvents, TypeOK
<1>2. CASE SkipEvent(l) \/ BuildFails(l) \/ WriteOffset(l)
  <2>1. listed[l] # {} /\ listed' = [listed EXCEPT ![l] = @ \ {First(l)}]
          /\ step' = [step EXCEPT ![l] = "idle"]
    BY <1>2 DEF SkipEvent, BuildFails, WriteOffset, Step, Handled
  <2> QED BY <1>0, <2>1 DEF TypeOK
<1>3. CASE CheckEvent(l) \/ DebitEvent(l) \/ BuildTransaction(l)
  <2>1. listed[l] # {} /\ listed' = listed
          /\ \E x \in {"checked", "debited", "unsaved"} : step' = [step EXCEPT ![l] = x]
    BY <1>3 DEF CheckEvent, DebitEvent, BuildTransaction, Step
  <2> QED BY <1>0, <2>1 DEF TypeOK
<1>4. CASE NotEnough(l)
  <2>1. listed' = [listed EXCEPT ![l] = {}] /\ step' = [step EXCEPT ![l] = "idle"]
    BY <1>4 DEF NotEnough, Step
  <2> QED BY <1>0, <2>1 DEF TypeOK
<1> QED BY <1>1, <1>2, <1>3, <1>4 DEF Receive

\* Every step keeps what is known of the objects in memory.
LEMMA ObjectStep ==
  ASSUME LedgerInv, [Next]_vars
  PROVE  ObjectInv'
<1> USE DEF accounts, payments, stores, memory, writer, receiver, history
<1>0. TypeOK /\ WriterInv /\ ObjectInv
  BY DEF LedgerInv
<1>1. CASE UNCHANGED <<memory, known, storedNonce, listed, step>>
  BY <1>0, <1>1 DEF ObjectInv
<1>2. ASSUME NEW s \in Streams, IgnoreOutput(s) \/ CreditOutput(s) PROVE ObjectInv'
  BY <1>1, <1>2 DEF IgnoreOutput, CreditOutput
<1>3. ASSUME NEW s \in Streams, AddProcess(s) PROVE ObjectInv'
  <2>1. known' = TRUE /\ UNCHANGED <<memory, storedNonce, listed, step>>
    BY <1>3 DEF AddProcess, WriteProcess
  <2> QED BY <1>0, <2>1 DEF ObjectInv
<1>4. CASE SpawnAdded
  <2>1. known
    BY <1>0, <1>4 DEF SpawnAdded, WriterInv
  <2>2. proc' = "added" /\ running' = running \cup {"added"}
          /\ UNCHANGED <<loop, known, storedNonce, listed, step>>
    BY <1>4 DEF SpawnAdded, Spawn
  <2>3. "added" # None
    BY NoneAssumption DEF Objects
  <2> QED BY <1>0, <2>1, <2>2, <2>3 DEF ObjectInv
<1>5. CASE WritePending
  <2>1. UNCHANGED <<memory, known, listed, step>>
    BY <1>5 DEF WritePending
  <2>2. known
    BY <1>0, <1>5 DEF WritePending, WriterInv, ObjectInv
  <2> QED BY <1>0, <2>1, <2>2 DEF ObjectInv
<1>6. CASE FinishOutput
  <2>1. UNCHANGED <<loop, proc, running, known, storedNonce, listed, step>>
    BY <1>6 DEF FinishOutput
  <2> QED BY <1>0, <2>1 DEF ObjectInv
<1>7. ASSUME NEW l \in Objects, Receive(l) PROVE ObjectInv'
  BY <1>0, <1>7, ReceiveFrame, ReceiveLists DEF ObjectInv
<1>8. CASE Restart
  <2>1. /\ loop' = "start" /\ proc' = None /\ running' = {}
        /\ UNCHANGED <<known, storedNonce>>
        /\ listed' = [l \in Objects |-> {}]
        /\ step' = [l \in Objects |-> "idle"]
    BY <1>8 DEF Restart
  <2> QED BY <1>0, <2>1 DEF ObjectInv
<1>9. CASE ListProcesses
  <2>1. /\ loop = "start" /\ loop' = IF known THEN "read" ELSE "done"
        /\ UNCHANGED <<proc, running, known, storedNonce, listed, step>>
    BY <1>9 DEF ListProcesses
  <2> QED BY <1>0, <2>1 DEF ObjectInv
<1>10. CASE SpawnStored
  <2>1. /\ loop = "read" /\ loop' = "done" /\ proc' = "stored"
        /\ running' = running \cup {"stored"}
        /\ UNCHANGED <<known, storedNonce, listed, step>>
    BY <1>10 DEF SpawnStored, Spawn
  <2>2. "stored" # None
    BY NoneAssumption DEF Objects
  <2> QED BY <1>0, <2>1, <2>2 DEF ObjectInv
<1>11. CASE EventArrives \/ UNCHANGED vars
  BY <1>1, <1>11 DEF EventArrives, vars
<1> QED
  BY <1>2, <1>3, <1>4, <1>5, <1>6, <1>7, <1>8, <1>9, <1>10, <1>11 DEF Next

-----------------------------------------------------------------------------
(* The nonces *)

\* Every step keeps what is stored with the nonces.
LEMMA NonceStep ==
  ASSUME LedgerInv, [Next]_vars
  PROVE  NonceInv'
<1> USE NoncesFact
<1> USE DEF accounts, payments, stores, memory, writer, receiver, history
<1>0. TypeOK /\ WriterInv /\ ObjectInv /\ NonceInv
  BY DEF LedgerInv
<1>a. storedNonce \in Nat /\ \A l \in Objects : memNonce[l] \in Nat
  BY <1>0 DEF TypeOK
<1>1. CASE UNCHANGED <<storedNonce, identifiers, eventOutput, inc, memNonce>>
  BY <1>0, <1>1 DEF NonceInv
<1>2. CASE /\ UNCHANGED <<storedNonce, identifiers, eventOutput, inc>>
           /\ \A l \in Objects : memNonce'[l] <= storedNonce
  BY <1>0, <1>2 DEF NonceInv
<1>3. ASSUME NEW s \in Streams, IgnoreOutput(s) \/ AddProcess(s) PROVE NonceInv'
  BY <1>1, <1>3 DEF IgnoreOutput, AddProcess
<1>4. ASSUME NEW s \in Streams, CreditOutput(s) PROVE NonceInv'
  <2>1. UNCHANGED <<storedNonce, identifiers, eventOutput, memNonce>>
    BY <1>4 DEF CreditOutput
  <2>2. proc \in Objects /\ CreditAccount(memNonce[proc], Current(s))
    BY <1>0, <1>4 DEF CreditOutput, TypeOK
  <2>3. memNonce[proc] \in Nonces /\ memNonce[proc] <= storedNonce
    BY <1>0, <2>2 DEF NonceInv, TypeOK
  <2>4. Current(s) \in OutputIds
    BY <1>0, <1>4, CurrentFact DEF CreditOutput, Calls
  <2>5. BuildAccountSnapshot(Output(Current(s))) # None
    BY <2>4, SnapshotFact, NoneAssumption
  <2>6. \A k \in Nonces : inc[k] # None => inc'[k] # None
    BY <1>0, <2>2, <2>3, <2>5 DEF CreditAccount, TypeOK
  <2>7. \A k \in Nonces : inc'[k] # None => inc[k] # None \/ k = memNonce[proc]
    BY <1>0, <2>2, <2>3, <2>5 DEF CreditAccount, TypeOK
  <2> QED BY <1>0, <2>1, <2>3, <2>6, <2>7 DEF NonceInv
<1>5. CASE SpawnAdded
  <2>1. memNonce' = [memNonce EXCEPT !["added"] = 0]
    BY <1>5 DEF SpawnAdded
  <2>2. \A l \in Objects : memNonce'[l] <= storedNonce
    BY <1>0, <1>a, <2>1 DEF NonceInv, TypeOK
  <2> QED BY <1>2, <1>5, <2>2 DEF SpawnAdded
<1>6. CASE WritePending
  <2>1. CASE UNCHANGED <<identifiers, eventOutput, storedNonce>>
    BY <1>1, <1>6, <2>1 DEF WritePending
  <2>2. CASE /\ writing \notin identifiers
             /\ storedNonce = memNonce[held]
             /\ identifiers' = identifiers \cup {writing}
             /\ eventOutput' = [eventOutput EXCEPT ![storedNonce] = writing]
             /\ storedNonce' = storedNonce + 1
    <3>1. UNCHANGED <<inc, memNonce>> /\ inc[storedNonce] # None
      BY <1>0, <1>6, <2>2 DEF WritePending, WriterInv
    <3>2. writing \in OutputIds /\ writing # None
      BY <1>0, <1>6 DEF WritePending, WriterInv, TypeOK
    <3>3. storedNonce + 1 \in Nonces /\ Cardinality(identifiers \cup {writing}) = storedNonce + 1
      BY <1>0, <2>2, <3>2, RoomForNonce
    <3>4. \A k \in Nonces : eventOutput'[k] = IF k = storedNonce THEN writing ELSE eventOutput[k]
      BY <1>0, <2>2 DEF TypeOK
    <3>5. \A k \in Nonces : eventOutput'[k] # None <=> k < storedNonce'
      <4> TAKE k \in Nonces
      <4>1. k \in Nat /\ (eventOutput[k] # None <=> k < storedNonce)
        BY <1>0 DEF NonceInv
      <4>2. CASE k = storedNonce
        BY <1>a, <2>2, <3>2, <3>4, <4>2
      <4>3. CASE k # storedNonce
        <5>1. eventOutput'[k] = eventOutput[k]
          BY <3>4, <4>3
        <5>2. k < storedNonce' <=> k < storedNonce
          BY <1>a, <2>2, <4>1, <4>3
        <5> QED BY <4>1, <5>1, <5>2, Zenon
      <4> QED BY <4>2, <4>3
    <3>6. \A k \in Nonces : eventOutput'[k] # None => eventOutput'[k] \in identifiers'
      BY <1>0, <2>2, <3>2, <3>4 DEF NonceInv
    <3>7. \A j, k \in Nonces : eventOutput'[k] # None /\ eventOutput'[j] = eventOutput'[k] => j = k
      BY <1>0, <2>2, <3>2, <3>4 DEF NonceInv
    <3>8. /\ \A l \in Objects : memNonce'[l] <= storedNonce'
          /\ \A k \in Nonces : k < storedNonce' => inc'[k] # None
          /\ \A k \in Nonces : inc'[k] # None => k <= storedNonce'
      BY <1>0, <1>a, <2>2, <3>1 DEF NonceInv
    <3>9. storedNonce' = Cardinality(identifiers')
      BY <2>2, <3>3
    <3> QED BY <3>5, <3>6, <3>7, <3>8, <3>9 DEF NonceInv
  <2> QED BY <1>6, <2>1, <2>2 DEF WritePending, CheckPendingGroupEventIdentifier
<1>7. CASE FinishOutput
  <2>1. memNonce' = [memNonce EXCEPT ![held] = @ + 1] /\ memNonce[held] + 1 = storedNonce
          /\ held \in Objects
    BY <1>0, <1>7 DEF FinishOutput, WriterInv, TypeOK
  <2>2. \A l \in Objects : memNonce'[l] <= storedNonce
    BY <1>0, <1>a, <2>1 DEF NonceInv, TypeOK
  <2> QED BY <1>2, <1>7, <2>2 DEF FinishOutput
<1>8. ASSUME NEW l \in Objects, Receive(l) PROVE NonceInv'
  BY <1>1, <1>8, ReceiveFrame
<1>9. CASE Restart
  <2>1. \A l \in Objects : memNonce'[l] <= storedNonce
    BY <1>a, <1>9 DEF Restart
  <2> QED BY <1>2, <1>9, <2>1 DEF Restart
<1>10. CASE ListProcesses
  <2>1. \A l \in Objects : memNonce'[l] <= storedNonce
    BY <1>0, <1>a, <1>10 DEF ListProcesses, NonceInv, TypeOK
  <2> QED BY <1>2, <1>10, <2>1 DEF ListProcesses
<1>11. CASE SpawnStored \/ EventArrives \/ UNCHANGED vars
  BY <1>1, <1>11 DEF SpawnStored, EventArrives, vars
<1> QED
  BY <1>3, <1>4, <1>5, <1>6, <1>7, <1>8, <1>9, <1>10, <1>11 DEF Next

-----------------------------------------------------------------------------
(* Two objects *)

\* Once there is a race it lasts until the process stops.
LEMMA RaceStays ==
  ASSUME LedgerInv, [Next]_vars, ~ Restart, Race
  PROVE  Race'
<1> USE DEF accounts, payments, stores, memory, writer, receiver, history
<1>0. ObjectInv /\ known
  BY DEF LedgerInv, ObjectInv, Race
<1>1. CASE ListProcesses
  <2>1. loop' = "read" /\ running' = running
    BY <1>0, <1>1 DEF ListProcesses
  <2> QED BY <2>1 DEF Race
<1>2. CASE SpawnStored
  BY <1>2 DEF SpawnStored, Spawn, Race
<1>3. CASE SpawnAdded
  BY <1>3 DEF SpawnAdded, Spawn, Race
<1>4. CASE UNCHANGED <<loop, running>>
  BY <1>4 DEF Race
<1>5. ASSUME NEW l \in Objects, Receive(l) PROVE UNCHANGED <<loop, running>>
  BY <1>5, ReceiveFrame
<1>6. ListProcesses \/ SpawnStored \/ SpawnAdded \/ (\E l \in Objects : Receive(l))
        \/ UNCHANGED <<loop, running>>
  BY DEF Next, vars, IgnoreOutput, AddProcess, CreditOutput, WritePending, FinishOutput,
    EventArrives
<1> QED BY <1>1, <1>2, <1>3, <1>4, <1>5, <1>6

\* Without the race there is one object at most.
LEMMA OneObject ==
  ASSUME TypeOK, ~ Race, NEW l \in running, NEW m \in running
  PROVE  l = m
BY DEF TypeOK, Race, Objects

\* What the nonces of the objects are.
NonceKnown ==
  /\ (loop = "read" \/ "stored" \in running) => memNonce["stored"] + Ahead = storedNonce
  /\ "added" \in running => memNonce["added"] + Ahead = storedNonce
  /\ loop = "done" /\ running = {} => storedNonce = 0

\* Every step keeps what an object in memory knows of the stored nonce outside the
\* race.
LEMMA NonceKnownStep ==
  ASSUME LedgerInv, [Next]_vars, ~ Race, ~ Race'
  PROVE  NonceKnown'
<1> USE NoncesFact
<1> USE DEF accounts, payments, stores, memory, writer, receiver, history
<1>0. TypeOK /\ WriterInv /\ ObjectInv /\ NonceKnown /\ ~ panicked
  BY DEF LedgerInv, RaceInv, NonceKnown
<1>a. storedNonce \in Nat /\ \A l \in Objects : memNonce[l] \in Nat
  BY <1>0 DEF TypeOK
<1>1. CASE UNCHANGED <<memory, storedNonce, written>>
  BY <1>0, <1>1 DEF NonceKnown, Ahead
<1>2. ASSUME NEW s \in Streams, IgnoreOutput(s) \/ AddProcess(s) \/ CreditOutput(s)
      PROVE  NonceKnown'
  BY <1>1, <1>2 DEF IgnoreOutput, AddProcess, CreditOutput
<1>3. CASE SpawnAdded
  <2>1. /\ running' = running \cup {"added"} /\ UNCHANGED <<loop, storedNonce, written>>
        /\ memNonce' = [memNonce EXCEPT !["added"] = 0]
    BY <1>3 DEF SpawnAdded, Spawn
  <2>2. loop = "done" /\ "stored" \notin running
    BY <2>1 DEF Race
  <2>3. held = None /\ written = FALSE
    BY <1>0, <1>3 DEF SpawnAdded, WriterInv, TypeOK
  <2>4. storedNonce = 0
    <3>1. running = {}
      BY <1>0, <1>3, <2>2 DEF SpawnAdded, WriterInv, TypeOK, Objects
    <3> QED BY <1>0, <2>2, <3>1 DEF NonceKnown
  <2> QED BY <1>0, <2>1, <2>2, <2>3, <2>4 DEF NonceKnown, Ahead, Objects, TypeOK
<1>4. CASE WritePending
  <2>0. UNCHANGED memory /\ held \in Objects /\ held \in running /\ written = FALSE
    BY <1>0, <1>4 DEF WritePending, WriterInv, TypeOK
  <2>1. CASE UNCHANGED <<storedNonce, written>>
    BY <1>1, <2>0, <2>1
  <2>2. CASE storedNonce' = storedNonce + 1 /\ written' = TRUE
    BY <1>0, <1>a, <2>0, <2>2 DEF NonceKnown, Ahead, Objects
  <2> QED BY <1>4, <2>1, <2>2 DEF WritePending
<1>5. CASE FinishOutput
  <2>1. written = TRUE /\ written' = FALSE /\ held \in running /\ UNCHANGED <<loop, running, storedNonce>>
          /\ memNonce' = [memNonce EXCEPT ![held] = @ + 1]
    BY <1>0, <1>5 DEF FinishOutput, WriterInv, TypeOK
  <2>2. \A l \in running : l = held
    BY <1>0, <2>1, OneObject
  <2>3. loop = "read" => "stored" \notin running
    BY <1>0 DEF ObjectInv
  <2>4. loop # "read"
    BY <2>1, <2>2, <2>3, <1>0 DEF Race, TypeOK, Objects
  <2> QED BY <1>0, <1>a, <2>1, <2>2, <2>4 DEF NonceKnown, Ahead, Objects, TypeOK
<1>6. ASSUME NEW l \in Objects, Receive(l) PROVE NonceKnown'
  BY <1>1, <1>6, ReceiveFrame
<1>7. CASE Restart
  <2>1. loop' = "start" /\ running' = {}
    BY <1>7 DEF Restart
  <2> QED BY <2>1 DEF NonceKnown
<1>8. CASE ListProcesses
  <2>1. loop = "start" /\ UNCHANGED <<running, storedNonce, written>>
    BY <1>8 DEF ListProcesses
  <2>2. running = {}
    BY <1>0, <2>1 DEF Race, ObjectInv, TypeOK, Objects
  <2>3. written = FALSE
    BY <1>0, <2>2 DEF WriterInv, TypeOK
  <2>4. CASE known
    <3>1. loop' = "read" /\ memNonce'["stored"] = storedNonce
      BY <1>0, <1>8, <2>4 DEF ListProcesses, TypeOK, Objects
    <3> QED BY <1>a, <2>1, <2>2, <2>3, <3>1 DEF NonceKnown, Ahead
  <2>5. CASE ~ known
    <3>1. loop' = "done" /\ storedNonce = 0
      BY <1>0, <1>8, <2>5 DEF ListProcesses, ObjectInv
    <3> QED BY <2>1, <2>2, <3>1 DEF NonceKnown
  <2> QED BY <2>4, <2>5
<1>9. CASE SpawnStored
  <2>1. /\ loop = "read" /\ loop' = "done" /\ running' = running \cup {"stored"}
        /\ UNCHANGED <<memNonce, storedNonce, written>>
    BY <1>9 DEF SpawnStored, Spawn
  <2>2. "added" \notin running
    BY <2>1 DEF Race
  <2> QED BY <1>0, <2>1, <2>2 DEF NonceKnown, Ahead
<1>10. CASE EventArrives \/ UNCHANGED vars
  BY <1>1, <1>10 DEF EventArrives, vars
<1> QED
  BY <1>2, <1>3, <1>4, <1>5, <1>6, <1>7, <1>8, <1>9, <1>10 DEF Next

\* What a loop has checked stays payable while no other loop runs.
LEMMA CheckedStep ==
  ASSUME LedgerInv, [Next]_vars, ~ Race, ~ Race', NEW l \in Objects, step'[l] = "checked"
  PROVE  Enough(First(l))'
<1> USE DEF accounts, payments, stores, memory, writer, receiver, history
<1>0. TypeOK /\ WriterInv /\ ObjectInv /\ ~ panicked /\ (step[l] = "checked" => Enough(First(l)))
  BY DEF LedgerInv, RaceInv
<1>a. \A a \in Assets : balance[a] \in Nat
  BY <1>0 DEF TypeOK
<1>1. CASE UNCHANGED <<listed, step, dec>> /\ \A a \in Assets : balance[a] <= balance'[a] /\ balance'[a] \in Nat
  <2>1. step[l] = "checked" /\ listed[l] # {} /\ First(l)' = First(l)
    BY <1>0, <1>1 DEF ObjectInv, First
  <2>2. First(l) \in EventNonces
    BY <1>0, <2>1, FirstFact
  <2>3. EventAt(First(l)).asset \in Assets /\ EventAt(First(l)).amount \in Nat
    BY <2>2, NoncesFact DEF EventType
  <2> DEFINE k == First(l)
  <2>4. Enough(k) /\ dec'[k] = dec[k] /\ First(l)' = k
    BY <1>0, <1>1, <2>1
  <2> HIDE DEF k
  <2>5. dec'[k] # None \/ balance'[EventAt(k).asset] >= EventAt(k).amount
    BY <1>1, <1>a, <2>3, <2>4 DEF Enough, k
  <2> QED BY <2>4, <2>5 DEF Enough
<1>2. CASE UNCHANGED <<listed, step, dec, balance>>
  BY <1>1, <1>2, <1>a
<1>3. ASSUME NEW s \in Streams, IgnoreOutput(s) \/ AddProcess(s) PROVE Enough(First(l))'
  BY <1>2, <1>3 DEF IgnoreOutput, AddProcess
<1>4. ASSUME NEW s \in Streams, CreditOutput(s) PROVE Enough(First(l))'
  <2>1. Current(s) \in OutputIds
    BY <1>0, <1>4, CurrentFact DEF CreditOutput, Calls
  <2>2. Output(Current(s)).asset \in Assets /\ Output(Current(s)).amount \in Nat
    BY <2>1, OutputIdsFact DEF OutputType
  <2>3. \/ balance' = balance
        \/ balance' = [balance EXCEPT ![Output(Current(s)).asset] = @ + Output(Current(s)).amount]
    BY <1>4 DEF CreditOutput, CreditAccount
  <2>4. \A a \in Assets : balance[a] <= balance'[a] /\ balance'[a] \in Nat
    <3> DEFINE x == Output(Current(s)).asset
               v == Output(Current(s)).amount
    <3>1. x \in Assets /\ v \in Nat /\ balance \in [Assets -> Nat]
      BY <1>0, <2>2 DEF TypeOK
    <3>2. balance' = balance \/ balance' = [balance EXCEPT ![x] = @ + v]
      BY <2>3
    <3> HIDE DEF x, v
    <3> QED BY <3>1, <3>2
  <2> QED BY <1>1, <1>4, <2>4 DEF CreditOutput
<1>5. ASSUME NEW m \in Objects, Receive(m) PROVE Enough(First(l))'
  <2>0. loop' = loop /\ running' = running
    BY <1>5, ReceiveFrame
  <2>1. CASE m = l
    <3>1. CheckEvent(l)
      BY <1>0, <1>5, <2>1 DEF Receive, ListEvents, SkipEvent, CheckEvent, NotEnough, DebitEvent,
        BuildTransaction, BuildFails, WriteOffset, Step, TypeOK, ObjectInv
    <3>2. Enough(First(l)) /\ UNCHANGED <<listed, dec, balance>>
      BY <3>1 DEF CheckEvent
    <3> QED BY <3>2 DEF Enough, First
  <2>2. CASE m # l
    <3>1. step'[l] = step[l]
      BY <1>0, <1>5, <2>2 DEF Receive, ListEvents, SkipEvent, CheckEvent, NotEnough, DebitEvent,
        BuildTransaction, BuildFails, WriteOffset, Step, TypeOK
    <3>2. l \in running
      BY <1>0, <3>1 DEF ObjectInv
    <3>3. m \in running
      BY <1>0, <1>5 DEF Receive, ListEvents, SkipEvent, CheckEvent, NotEnough, DebitEvent,
        BuildTransaction, BuildFails, WriteOffset, Step, ObjectInv
    <3> QED BY <1>0, <2>2, <3>2, <3>3, OneObject
  <2> QED BY <2>1, <2>2
<1>6. CASE Restart
  BY <1>6 DEF Restart
<1>7. CASE SpawnAdded \/ WritePending \/ FinishOutput \/ EventArrives \/ ListProcesses \/ SpawnStored
             \/ UNCHANGED vars
  BY <1>2, <1>7 DEF SpawnAdded, WritePending, FinishOutput, EventArrives, ListProcesses,
    SpawnStored, vars
<1> QED BY <1>3, <1>4, <1>5, <1>6, <1>7 DEF Next

\* A panic shows that there are two objects.
LEMMA PanicStep ==
  ASSUME LedgerInv, [Next]_vars, ~ Race
  PROVE  ~ panicked'
<1> USE DEF accounts, payments, stores, memory, writer, receiver, history
<1>0. TypeOK /\ WriterInv /\ ObjectInv /\ ~ panicked /\ NonceKnown
  BY DEF LedgerInv, RaceInv, NonceKnown
<1>1. CASE WritePending
  <2>1. held \in running /\ held \in Objects /\ written = FALSE /\ writing \notin identifiers
    BY <1>0, <1>1 DEF WritePending, WriterInv, TypeOK
  <2>2. memNonce[held] = storedNonce
    <3>1. memNonce[held] \in Nat /\ held \in {"added", "stored"}
      BY <1>0, <2>1, NoncesFact DEF TypeOK, Objects
    <3> QED BY <1>0, <2>1, <3>1 DEF NonceKnown, Ahead
  <2> QED BY <1>0, <1>1, <2>1, <2>2 DEF WritePending, CheckPendingGroupEventIdentifier
<1>2. ASSUME NEW l \in Objects, DebitEvent(l) PROVE ~ panicked'
  <2>1. step[l] = "checked" /\ listed[l] # {} /\ DebitAccount(First(l))
    BY <1>2 DEF DebitEvent, Step
  <2>2. Enough(First(l))
    BY <2>1 DEF LedgerInv, RaceInv
  <2>3. First(l) \in EventNonces
    BY <1>0, <2>1, FirstFact
  <2>4. EventAt(First(l)).amount \in Nat /\ balance[EventAt(First(l)).asset] \in Nat
    BY <1>0, <2>3, NoncesFact DEF EventType, TypeOK
  <2> QED BY <1>0, <2>1, <2>2, <2>4 DEF Enough, DebitAccount
<1>3. CASE Restart
  BY <1>3 DEF Restart
<1>4. CASE UNCHANGED panicked
  BY <1>0, <1>4
<1>5. WritePending \/ (\E l \in Objects : DebitEvent(l)) \/ Restart \/ UNCHANGED panicked
  BY DEF Next, vars, Receive, IgnoreOutput, AddProcess, CreditOutput, SpawnAdded, FinishOutput,
    EventArrives, ListProcesses, SpawnStored, ListEvents, SkipEvent, CheckEvent, NotEnough,
    BuildTransaction, BuildFails, WriteOffset
<1> QED BY <1>1, <1>2, <1>3, <1>4, <1>5

\* Every step keeps the panics and stale nonces inside the race.
LEMMA RaceStep ==
  ASSUME LedgerInv, [Next]_vars
  PROVE  RaceInv'
<1>1. CASE Race
  <2>1. CASE Restart
    BY <2>1, NoncesFact DEF Restart, RaceInv, Race
  <2>2. CASE ~ Restart
    BY <1>1, <2>2, RaceStays DEF RaceInv
  <2> QED BY <2>1, <2>2
<1>2. CASE ~ Race
  <2>1. ~ panicked'
    BY <1>2, PanicStep
  <2>2. ~ Race' => NonceKnown'
    BY <1>2, NonceKnownStep
  <2>3. ~ Race' => \A l \in Objects : step'[l] = "checked" => Enough(First(l))'
    BY <1>2, CheckedStep
  <2> QED BY <2>1, <2>2, <2>3 DEF RaceInv, NonceKnown
<1> QED BY <1>1, <1>2

-----------------------------------------------------------------------------
(* Outputs that have returned *)

\* An output is among those that have returned when it was, or is the current one.
LEMMA ReturnFact ==
  ASSUME TypeOK, NEW s \in Streams, Return(s)
  PROVE  /\ handled'[s] = handled[s] + 1
         /\ \A t \in Streams : t # s => handled'[t] = handled[t]
         /\ \A t \in Streams : handled[t] \in Nat
BY DEF Return, TypeOK

\* Every step keeps the process stored once its registration has returned.
LEMMA ReturnedStep ==
  ASSUME LedgerInv, [Next]_vars
  PROVE  ReturnedInv'
<1> USE DEF accounts, payments, stores, memory, writer, receiver, history
<1>0. TypeOK /\ WriterInv /\ ObjectInv /\ ReturnedInv
  BY DEF LedgerInv
<1>1. CASE handled' = handled /\ (known => known')
  BY <1>0, <1>1 DEF ReturnedInv
<1>2. ASSUME NEW s \in Streams, Return(s), known => known',
             Output(Current(s)).kind = "add" => known
      PROVE  ReturnedInv'
  <2> SUFFICES ASSUME NEW t \in Streams, NEW i \in 1 .. handled'[t], Output(<<t, i>>).kind = "add"
               PROVE  known'
    BY DEF ReturnedInv
  <2>1. i \in 1 .. handled[t] \/ (t = s /\ i = handled[s] + 1)
    BY <1>0, <1>2, ReturnFact
  <2>2. CASE i \in 1 .. handled[t]
    BY <1>0, <1>2, <2>2 DEF ReturnedInv
  <2>3. CASE t = s /\ i = handled[s] + 1
    BY <1>2, <2>3 DEF Current
  <2> QED BY <2>1, <2>2, <2>3
<1>3. ASSUME NEW s \in Streams, IgnoreOutput(s) PROVE ReturnedInv'
  <2>1. Output(Current(s)).kind = "add" => known
    BY <1>0, <1>3 DEF IgnoreOutput, Calls, ObjectInv
  <2> QED BY <1>2, <1>3, <2>1 DEF IgnoreOutput
<1>4. CASE SpawnAdded
  <2>1. writing[1] \in Streams /\ known
    BY <1>0, <1>4 DEF SpawnAdded, WriterInv
  <2> QED BY <1>2, <1>4, <2>1 DEF SpawnAdded
<1>5. CASE FinishOutput
  <2>1. writing[1] \in Streams /\ known
    BY <1>0, <1>5 DEF FinishOutput, WriterInv, ObjectInv
  <2> QED BY <1>2, <1>5, <2>1 DEF FinishOutput
<1>6. ASSUME NEW l \in Objects, Receive(l) PROVE ReturnedInv'
  BY <1>1, <1>6, ReceiveFrame
<1>7. ASSUME NEW s \in Streams, AddProcess(s) \/ CreditOutput(s) PROVE ReturnedInv'
  BY <1>1, <1>7 DEF AddProcess, WriteProcess, CreditOutput
<1>8. CASE WritePending \/ EventArrives \/ Restart \/ ListProcesses \/ SpawnStored \/ UNCHANGED vars
  BY <1>1, <1>8 DEF WritePending, EventArrives, Restart, ListProcesses, SpawnStored, vars
<1> QED BY <1>3, <1>4, <1>5, <1>6, <1>7, <1>8 DEF Next

\* Every call that returns with a group event of a stored process leaves its event
\* or its trace among the dropped ones.
LEMMA OutputStep ==
  ASSUME LedgerInv, OutputBecomesEvent, [Next]_vars
  PROVE  OutputBecomesEvent'
<1> USE DEF accounts, payments, stores, memory, writer, receiver, history
<1>0. TypeOK /\ WriterInv /\ ObjectInv /\ ReturnedInv
  BY DEF LedgerInv
<1>1. CASE handled' = handled /\ identifiers \subseteq identifiers' /\ dropped \subseteq dropped'
  BY <1>1 DEF OutputBecomesEvent
<1>2. ASSUME NEW s \in Streams, Return(s), identifiers \subseteq identifiers', dropped \subseteq dropped',
             handled[s] < Len(Outputs[s]),
             Output(Current(s)).kind = "event" /\ known => Current(s) \in identifiers' \cup dropped'
      PROVE  OutputBecomesEvent'
  <2> SUFFICES ASSUME NEW o \in OutputIds, Output(o).kind = "event", o[2] <= handled'[o[1]],
                      NEW i \in 1 .. o[2], Output(<<o[1], i>>).kind = "add"
               PROVE  o \in identifiers' \cup dropped'
    BY DEF OutputBecomesEvent
  <2>1. o[1] \in Streams /\ o[2] \in Nat /\ o = <<o[1], o[2]>>
    BY OutputIdsFact
  <2>2. o[2] <= handled[o[1]] \/ (o[1] = s /\ o[2] = handled[s] + 1)
    BY <1>0, <1>2, <2>1, ReturnFact
  <2>3. CASE o[2] <= handled[o[1]]
    BY <1>2, <2>3 DEF OutputBecomesEvent
  <2>4. CASE o[1] = s /\ o[2] = handled[s] + 1
    <3>1. o = Current(s)
      BY <2>1, <2>4 DEF Current
    <3>2. i # o[2]
      BY <2>1
    <3>3. i \in 1 .. handled[s]
      BY <1>0, <2>1, <2>4, <3>2 DEF TypeOK
    <3>4. known
      BY <1>0, <2>4, <3>3 DEF ReturnedInv
    <3> QED BY <1>2, <3>1, <3>4
  <2> QED BY <2>2, <2>3, <2>4
<1>3. ASSUME NEW s \in Streams, IgnoreOutput(s) PROVE OutputBecomesEvent'
  <2>1. Output(Current(s)).kind = "event" /\ known => Current(s) \in identifiers' \cup dropped'
    BY <1>3 DEF IgnoreOutput, Calls, CheckPendingGroupEventIdentifier
  <2>2. Return(s) /\ identifiers' = identifiers /\ dropped \subseteq dropped' /\ handled[s] < Len(Outputs[s])
    BY <1>3 DEF IgnoreOutput, Calls
  <2> QED BY <1>2, <2>1, <2>2
<1>4. CASE SpawnAdded \/ FinishOutput
  <2>1. /\ writing[1] \in Streams /\ Current(writing[1]) = writing
        /\ handled[writing[1]] < Len(Outputs[writing[1]])
        /\ Output(writing).kind = "add" \/ writing \in identifiers
    BY <1>0, <1>4 DEF SpawnAdded, FinishOutput, WriterInv
  <2>2. Return(writing[1]) /\ UNCHANGED <<identifiers, dropped>>
    BY <1>4 DEF SpawnAdded, FinishOutput
  <2> QED BY <1>2, <2>1, <2>2
<1>6. ASSUME NEW l \in Objects, Receive(l) PROVE OutputBecomesEvent'
  BY <1>1, <1>6, ReceiveFrame
<1>7. ASSUME NEW s \in Streams, AddProcess(s) \/ CreditOutput(s) PROVE OutputBecomesEvent'
  BY <1>1, <1>7 DEF AddProcess, CreditOutput
<1>8. CASE WritePending \/ EventArrives \/ Restart \/ ListProcesses \/ SpawnStored \/ UNCHANGED vars
  <2>1. handled' = handled /\ identifiers \subseteq identifiers' /\ dropped' = dropped
    BY <1>8 DEF WritePending, EventArrives, Restart, ListProcesses, SpawnStored, vars
  <2> QED BY <1>1, <2>1
<1> QED BY <1>3, <1>4, <1>6, <1>7, <1>8 DEF Next

-----------------------------------------------------------------------------
(* Payments *)

\* What is settled stays settled.
LEMMA SettledStays ==
  ASSUME built \subseteq built', refused \subseteq refused', NEW k, Settled(k)
  PROVE  Settled(k)'
BY DEF Settled, Payable, EventAt

\* A loop that does not move keeps its invariant.
LEMMA LoopSame ==
  ASSUME built \subseteq built', refused \subseteq refused', NEW l \in Objects, LoopInv(l),
         listed'[l] = listed[l], step'[l] = step[l], processed'[l] = processed[l]
  PROVE  LoopInv(l)'
<1>1. First(l)' = First(l)
  BY DEF First
<1> QED BY <1>1, SettledStays DEF LoopInv

\* A loop may go on with the next event once the first is settled.
LEMMA LoopAdvance ==
  ASSUME TypeOK, TypeOK', built \subseteq built', refused \subseteq refused',
         NEW l \in Objects, LoopInv(l), listed[l] # {},
         Payable(First(l)) => First(l) \in built' \cup refused', Handled(l), step'[l] = "idle", processed' = processed
  PROVE  LoopInv(l)'
<1> DEFINE f == First(l)
           T == listed[l] \ {f}
<1>1. f \in listed[l] /\ f \in Nat /\ \A k \in listed[l] : f <= k
  BY FirstFact
<1>2. listed'[l] = T
  BY DEF Handled, TypeOK
<1>3. \A i, j \in T : \A k \in EventNonces : i <= k /\ k <= j => k \in T
  <2> SUFFICES ASSUME NEW i \in T, NEW j \in T, NEW k \in EventNonces, i <= k, k <= j
               PROVE  k \in T
    OBVIOUS
  <2>1. k \in listed[l]
    BY DEF LoopInv
  <2>2. i \in Nat /\ k \in Nat /\ f <= i /\ i # f
    BY <1>1, NoncesFact DEF TypeOK
  <2>3. k # f
    BY <1>1, <2>2
  <2> QED BY <2>1, <2>3
<1>4. T # {} => \A k \in EventNonces : k < Min(T) => Settled(k)'
  <2> SUFFICES ASSUME T # {}, NEW k \in EventNonces, k < Min(T)
               PROVE  Settled(k)'
    OBVIOUS
  <2>1. T \subseteq Nat /\ k \in Nat
    BY NoncesFact DEF TypeOK
  <2>2. Min(T) \in T /\ Min(T) \in Nat
    BY <2>1, MinFact
  <2>3. \A y \in T : Min(T) <= y
    BY <2>1, MinFact
  <2>4. CASE k < f
    <3>1. Settled(k)
      BY <2>4 DEF LoopInv
    <3> QED BY <3>1, SettledStays
  <2>5. CASE k = f
    BY <2>5, Zenon DEF Settled, Payable, EventAt
  <2>6. CASE k > f
    <3>1. k \in listed[l]
      BY <1>1, <2>1, <2>2, <2>6 DEF LoopInv
    <3>2. k \in T
      BY <1>1, <2>1, <2>6, <3>1
    <3> QED BY <2>1, <2>2, <2>3, <3>2
  <2> QED BY <1>1, <2>1, <2>4, <2>5, <2>6
<1>5. \A k \in processed'[l] : Settled(k)'
  <2> SUFFICES ASSUME NEW k \in processed[l] PROVE Settled(k)'
    OBVIOUS
  <2>1. Settled(k) \/ k = f
    BY DEF LoopInv
  <2>2. CASE k = f
    BY <2>2, Zenon DEF Settled, Payable, EventAt
  <2> QED BY <2>1, <2>2, SettledStays
<1>6. First(l)' = Min(T)
  BY <1>2 DEF First
<1> HIDE DEF T, f
<1> QED BY <1>2, <1>3, <1>4, <1>5, <1>6 DEF LoopInv

\* A new list starts at the stored offset, before which all is settled.
LEMMA LoopList ==
  ASSUME TypeOK, TypeOK', ObjectInv, ForgottenWasRefused, NEW l \in Objects, LoopInv(l), ListEvents(l)
  PROVE  LoopInv(l)'
<1> USE DEF stores, history, payments, memory, writer
<1> DEFINE L == ListContractEvents(offset)
<1>1. /\ listed'[l] = L /\ UNCHANGED <<step, processed, built, refused>>
      /\ listed[l] = {}
  BY DEF ListEvents, ReadEngineGroupEventsOffset, TypeOK
<1>2. step[l] = "idle"
  BY <1>1 DEF ObjectInv
<1>3. offset \in Nat /\ arrived \in Nat /\ ListLimit \in Nat /\ EventNonces \subseteq Nat
  BY EventsAssumption, LimitAssumption, NoncesFact DEF TypeOK
<1>4. \A i, j \in L : \A k \in EventNonces : i <= k /\ k <= j => k \in L
  BY <1>3 DEF ListContractEvents
<1>5. L # {} => \A k \in EventNonces : k < Min(L) => Settled(k)
  <2> SUFFICES ASSUME L # {}, NEW k \in EventNonces, k < Min(L)
               PROVE  Settled(k)
    OBVIOUS
  <2>1. PICK j \in L : TRUE
    OBVIOUS
  <2>2. offset \in EventNonces
    BY <1>3, <2>1, EventsAssumption DEF ListContractEvents, EventNonces
  <2>3. offset \in L
    BY <1>3, <2>1, <2>2, LimitAssumption DEF ListContractEvents
  <2>4. L \subseteq Nat
    BY <1>3 DEF ListContractEvents
  <2> HIDE DEF L
  <2>5. Min(L) \in Nat /\ Min(L) <= offset
    BY <2>3, <2>4, MinFact
  <2>6. k < offset
    BY <1>3, <2>5
  <2> QED BY <2>6 DEF ForgottenWasRefused, Forgotten, Settled
<1>6. First(l)' = Min(L)
  BY <1>1 DEF First
<1>7. \A k : Settled(k)' <=> Settled(k)
  BY <1>1 DEF Settled, Payable, EventAt
<1> HIDE DEF L
<1> QED BY <1>1, <1>2, <1>4, <1>5, <1>6, <1>7 DEF LoopInv

\* Every step of a loop keeps what it has passed settled.
LEMMA LoopStep ==
  ASSUME TypeOK, TypeOK', ObjectInv, ForgottenWasRefused, NEW l \in Objects, LoopInv(l), Receive(l)
  PROVE  LoopInv(l)'
<1> USE DEF accounts, payments, stores, memory, writer, receiver, history
<1>0. listed[l] # {} => First(l) \in EventNonces /\ EventAt(First(l)).amount \in Nat
  BY FirstFact, NoncesFact DEF EventType
<1>1. CASE ListEvents(l)
  BY <1>1, LoopList
<1>2. CASE SkipEvent(l)
  <2>1. /\ listed[l] # {} /\ step[l] = "idle" /\ step'[l] = "idle" /\ Handled(l)
        /\ UNCHANGED <<built, refused, processed>> /\ Skipped(l, First(l))
    BY <1>2 DEF SkipEvent, Step, TypeOK
  <2>2. Settled(First(l))
    BY <1>0, <2>1 DEF Skipped, LoopInv, Settled, Payable
  <2>3. Payable(First(l)) => First(l) \in built' \cup refused'
    BY <2>1, <2>2 DEF Settled
  <2> QED BY <2>1, <2>3, LoopAdvance
<1>3. CASE CheckEvent(l)
  <2>1. /\ step[l] = "idle" /\ step'[l] = "checked" /\ UNCHANGED <<built, refused, listed>>
        /\ processed'[l] = processed[l] \cup {First(l)}
    BY <1>3 DEF CheckEvent, Step, TypeOK
  <2>2. First(l)' = First(l) /\ \A k : Settled(k)' <=> Settled(k)
    BY <2>1 DEF First, Settled, Payable, EventAt
  <2> QED BY <2>1, <2>2 DEF LoopInv
<1>4. CASE NotEnough(l)
  <2>1. /\ step[l] = "idle" /\ step'[l] = "idle" /\ UNCHANGED <<built, refused, processed>>
        /\ listed'[l] = {}
    BY <1>4 DEF NotEnough, Step, TypeOK
  <2>2. \A k : Settled(k)' <=> Settled(k)
    BY <2>1 DEF Settled, Payable, EventAt
  <2> QED BY <2>1, <2>2 DEF LoopInv
<1>5. CASE DebitEvent(l)
  <2>1. step'[l] = "debited" /\ UNCHANGED <<built, refused, listed, processed>>
    BY <1>5 DEF DebitEvent, Step, TypeOK
  <2>2. First(l)' = First(l) /\ \A k : Settled(k)' <=> Settled(k)
    BY <2>1 DEF First, Settled, Payable, EventAt
  <2> QED BY <2>1, <2>2 DEF LoopInv
<1>6. CASE BuildTransaction(l)
  <2>1. /\ step'[l] = "unsaved" /\ UNCHANGED <<refused, listed, processed>>
        /\ built' = built \cup {First(l)}
    BY <1>6 DEF BuildTransaction, Step, TypeOK
  <2>2. First(l)' = First(l) /\ \A k : Settled(k) => Settled(k)'
    BY <2>1 DEF First, Settled, Payable, EventAt
  <2>3. \A k \in processed[l] : Settled(k) \/ k = First(l)
    BY DEF LoopInv
  <2> QED BY <2>1, <2>2, <2>3 DEF LoopInv
<1>7. CASE BuildFails(l)
  <2>1. /\ listed[l] # {} /\ step'[l] = "idle" /\ Handled(l)
        /\ UNCHANGED <<built, processed>> /\ refused' = refused \cup {First(l)}
    BY <1>7 DEF BuildFails, Step, TypeOK
  <2> QED BY <2>1, LoopAdvance
<1>8. CASE WriteOffset(l)
  <2>1. /\ listed[l] # {} /\ step[l] = "unsaved" /\ step'[l] = "idle" /\ Handled(l)
        /\ UNCHANGED <<built, refused, processed>>
    BY <1>8 DEF WriteOffset, Step, TypeOK
  <2>2. First(l) \in built
    BY <2>1 DEF LoopInv
  <2> QED BY <2>1, <2>2, LoopAdvance
<1> QED BY <1>1, <1>2, <1>3, <1>4, <1>5, <1>6, <1>7, <1>8 DEF Receive

\* Every step keeps what all loops have passed settled.
LEMMA PaymentStep ==
  ASSUME LedgerInv, TypeOK', [Next]_vars
  PROVE  PaymentInv'
<1> USE DEF accounts, payments, stores, memory, writer, receiver, history
<1>0. TypeOK /\ ObjectInv /\ PaymentInv /\ ForgottenWasRefused
  BY DEF LedgerInv
<1>1. CASE UNCHANGED <<listed, step, processed, built, refused>>
  BY <1>0, <1>1, LoopSame DEF PaymentInv
<1>2. ASSUME NEW l \in Objects, Receive(l) PROVE PaymentInv'
  <2> SUFFICES ASSUME NEW m \in Objects PROVE LoopInv(m)'
    BY DEF PaymentInv
  <2>1. CASE m = l
    BY <1>0, <1>2, <2>1, LoopStep DEF PaymentInv
  <2>2. CASE m # l
    <3>1. built \subseteq built' /\ refused \subseteq refused'
      BY <1>2 DEF Receive, ListEvents, SkipEvent, CheckEvent, NotEnough, DebitEvent,
        BuildTransaction, BuildFails, WriteOffset
    <3>2. listed'[m] = listed[m]
      BY <1>0, <1>2, <2>2 DEF Receive, ListEvents, SkipEvent, CheckEvent, NotEnough, DebitEvent,
        BuildTransaction, BuildFails, WriteOffset, Handled, TypeOK
    <3>3. step'[m] = step[m]
      BY <1>0, <1>2, <2>2 DEF Receive, ListEvents, SkipEvent, CheckEvent, NotEnough, DebitEvent,
        BuildTransaction, BuildFails, WriteOffset, Step, TypeOK
    <3>4. processed'[m] = processed[m]
      BY <1>0, <1>2, <2>2 DEF Receive, ListEvents, SkipEvent, CheckEvent, NotEnough, DebitEvent,
        BuildTransaction, BuildFails, WriteOffset, TypeOK
    <3> QED BY <1>0, <3>1, <3>2, <3>3, <3>4, LoopSame DEF PaymentInv
  <2> QED BY <2>1, <2>2
<1>3. CASE Restart
  BY <1>3 DEF Restart, PaymentInv, LoopInv
<1>4. ASSUME NEW s \in Streams, IgnoreOutput(s) \/ AddProcess(s) \/ CreditOutput(s)
      PROVE  PaymentInv'
  BY <1>1, <1>4 DEF IgnoreOutput, AddProcess, CreditOutput
<1>5. CASE SpawnAdded \/ WritePending \/ FinishOutput \/ EventArrives \/ ListProcesses \/ SpawnStored
             \/ UNCHANGED vars
  BY <1>1, <1>5 DEF SpawnAdded, WritePending, FinishOutput, EventArrives, ListProcesses,
    SpawnStored, vars
<1> QED BY <1>2, <1>3, <1>4, <1>5 DEF Next

\* Every step keeps the offset behind the payments that are not settled.
LEMMA ForgottenStep ==
  ASSUME LedgerInv, [Next]_vars
  PROVE  ForgottenWasRefused'
<1> USE DEF accounts, payments, stores, memory, writer, receiver, history
<1>0. TypeOK /\ PaymentInv /\ ForgottenWasRefused
  BY DEF LedgerInv
<1>1. CASE offset' = offset /\ built \subseteq built' /\ refused \subseteq refused'
  BY <1>0, <1>1 DEF ForgottenWasRefused, Forgotten, Payable, EventAt
<1>2. ASSUME NEW l \in Objects, WriteOffset(l) PROVE ForgottenWasRefused'
  <2>1. listed[l] # {} /\ offset' = First(l) /\ UNCHANGED <<built, refused>>
    BY <1>2 DEF WriteOffset, Step
  <2>2. \A k \in EventNonces : k < First(l) => Settled(k)
    BY <1>0, <2>1 DEF PaymentInv, LoopInv
  <2> QED BY <2>1, <2>2 DEF ForgottenWasRefused, Forgotten, Settled, Payable, EventAt
<1>3. \/ \E l \in Objects : WriteOffset(l)
      \/ offset' = offset /\ built \subseteq built' /\ refused \subseteq refused'
  BY DEF Next, vars, Receive, IgnoreOutput, AddProcess, CreditOutput, SpawnAdded, WritePending,
    FinishOutput, EventArrives, Restart, ListProcesses, SpawnStored, ListEvents, SkipEvent,
    CheckEvent, NotEnough, DebitEvent, BuildTransaction, BuildFails
<1> QED BY <1>1, <1>2, <1>3

-----------------------------------------------------------------------------
(* Balances *)

\* The sets the totals run over are finite.
LEMMA FiniteNonces == IsFiniteSet(Nonces) /\ IsFiniteSet(EventNonces)
<1>1. Cardinality(OutputIds) \in Int /\ Len(Events) - 1 \in Int
  BY FiniteOutputs, EventsAssumption
<1>2. IsFiniteSet(0 .. Cardinality(OutputIds)) /\ IsFiniteSet(0 .. (Len(Events) - 1))
  BY <1>1, FS_Interval
<1> QED BY <1>2 DEF Nonces, EventNonces

\* No snapshot counts nothing, a snapshot counts for its asset.
LEMMA AmountFact ==
  ASSUME NEW x \in Snapshot \cup {None}, NEW a
  PROVE  /\ Amount(x, a) \in Nat
         /\ x = None => Amount(x, a) = 0
         /\ x # None => Amount(x, a) = IF x.asset = a THEN x.amount ELSE 0
BY DEF Amount, Snapshot

\* A total of snapshots is a natural number.
LEMMA TotalNat ==
  ASSUME NEW S, IsFiniteSet(S), NEW f \in [S -> Snapshot \cup {None}], NEW a
  PROVE  Total(f, S, a) \in Nat
<1> DEFINE F == [k \in S |-> Amount(f[k], a)]
<1>1. \A k \in S : F[k] \in Nat
  BY AmountFact
<1> HIDE DEF F
<1>2. SumFunctionOnSet(F, S) \in Nat
  BY <1>1, SumNat
<1> QED BY <1>2 DEF Total, F

\* One snapshot more adds its amount.
LEMMA TotalChange ==
  ASSUME NEW S, IsFiniteSet(S), NEW f \in [S -> Snapshot \cup {None}],
         NEW g \in [S -> Snapshot \cup {None}], NEW k \in S, f[k] = None,
         \A x \in S \ {k} : f[x] = g[x], NEW a
  PROVE  Total(g, S, a) = Total(f, S, a) + Amount(g[k], a)
<1> DEFINE F == [x \in S |-> Amount(f[x], a)]
           G == [x \in S |-> Amount(g[x], a)]
<1>1. \A x \in S : F[x] \in Nat /\ G[x] \in Nat
  BY AmountFact
<1>2. \A x \in S \ {k} : F[x] = G[x]
  OBVIOUS
<1>3. F[k] = 0 /\ G[k] = Amount(g[k], a)
  BY AmountFact
<1> HIDE DEF F, G
<1>4. \A x \in S : F[x] \in Int /\ G[x] \in Int
  BY <1>1
<1>5. SumFunctionOnSet(G, S) = SumFunctionOnSet(F, S) + G[k] - F[k]
  BY <1>2, <1>4, SumChange
<1>6. SumFunctionOnSet(F, S) \in Int
  BY <1>4, SumInt
<1>7. SumFunctionOnSet(G, S) = SumFunctionOnSet(F, S) + G[k]
  BY <1>1, <1>3, <1>5, <1>6
<1> QED BY <1>3, <1>7 DEF Total, F, G

\* What CreditAccount does when the nonce has no snapshot.
LEMMA CreditFact ==
  ASSUME TypeOK, TypeOK', NEW k \in Nonces, NEW o \in OutputIds, CreditAccount(k, o),
         inc[k] = None, NEW a \in Assets
  PROVE  /\ inc'[k] = BuildAccountSnapshot(Output(o))
         /\ \A x \in Nonces \ {k} : inc[x] = inc'[x]
         /\ Total(inc', Nonces, a) = Total(inc, Nonces, a) + Amount(inc'[k], a)
         /\ Amount(inc'[k], a) = IF Output(o).asset = a THEN Output(o).amount ELSE 0
         /\ balance'[a] = balance[a] + Amount(inc'[k], a)
<1>1. inc'[k] = BuildAccountSnapshot(Output(o)) /\ \A x \in Nonces \ {k} : inc[x] = inc'[x]
  BY DEF CreditAccount, TypeOK
<1>2. inc \in [Nonces -> Snapshot \cup {None}] /\ inc' \in [Nonces -> Snapshot \cup {None}]
  BY DEF TypeOK
<1>3. Total(inc', Nonces, a) = Total(inc, Nonces, a) + Amount(inc'[k], a)
  BY <1>1, <1>2, FiniteNonces, TotalChange
<1>4. inc'[k] \in Snapshot /\ inc'[k] # None
  BY <1>1, SnapshotFact, NoneAssumption
<1>5. inc'[k].asset = Output(o).asset /\ inc'[k].amount = Output(o).amount
  BY <1>1 DEF BuildAccountSnapshot
<1>6. Amount(inc'[k], a) = IF Output(o).asset = a THEN Output(o).amount ELSE 0
  BY <1>4, <1>5, AmountFact
<1>7. balance'[a] = IF Output(o).asset = a THEN balance[a] + Output(o).amount ELSE balance[a]
  BY DEF CreditAccount, TypeOK
<1>8. balance[a] \in Nat
  BY DEF TypeOK
<1> QED BY <1>1, <1>3, <1>6, <1>7, <1>8

\* Every step keeps the balances equal to credits less debits.
LEMMA BalanceStep ==
  ASSUME LedgerInv, TypeOK', BalanceBacked, [Next]_vars
  PROVE  BalanceBacked'
<1> USE DEF accounts, payments, stores, memory, writer, receiver, history
<1>0. TypeOK
  BY DEF LedgerInv
<1>1. CASE UNCHANGED <<inc, dec, balance>>
  BY <1>1 DEF BalanceBacked
<1>a. ASSUME NEW a \in Assets
      PROVE  /\ Total(inc, Nonces, a) \in Nat
             /\ Total(dec, EventNonces, a) \in Nat
             /\ balance[a] \in Nat
             /\ balance[a] + Total(dec, EventNonces, a) = Total(inc, Nonces, a)
  BY <1>0, FiniteNonces, TotalNat DEF TypeOK, BalanceBacked
<1>2. ASSUME NEW s \in Streams, CreditOutput(s) PROVE BalanceBacked'
  <2> DEFINE k == memNonce[proc]
             o == Current(s)
  <2>1. CreditAccount(k, o) /\ dec' = dec
    BY <1>2 DEF CreditOutput
  <2>2. k \in Nonces /\ o \in OutputIds
    BY <1>0, <1>2, CurrentFact DEF CreditOutput, Calls, TypeOK
  <2>3. CASE inc[k] # None
    BY <1>1, <2>1, <2>3 DEF CreditAccount
  <2>4. CASE inc[k] = None
    <3> SUFFICES ASSUME NEW a \in Assets
                 PROVE  balance'[a] + Total(dec', EventNonces, a) = Total(inc', Nonces, a)
      BY DEF BalanceBacked
    <3>1. /\ Total(inc', Nonces, a) = Total(inc, Nonces, a) + Amount(inc'[k], a)
          /\ balance'[a] = balance[a] + Amount(inc'[k], a)
      BY <1>0, <2>1, <2>2, <2>4, CreditFact
    <3>2. Amount(inc'[k], a) \in Nat
      BY <2>2, AmountFact DEF TypeOK
    <3> HIDE DEF k
    <3> QED BY <1>a, <2>1, <3>1, <3>2
  <2> QED BY <2>3, <2>4
<1>3. ASSUME NEW l \in Objects, DebitEvent(l) PROVE BalanceBacked'
  <2> DEFINE k == First(l)
             e == EventAt(k)
  <2>1. DebitAccount(k) /\ inc' = inc /\ k \in EventNonces
    BY <1>0, <1>3, FirstFact DEF DebitEvent, Step
  <2>2. CASE UNCHANGED <<dec, balance>>
    BY <1>1, <2>1, <2>2
  <2>3. CASE /\ dec[k] = None
             /\ dec' = [dec EXCEPT ![k] = BuildAccountSnapshot(e)]
             /\ balance' = [balance EXCEPT ![e.asset] = @ - e.amount]
    <3> SUFFICES ASSUME NEW a \in Assets
                 PROVE  balance'[a] + Total(dec', EventNonces, a) = Total(inc', Nonces, a)
      BY DEF BalanceBacked
    <3>1. dec'[k] = BuildAccountSnapshot(e) /\ \A x \in EventNonces \ {k} : dec[x] = dec'[x]
      BY <1>0, <2>1, <2>3 DEF TypeOK
    <3>2. /\ dec \in [EventNonces -> Snapshot \cup {None}]
          /\ dec' \in [EventNonces -> Snapshot \cup {None}]
      BY <1>0 DEF TypeOK
    <3>3. Total(dec', EventNonces, a) = Total(dec, EventNonces, a) + Amount(dec'[k], a)
      <4>1. k \in EventNonces /\ dec[k] = None /\ \A x \in EventNonces \ {k} : dec[x] = dec'[x]
        BY <2>1, <2>3, <3>1
      <4> HIDE DEF k
      <4> QED BY <4>1, <3>2, FiniteNonces, TotalChange
    <3>4. dec'[k] \in Snapshot /\ dec'[k] # None
      BY <2>1, <3>1, SnapshotFact, NoneAssumption
    <3>5. dec'[k].asset = e.asset /\ dec'[k].amount = e.amount
      BY <3>1 DEF BuildAccountSnapshot
    <3>6. Amount(dec'[k], a) = IF e.asset = a THEN e.amount ELSE 0
      BY <3>4, <3>5, AmountFact
    <3>7. e.amount \in Nat /\ balance'[a] = IF e.asset = a THEN balance[a] - e.amount ELSE balance[a]
      BY <1>0, <2>1, <2>3, NoncesFact DEF TypeOK, EventType
    <3> HIDE DEF k, e
    <3> QED BY <1>a, <2>1, <3>3, <3>6, <3>7
  <2>4. CASE dec[k] # None \/ balance[e.asset] < e.amount
    BY <2>1, <2>2, <2>4 DEF DebitAccount
  <2> QED BY <2>1, <2>3, <2>4 DEF DebitAccount
<1>4. \/ \E s \in Streams : CreditOutput(s)
      \/ \E l \in Objects : DebitEvent(l)
      \/ UNCHANGED <<inc, dec, balance>>
  BY DEF Next, vars, Receive, IgnoreOutput, AddProcess, SpawnAdded, WritePending,
    FinishOutput, EventArrives, Restart, ListProcesses, SpawnStored, ListEvents, SkipEvent,
    CheckEvent, NotEnough, BuildTransaction, BuildFails, WriteOffset
<1> QED BY <1>1, <1>2, <1>3, <1>4

-----------------------------------------------------------------------------
(* The theorems *)

\* The invariant holds at the start.
LEMMA LedgerInit == Init => LedgerInv /\ BalanceBacked /\ OutputBecomesEvent
<1> SUFFICES ASSUME Init PROVE LedgerInv /\ BalanceBacked /\ OutputBecomesEvent
  OBVIOUS
<1> USE NoncesFact, OutputIdsFact DEF Init
<1>1. TypeOK
  BY TypeInit
<1>2. WriterInv /\ ObjectInv
  BY DEF WriterInv, ObjectInv
<1>3. NonceInv
  BY FS_EmptySet DEF NonceInv
<1>4. RaceInv /\ ReturnedInv
  BY DEF RaceInv, Race, ReturnedInv
<1>5. PaymentInv /\ ForgottenWasRefused
  BY DEF PaymentInv, LoopInv, ForgottenWasRefused, Forgotten
<1>6. BalanceBacked
  <2> SUFFICES ASSUME NEW a \in Assets
               PROVE  balance[a] + Total(dec, EventNonces, a) = Total(inc, Nonces, a)
    BY DEF BalanceBacked
  <2> DEFINE D == [k \in EventNonces |-> Amount(dec[k], a)]
             I == [k \in Nonces |-> Amount(inc[k], a)]
  <2>1. (\A k \in EventNonces : D[k] = 0) /\ (\A k \in Nonces : I[k] = 0)
    BY DEF Amount
  <2> HIDE DEF D, I
  <2>2. SumFunctionOnSet(D, EventNonces) = 0 /\ SumFunctionOnSet(I, Nonces) = 0
    BY <2>1, FiniteNonces, SumZero
  <2> QED BY <2>2 DEF Total, D, I
<1>7. OutputBecomesEvent
  BY DEF OutputBecomesEvent
<1> QED BY <1>1, <1>2, <1>3, <1>4, <1>5, <1>6, <1>7 DEF LedgerInv

\* Every step keeps the invariant.
LEMMA LedgerStep ==
  ASSUME LedgerInv, BalanceBacked, OutputBecomesEvent, [Next]_vars
  PROVE  (LedgerInv /\ BalanceBacked /\ OutputBecomesEvent)'
<1>1. TypeOK'
  BY TypeStep DEF LedgerInv
<1> QED
  BY <1>1, WriterStep, ObjectStep, NonceStep, RaceStep, ReturnedStep, PaymentStep, ForgottenStep,
    BalanceStep, OutputStep DEF LedgerInv

\* The invariant holds in every behaviour.
LEMMA LedgerInvariant == Spec => [](LedgerInv /\ BalanceBacked /\ OutputBecomesEvent)
<1>1. LedgerInv /\ BalanceBacked /\ OutputBecomesEvent /\ [Next]_vars
        => (LedgerInv /\ BalanceBacked /\ OutputBecomesEvent)'
  BY LedgerStep
<1> QED BY <1>1, LedgerInit, PTL DEF Spec

\* No account of a process becomes negative and no nonce leaves its range, for any
\* streams, outputs and events.
THEOREM TypeCorrect == Spec => []TypeOK
<1>1. LedgerInv => TypeOK
  BY DEF LedgerInv
<1> QED BY <1>1, LedgerInvariant, PTL

\* The consistency panics of WritePendingGroupEventAndNonce and WriteAccountSnapshot
\* are out of reach unless AddProcess ran while Loop had not put the stored process
\* into the map: restarts alone never bring a member there.
THEOREM PanicsOnlyInRaceHolds == Spec => []PanicsOnlyInRace
<1>1. LedgerInv => PanicsOnlyInRace
  BY DEF LedgerInv, RaceInv, Race, PanicsOnlyInRace
<1> QED BY <1>1, LedgerInvariant, PTL

\* The balance of every asset is the sum of its credits less the sum of its debits,
\* at every store call, wherever the member stops and whatever comes again.
THEOREM BalanceBackedHolds == Spec => []BalanceBacked
BY LedgerInvariant, PTL

\* The stored offset of loopReceiveEvents never passes a payment that has no group
\* transaction, unless mtg has refused it.
THEOREM ForgottenWasRefusedHolds == Spec => []ForgottenWasRefused
<1>1. LedgerInv => ForgottenWasRefused
  BY DEF LedgerInv
<1> QED BY <1>1, LedgerInvariant, PTL

\* A group event whose call has returned, of a process that was added before in its
\* stream, is a pending event or was dropped because Loop had not loaded the process.
THEOREM OutputBecomesEventHolds == Spec => []OutputBecomesEvent
BY LedgerInvariant, PTL

-----------------------------------------------------------------------------
(* One stream of outputs.  With two, an output may take the nonce another was *)
(* credited with before a stop, and the other is credited again: the run with *)
(* two streams shows it.                                                      *)

\* A credit is only made at the stored nonce.
LEMMA CreditAtNonce ==
  ASSUME LedgerInv, NEW s \in Streams, CreditOutput(s), inc[memNonce[proc]] = None
  PROVE  memNonce[proc] = storedNonce
<1>1. proc \in Objects /\ memNonce[proc] \in Nonces /\ memNonce[proc] <= storedNonce
  BY DEF LedgerInv, CreditOutput, TypeOK, NonceInv
<1>2. ~ (memNonce[proc] < storedNonce)
  BY <1>1 DEF LedgerInv, NonceInv
<1>3. memNonce[proc] \in Nat /\ storedNonce \in Nat
  BY <1>1, NoncesFact DEF LedgerInv, TypeOK
<1> QED BY <1>1, <1>2, <1>3

\* With one stream, every step keeps the credit ahead of the events that of the
\* current output.
LEMMA CreditStep ==
  ASSUME SingleStream, LedgerInv, TypeOK', CreditInv, [Next]_vars
  PROVE  CreditInv'
<1> USE DEF accounts, payments, stores, memory, writer, receiver, history
<1>0. TypeOK /\ WriterInv /\ ObjectInv /\ NonceInv /\ storedNonce \in Nonces
  BY DEF LedgerInv, TypeOK
<1>1. CASE UNCHANGED <<handled, identifiers, storedNonce, inc, dropped>> /\ (known => known')
  <2>1. \A s \in Streams : Current(s)' = Current(s)
    BY <1>1 DEF Current
  <2> QED BY <1>1, <2>1 DEF CreditInv
<1>2. CASE /\ dropped' = {} => dropped = {} /\ inc[storedNonce] = None
           /\ UNCHANGED <<inc, storedNonce>> /\ (known => known')
  BY <1>2 DEF CreditInv
<1>3. ASSUME NEW s \in Streams, IgnoreOutput(s) PROVE CreditInv'
  <2>1. UNCHANGED <<inc, storedNonce, known>>
    BY <1>3 DEF IgnoreOutput
  <2>2. ASSUME dropped' = {} PROVE dropped = {} /\ inc[storedNonce] = None
    <3>1. dropped = {} /\ ~ (Output(Current(s)).kind = "event" /\ known /\ proc = None)
      BY <1>3, <2>2 DEF IgnoreOutput
    <3>2. inc[storedNonce] # None => /\ Output(Current(s)).kind = "event"
                                     /\ Current(s) \notin identifiers
                                     /\ known
      BY <1>0, <3>1 DEF CreditInv
    <3> QED BY <1>3, <3>1, <3>2 DEF IgnoreOutput, Calls, CheckPendingGroupEventIdentifier
  <2> QED BY <1>2, <2>1, <2>2
<1>4. ASSUME NEW s \in Streams, AddProcess(s) PROVE CreditInv'
  BY <1>1, <1>4 DEF AddProcess, WriteProcess
<1>5. ASSUME NEW s \in Streams, CreditOutput(s) PROVE CreditInv'
  <2> DEFINE k == memNonce[proc]
             o == Current(s)
  <2>1. /\ CreditAccount(k, o) /\ UNCHANGED <<handled, identifiers, storedNonce, known, dropped>>
        /\ handled[s] < Len(Outputs[s]) /\ Output(o).kind = "event" /\ o \notin identifiers
    BY <1>5 DEF CreditOutput, Calls, CheckPendingGroupEventIdentifier
  <2>2. known
    BY <1>0, <1>5 DEF CreditOutput, ObjectInv
  <2>3. CASE inc[k] # None
    BY <1>1, <2>1, <2>3 DEF CreditAccount
  <2>4. CASE inc[k] = None
    <3>1. k = storedNonce
      BY <1>5, <2>4, CreditAtNonce
    <3>2. inc'[storedNonce] = BuildAccountSnapshot(Output(o))
      BY <1>0, <2>1, <2>4, <3>1 DEF CreditAccount, TypeOK
    <3>3. \A t \in Streams : t = s
      BY DEF SingleStream
    <3>4. Current(s)' = o
      BY <2>1 DEF Current
    <3> HIDE DEF o, k
    <3> QED BY <2>1, <2>2, <3>2, <3>3, <3>4 DEF CreditInv
  <2> QED BY <2>3, <2>4
<1>6. CASE SpawnAdded \/ FinishOutput
  <2>1. /\ writing[1] \in Streams /\ Current(writing[1]) = writing
        /\ Output(writing).kind = "add" \/ writing \in identifiers
    BY <1>0, <1>6 DEF SpawnAdded, FinishOutput, WriterInv
  <2>2. UNCHANGED <<inc, storedNonce, known, dropped>>
    BY <1>6 DEF SpawnAdded, FinishOutput
  <2>3. dropped = {} => inc[storedNonce] = None
    BY <2>1 DEF CreditInv
  <2> QED BY <1>2, <2>2, <2>3
<1>7. CASE WritePending
  <2>1. UNCHANGED <<handled, inc, known, dropped>>
    BY <1>7 DEF WritePending
  <2>2. CASE UNCHANGED <<identifiers, storedNonce>>
    BY <1>1, <2>1, <2>2
  <2>3. CASE storedNonce' = storedNonce + 1
    <3>1. storedNonce' \in Nonces /\ storedNonce \in Nat
      BY <1>0, NoncesFact DEF TypeOK
    <3>2. inc'[storedNonce'] = None
      BY <1>0, <2>1, <2>3, <3>1 DEF NonceInv
    <3> QED BY <2>1, <3>2 DEF CreditInv
  <2> QED BY <1>7, <2>2, <2>3 DEF WritePending
<1>8. ASSUME NEW l \in Objects, Receive(l) PROVE CreditInv'
  BY <1>1, <1>8, ReceiveFrame
<1>9. CASE EventArrives \/ Restart \/ ListProcesses \/ SpawnStored \/ UNCHANGED vars
  BY <1>1, <1>9 DEF EventArrives, Restart, ListProcesses, SpawnStored, vars
<1> QED BY <1>3, <1>4, <1>5, <1>6, <1>7, <1>8, <1>9 DEF Next

\* With one stream, every step keeps credits and events of one output together.
LEMMA MatchStep ==
  ASSUME SingleStream, LedgerInv, NonceInv', CreditInv, CreditMatchesOutput, [Next]_vars
  PROVE  CreditMatchesOutput'
<1> USE DEF accounts, payments, stores, memory, writer, receiver, history
<1>0. TypeOK /\ WriterInv /\ NonceInv /\ storedNonce \in Nonces
  BY DEF LedgerInv, TypeOK
<1>1. \A j, k \in Nonces : eventOutput'[k] # None /\ eventOutput'[j] = eventOutput'[k] => j = k
  BY DEF NonceInv
<1>2. SUFFICES ASSUME dropped' = {}, NEW k \in Nonces, eventOutput'[k] # None
               PROVE  inc'[k] = BuildAccountSnapshot(Output(eventOutput'[k]))
  BY <1>1 DEF CreditMatchesOutput
<1>3. CASE UNCHANGED <<eventOutput, inc>> /\ dropped \subseteq dropped'
  BY <1>2, <1>3 DEF CreditMatchesOutput
<1>4. ASSUME NEW s \in Streams, CreditOutput(s)
      PROVE  inc'[k] = BuildAccountSnapshot(Output(eventOutput'[k]))
  <2>1. UNCHANGED <<eventOutput, dropped>> /\ CreditAccount(memNonce[proc], Current(s))
    BY <1>4 DEF CreditOutput
  <2>2. inc[k] # None
    BY <1>0, <1>2, <2>1 DEF NonceInv
  <2>3. inc'[k] = inc[k]
    BY <1>0, <2>1, <2>2 DEF CreditAccount, TypeOK
  <2> QED BY <1>2, <2>1, <2>3 DEF CreditMatchesOutput
<1>5. CASE WritePending
  <2>1. inc' = inc /\ dropped = {}
    BY <1>2, <1>5 DEF WritePending
  <2>2. CASE eventOutput' = eventOutput
    BY <1>3, <2>1, <2>2, <1>2
  <2>3. CASE /\ storedNonce = memNonce[held]
             /\ writing \notin identifiers
             /\ eventOutput' = [eventOutput EXCEPT ![storedNonce] = writing]
    <3>1. CASE k = storedNonce
      <4>1. held # None /\ inc[storedNonce] # None
        BY <1>0, <1>5, <2>3 DEF WritePending, WriterInv
      <4>2. writing[1] \in Streams /\ writing = Current(writing[1])
        BY <1>0, <4>1 DEF WriterInv
      <4>3. inc[storedNonce] = BuildAccountSnapshot(Output(writing))
        BY <2>1, <4>1, <4>2 DEF CreditInv
      <4>4. eventOutput'[k] = writing
        BY <1>0, <2>3, <3>1 DEF TypeOK
      <4> QED BY <2>1, <3>1, <4>3, <4>4
    <3>2. CASE k # storedNonce
      <4>1. eventOutput'[k] = eventOutput[k]
        BY <1>0, <2>3, <3>2 DEF TypeOK
      <4> QED BY <1>2, <2>1, <4>1 DEF CreditMatchesOutput
    <3> QED BY <3>1, <3>2
  <2> QED BY <1>5, <2>2, <2>3 DEF WritePending, CheckPendingGroupEventIdentifier
<1>6. ASSUME NEW l \in Objects, Receive(l)
      PROVE  inc'[k] = BuildAccountSnapshot(Output(eventOutput'[k]))
  BY <1>3, <1>6, ReceiveFrame
<1>7. \/ \E s \in Streams : CreditOutput(s)
      \/ WritePending
      \/ \E l \in Objects : Receive(l)
      \/ UNCHANGED <<eventOutput, inc>> /\ dropped \subseteq dropped'
  BY DEF Next, vars, IgnoreOutput, AddProcess, SpawnAdded, FinishOutput, EventArrives, Restart,
    ListProcesses, SpawnStored
<1> QED BY <1>3, <1>4, <1>5, <1>6, <1>7

\* What an output brings is a natural number.
LEMMA BringsNat == ASSUME NEW o \in OutputIds, NEW n, NEW a PROVE Brings(o, n, a) \in Nat
BY OutputIdsFact DEF Brings, OutputType

\* What the outputs bring together is a natural number.
LEMMA ReceivedNat == ASSUME NEW n, NEW a PROVE Received(n, a) \in Nat
<1> DEFINE F == [o \in OutputIds |-> Brings(o, n, a)]
<1>1. \A o \in OutputIds : F[o] \in Nat
  BY BringsNat
<1> HIDE DEF F
<1>2. SumFunctionOnSet(F, OutputIds) \in Nat
  BY <1>1, FiniteOutputs, SumNat
<1> QED BY <1>2 DEF Received, F

\* More outputs bring no less.
LEMMA ReceivedGrows ==
  ASSUME NEW n \in [Streams -> Nat], NEW m \in [Streams -> Nat], \A s \in Streams : n[s] <= m[s], NEW a
  PROVE  Received(n, a) <= Received(m, a)
<1> DEFINE F == [o \in OutputIds |-> Brings(o, n, a)]
           G == [o \in OutputIds |-> Brings(o, m, a)]
<1>1. \A o \in OutputIds : F[o] \in Nat /\ G[o] \in Nat
  BY BringsNat
<1>2. \A o \in OutputIds : F[o] <= G[o]
  <2> TAKE o \in OutputIds
  <2>1. o[1] \in Streams /\ o[2] \in Nat /\ Output(o).amount \in Nat
    BY OutputIdsFact DEF OutputType
  <2>2. n[o[1]] \in Nat /\ m[o[1]] \in Nat /\ n[o[1]] <= m[o[1]]
    BY <2>1
  <2>3. o[2] <= n[o[1]] => o[2] <= m[o[1]]
    BY <2>1, <2>2
  <2> QED BY <2>1, <2>3 DEF Brings
<1> HIDE DEF F, G
<1>3. \A o \in OutputIds : F[o] \in Int /\ G[o] \in Int /\ F[o] <= G[o]
  BY <1>1, <1>2
<1>4. SumFunctionOnSet(F, OutputIds) <= SumFunctionOnSet(G, OutputIds)
  BY <1>3, FiniteOutputs, SumMonotone
<1> QED BY <1>4 DEF Received, F, G

\* The current output brings its amount.
LEMMA ReceivedNext ==
  ASSUME TypeOK, SingleStream, NEW s \in Streams, handled[s] < Len(Outputs[s]),
         Output(Current(s)).kind = "event", NEW a
  PROVE  Received(Called, a) = Received(handled, a)
           + IF Output(Current(s)).asset = a THEN Output(Current(s)).amount ELSE 0
<1> DEFINE F == [o \in OutputIds |-> Brings(o, handled, a)]
           G == [o \in OutputIds |-> Brings(o, Called, a)]
           c == Current(s)
<1>1. \A o \in OutputIds : F[o] \in Nat /\ G[o] \in Nat
  BY BringsNat
<1>2. c \in OutputIds /\ c[1] = s /\ c[2] = handled[s] + 1 /\ handled[s] \in Nat
  BY CurrentFact DEF TypeOK
<1>3. F[c] = 0 /\ G[c] = IF Output(c).asset = a THEN Output(c).amount ELSE 0
  <2>1. ~ (c[2] <= handled[c[1]]) /\ c[2] <= Called[c[1]]
    BY <1>2 DEF Called
  <2> HIDE DEF c
  <2> QED BY <1>2, <2>1 DEF Brings, c
<1>4. \A o \in OutputIds \ {c} : F[o] = G[o]
  <2> SUFFICES ASSUME NEW o \in OutputIds, o # c PROVE F[o] = G[o]
    OBVIOUS
  <2>1. o[1] = s /\ o[2] \in Nat /\ o = <<o[1], o[2]>>
    BY OutputIdsFact DEF SingleStream
  <2>2. o[2] # handled[s] + 1
    BY <2>1 DEF Current
  <2>3. o[2] <= handled[o[1]] <=> o[2] <= Called[o[1]]
    BY <1>2, <2>1, <2>2 DEF Called
  <2> QED BY <2>3 DEF Brings
<1> HIDE DEF F, G, c
<1>5. \A o \in OutputIds : F[o] \in Int /\ G[o] \in Int
  BY <1>1
<1>6. SumFunctionOnSet(G, OutputIds) = SumFunctionOnSet(F, OutputIds) + G[c] - F[c]
  BY <1>2, <1>4, <1>5, FiniteOutputs, SumChange
<1>7. SumFunctionOnSet(F, OutputIds) \in Int
  BY <1>5, FiniteOutputs, SumInt
<1>8. SumFunctionOnSet(G, OutputIds) = SumFunctionOnSet(F, OutputIds) + G[c]
  BY <1>1, <1>2, <1>3, <1>6, <1>7
<1> QED BY <1>3, <1>8 DEF Received, F, G, c

\* The current output is credited at most once before its call returns.
LEMMA SumStep ==
  ASSUME SingleStream, LedgerInv, TypeOK', SumInv, [Next]_vars
  PROVE  SumInv'
<1> USE DEF accounts, payments, stores, memory, writer, receiver, history
<1>0. TypeOK /\ WriterInv /\ NonceInv /\ storedNonce \in Nonces /\ handled \in [Streams -> Nat]
        /\ Called \in [Streams -> Nat]
  BY DEF LedgerInv, TypeOK, Called
<1>a. ASSUME NEW a \in Assets
      PROVE  /\ Total(inc, Nonces, a) \in Nat
             /\ Received(handled, a) \in Nat
             /\ Received(Called, a) \in Nat
  BY <1>0, FiniteNonces, TotalNat, ReceivedNat DEF TypeOK
<1>1. CASE /\ UNCHANGED <<handled, inc>>
           /\ \A s \in Streams : handled[s] < Len(Outputs[s]) /\ Credited(Current(s)) => Credited(Current(s))'
  <2>1. Called' = Called /\ \A s \in Streams : Current(s)' = Current(s)
    BY <1>1 DEF Called, Current
  <2>2. \A a : Received(handled', a) = Received(handled, a) /\ Received(Called', a) = Received(Called, a)
    BY <1>1, <2>1
  <2> QED BY <1>1, <2>1, <2>2 DEF SumInv
<1>2. CASE UNCHANGED <<handled, inc, identifiers, storedNonce>>
  BY <1>1, <1>2 DEF Credited, Current
<1>3. ASSUME NEW s \in Streams, Return(s), UNCHANGED inc PROVE SumInv'
  <2>1. handled' = Called
    BY <1>0, <1>3 DEF Return, Called, SingleStream
  <2>2. \A t \in Streams : handled[t] <= Called[t]
    BY <1>0 DEF Called
  <2> SUFFICES ASSUME NEW a \in Assets PROVE Total(inc', Nonces, a) <= Received(handled', a)
    BY DEF SumInv
  <2>3. Received(handled, a) <= Received(Called, a)
    BY <1>0, <2>2, ReceivedGrows
  <2>4. Total(inc, Nonces, a) <= Received(handled, a) \/ Total(inc, Nonces, a) <= Received(Called, a)
    BY DEF SumInv
  <2>5. Total(inc, Nonces, a) <= Received(Called, a)
    BY <1>a, <2>3, <2>4
  <2> QED BY <1>3, <2>1, <2>5
<1>4. ASSUME NEW s \in Streams, CreditOutput(s) PROVE SumInv'
  <2> DEFINE k == memNonce[proc]
             o == Current(s)
  <2>1. /\ CreditAccount(k, o) /\ UNCHANGED <<handled, identifiers, storedNonce>>
        /\ handled[s] < Len(Outputs[s]) /\ Output(o).kind = "event" /\ o \notin identifiers
    BY <1>4 DEF CreditOutput, Calls, CheckPendingGroupEventIdentifier
  <2>2. CASE inc[k] # None
    BY <1>2, <2>1, <2>2 DEF CreditAccount
  <2>3. CASE inc[k] = None
    <3>1. k = storedNonce /\ k \in Nonces /\ o \in OutputIds
      BY <1>0, <1>4, <2>1, <2>3, CreditAtNonce, CurrentFact
    <3> SUFFICES ASSUME NEW a \in Assets
                 PROVE  /\ Credited(o)' /\ Current(s)' = o
                        /\ Total(inc', Nonces, a) <= Received(Called', a)
      <4> USE DEF SumInv
      <4> HIDE DEF k
      <4> QED BY <2>1
    <3>2. Called' = Called /\ Current(s)' = o
      BY <2>1 DEF Called, Current
    <3>3. /\ inc'[k] = BuildAccountSnapshot(Output(o))
          /\ Total(inc', Nonces, a) = Total(inc, Nonces, a) + Amount(inc'[k], a)
          /\ Amount(inc'[k], a) = IF Output(o).asset = a THEN Output(o).amount ELSE 0
      BY <1>0, <2>1, <2>3, <3>1, CreditFact
    <3>4. Received(Called, a) = Received(handled, a)
            + IF Output(o).asset = a THEN Output(o).amount ELSE 0
      BY <1>0, <2>1, ReceivedNext
    <3>5. Total(inc, Nonces, a) <= Received(handled, a)
      <4>1. ~ Credited(o)
        BY <2>1, <2>3, <3>1 DEF Credited
      <4>2. \A t \in Streams : t = s
        BY DEF SingleStream
      <4> QED BY <4>1, <4>2 DEF SumInv
    <3>6. Credited(o)'
      <4>1. inc'[k] # None /\ storedNonce' = k
        BY <2>1, <3>1, <3>3, SnapshotFact, NoneAssumption
      <4> QED BY <4>1 DEF Credited
    <3>7. (IF Output(o).asset = a THEN Output(o).amount ELSE 0) \in Nat
      BY <3>1, OutputIdsFact DEF OutputType
    <3> HIDE DEF k, o
    <3>8. Total(inc', Nonces, a) <= Received(Called, a)
      BY <1>a, <3>3, <3>4, <3>5, <3>7
    <3> QED BY <3>2, <3>6, <3>8
  <2> QED BY <2>2, <2>3
<1>5. CASE WritePending
  <2>1. UNCHANGED <<handled, inc>>
    BY <1>5 DEF WritePending
  <2>2. CASE UNCHANGED <<identifiers, storedNonce>>
    BY <1>2, <2>1, <2>2
  <2>3. CASE identifiers' = identifiers \cup {writing}
    <3>1. \A s \in Streams : Current(s)' = writing
      BY <1>0, <1>5, <2>1 DEF WritePending, WriterInv, SingleStream, Current
    <3> QED BY <1>1, <2>1, <2>3, <3>1 DEF Credited
  <2> QED BY <1>5, <2>2, <2>3 DEF WritePending
<1>6. ASSUME NEW s \in Streams, IgnoreOutput(s) PROVE SumInv'
  BY <1>3, <1>6 DEF IgnoreOutput
<1>7. CASE SpawnAdded \/ FinishOutput
  <2>1. writing[1] \in Streams /\ Return(writing[1]) /\ UNCHANGED inc
    BY <1>0, <1>7 DEF SpawnAdded, FinishOutput, WriterInv
  <2> QED BY <1>3, <2>1
<1>8. ASSUME NEW l \in Objects, Receive(l) PROVE SumInv'
  BY <1>2, <1>8, ReceiveFrame
<1>9. ASSUME NEW s \in Streams, AddProcess(s) PROVE SumInv'
  BY <1>2, <1>9 DEF AddProcess
<1>10. CASE EventArrives \/ Restart \/ ListProcesses \/ SpawnStored \/ UNCHANGED vars
  BY <1>2, <1>10 DEF EventArrives, Restart, ListProcesses, SpawnStored, vars
<1> QED BY <1>4, <1>5, <1>6, <1>7, <1>8, <1>9, <1>10 DEF Next

StreamInv == CreditInv /\ CreditMatchesOutput /\ SumInv

\* The invariant for one stream holds at the start.
LEMMA StreamInit == ASSUME Init PROVE StreamInv
<1> USE DEF Init
<1>1. CreditInv /\ CreditMatchesOutput
  BY NoncesFact DEF CreditInv, CreditMatchesOutput
<1>2. ASSUME NEW a \in Assets PROVE Total(inc, Nonces, a) <= Received(handled, a)
  <2> DEFINE I == [k \in Nonces |-> Amount(inc[k], a)]
  <2>1. \A k \in Nonces : I[k] = 0
    BY DEF Amount
  <2> HIDE DEF I
  <2>2. SumFunctionOnSet(I, Nonces) = 0
    BY <2>1, FiniteNonces, SumZero
  <2>3. Total(inc, Nonces, a) = 0
    BY <2>2 DEF Total, I
  <2> QED BY <2>3, ReceivedNat
<1> QED BY <1>1, <1>2 DEF SumInv, StreamInv

\* With one stream its invariant holds in every behaviour.
LEMMA StreamInvariant == SingleStream => (Spec => []StreamInv)
<1> SUFFICES ASSUME SingleStream PROVE Spec => []StreamInv
  OBVIOUS
<1>1. LedgerInv /\ LedgerInv' /\ StreamInv /\ [Next]_vars => StreamInv'
  BY CreditStep, MatchStep, SumStep DEF StreamInv, LedgerInv
<1>2. Init => StreamInv
  BY StreamInit
<1> QED BY <1>1, <1>2, LedgerInvariant, PTL DEF Spec

\* With one stream of outputs, the credit stored with the nonce of a group event is
\* the one of its output, and no output becomes two events, wherever the member
\* stops between the store calls of WriteGroupEvent.
THEOREM CreditMatchesOutputHolds == SingleStream => (Spec => []CreditMatchesOutput)
<1> SUFFICES ASSUME SingleStream PROVE Spec => []CreditMatchesOutput
  OBVIOUS
<1>1. StreamInv => CreditMatchesOutput
  BY DEF StreamInv
<1> QED BY <1>1, StreamInvariant, PTL

\* With one stream of outputs, the credits of an asset never exceed what the outputs
\* hold whose call was made: WriteAccountSnapshot credits no output twice.
THEOREM CreditsWithinOutputsHolds == SingleStream => (Spec => []CreditsWithinOutputs)
<1> SUFFICES ASSUME SingleStream PROVE Spec => []CreditsWithinOutputs
  OBVIOUS
<1>1. TypeOK /\ StreamInv => CreditsWithinOutputs
  <2> SUFFICES ASSUME TypeOK, SumInv, NEW a \in Assets
               PROVE  Total(inc, Nonces, a) <= Received(Called, a)
    BY DEF CreditsWithinOutputs, StreamInv
  <2>1. handled \in [Streams -> Nat] /\ Called \in [Streams -> Nat]
          /\ \A t \in Streams : handled[t] <= Called[t]
    BY DEF TypeOK, Called
  <2>2. Received(handled, a) <= Received(Called, a)
    BY <2>1, ReceivedGrows
  <2>3. Total(inc, Nonces, a) \in Nat /\ Received(handled, a) \in Nat /\ Received(Called, a) \in Nat
    BY FiniteNonces, TotalNat, ReceivedNat DEF TypeOK
  <2>4. Total(inc, Nonces, a) <= Received(handled, a) \/ Total(inc, Nonces, a) <= Received(Called, a)
    BY DEF SumInv
  <2> QED BY <2>2, <2>3, <2>4
<1> QED BY <1>1, StreamInvariant, TypeCorrect, PTL
=============================================================================
