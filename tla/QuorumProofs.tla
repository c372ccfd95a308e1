---------------------------- MODULE QuorumProofs ----------------------------
(***************************************************************************)
(* Proofs about the two loops of the quorum engine: QuorumNotifier, for    *)
(* every number of publishers, events, errors and halts, and QuorumLogs,   *)
(* for every chain, window and number of events.  The two share no state.  *)
(***************************************************************************)
EXTENDS QuorumNotifier, QuorumLogs, TLAPS

-----------------------------------------------------------------------------
(* The notifiers *)

\* What loopSendGroupEvents puts into the pool: an event in the transaction with
\* its own number.
OwnNonce == \A p \in Publishers : \A t \in pool[p] : t[1] = t[2]

\* A deposit is on its way to an account that was low, or that an error let appear
\* empty.
DepositInv == \A p \in Publishers : deposit[p] => gas[p] <= LowGas + errors * DepositGas

NotifierInv ==
  /\ TypeOK
  /\ OwnNonce
  /\ DepositInv
  /\ NotifierNotAhead

\* What the deposits of errors and one more amount to.
LEMMA Deposits ==
  ASSUME NEW e \in Nat
  PROVE  /\ e * DepositGas \in Nat
         /\ (1 + e) * DepositGas = e * DepositGas + DepositGas
         /\ (1 + e) * DepositGas \in Nat
         /\ (1 + (e + 1)) * DepositGas = e * DepositGas + DepositGas + DepositGas
         /\ (e + 1) * DepositGas = e * DepositGas + DepositGas
<1>1. DepositGas \in Nat
  BY NumbersAssumption
<1>2. \A d \in Nat : /\ e * d \in Nat
                     /\ (1 + e) * d = e * d + d
                     /\ (1 + e) * d \in Nat
                     /\ (1 + (e + 1)) * d = e * d + d + d
                     /\ (e + 1) * d = e * d + d
  OBVIOUS
<1> QED BY <1>1, <1>2

\* The bound of an account in the type invariant, as a product less.
LEMMA GasFact ==
  ASSUME TypeOK
  PROVE  \A p \in Publishers : gas[p] \in Nat /\ gas[p] <= LowGas + errors * DepositGas + DepositGas
<1>1. errors \in Nat /\ LowGas \in Nat /\ DepositGas \in Nat
  BY NumbersAssumption DEF TypeOK
<1>2. errors * DepositGas \in Nat /\ (1 + errors) * DepositGas = errors * DepositGas + DepositGas
  BY <1>1, Deposits
<1>3. \A p \in Publishers : gas[p] \in 0 .. (LowGas + (1 + errors) * DepositGas)
  BY DEF TypeOK
<1>4. \A p \in Publishers : gas[p] \in 0 .. (LowGas + (errors * DepositGas + DepositGas))
  BY <1>2, <1>3
<1>5. ASSUME NEW m \in Nat, NEW p \in Publishers, gas[p] \in 0 .. (LowGas + (m + DepositGas))
      PROVE  gas[p] \in Nat /\ gas[p] <= LowGas + m + DepositGas
  BY <1>1, <1>5
<1> QED BY <1>2, <1>4, <1>5

\* The same the other way round.
LEMMA GasType ==
  ASSUME NEW e \in Nat, NEW g,
         g \in Nat, g <= LowGas + e * DepositGas + DepositGas
  PROVE  g \in 0 .. (LowGas + (1 + e) * DepositGas)
<1>1. LowGas \in Nat /\ DepositGas \in Nat
  BY NumbersAssumption
<1>2. e * DepositGas \in Nat /\ (1 + e) * DepositGas = e * DepositGas + DepositGas
  BY Deposits
<1>3. ASSUME NEW m \in Nat, g <= LowGas + m + DepositGas
      PROVE  g \in 0 .. (LowGas + (m + DepositGas))
  BY <1>1, <1>3
<1> QED BY <1>2, <1>3

\* The invariant holds at the start.
LEMMA NotifierInit == Init => NotifierInv
<1> SUFFICES ASSUME Init PROVE NotifierInv
  OBVIOUS
<1>1. gas \in [Publishers -> 0 .. (LowGas + (1 + errors) * DepositGas)]
  <2>1. LowGas + 0 * DepositGas + DepositGas \in Nat
    BY NumbersAssumption
  <2>2. gas = [p \in Publishers |-> 0]
    BY DEF Init
  <2>3. errors = 0
    BY DEF Init
  <2>4. 0 \in 0 .. (LowGas + (1 + 0) * DepositGas)
    BY <2>1, GasType
  <2> QED BY <2>2, <2>3, <2>4
<1>2. /\ notifier \subseteq Publishers
      /\ queue \in [Publishers -> SUBSET Nonces]
      /\ read \in [Publishers -> Nat \cup {None}]
      /\ pool \in [Publishers -> SUBSET (Nonces \X Nonces)]
      /\ deposit \in [Publishers -> BOOLEAN]
  BY DEF Init
<1>3. txCount \in [Publishers -> 0 .. EventCount]
  <2>1. 0 \in 0 .. EventCount
    BY NumbersAssumption
  <2> QED BY <2>1 DEF Init
<1>4. errors \in 0 .. MaxErrors /\ inbound \in 0 .. EventCount /\ halts \in 0 .. MaxHalts
  BY NumbersAssumption DEF Init
<1>5. halted \in BOOLEAN
  BY Zenon DEF Init
<1>6. TypeOK
  <2>1. spoilt \subseteq Publishers
    BY DEF Init
  <2> QED BY <1>1, <1>2, <1>3, <1>4, <1>5, <2>1, Zenon DEF TypeOK
<1> QED BY <1>6 DEF Init, NotifierInv, OwnNonce, DepositInv, NotifierNotAhead

\* A step that leaves the accounts alone is fit for the type invariant if it is for
\* the other variables.
LEMMA TypeKept ==
  ASSUME TypeOK, UNCHANGED <<gas, errors>>,
         notifier' \subseteq Publishers,
         queue' \in [Publishers -> SUBSET Nonces],
         read' \in [Publishers -> Nat \cup {None}],
         pool' \in [Publishers -> SUBSET (Nonces \X Nonces)],
         txCount' \in [Publishers -> 0 .. EventCount],
         deposit' \in [Publishers -> BOOLEAN],
         inbound' \in 0 .. EventCount,
         halted' \in BOOLEAN,
         halts' \in 0 .. MaxHalts,
         spoilt' \subseteq Publishers
  PROVE  TypeOK'
BY Zenon DEF TypeOK

\* What is sent are stored events of the group, each with its own number.
LEMMA TransactionsFact ==
  ASSUME TypeOK, NEW p \in Publishers
  PROVE  Transactions(p) \subseteq Nonces \X Nonces /\ \A t \in Transactions(p) : t[1] = t[2]
<1>1. ListGroupEvents(p) \subseteq Nonces
  BY DEF TypeOK, ListGroupEvents
<1> QED BY <1>1 DEF Transactions

\* A round of loopSendGroupEvents keeps the invariant.
LEMMA SendKeeps ==
  ASSUME NotifierInv, NEW p \in Publishers, SendGroupEvents(p)
  PROVE  NotifierInv'
<1> USE DEF NotifierInv, chain
<1>1. PICK sent \in SUBSET Transactions(p) : SendRawTransactions(p, sent)
  BY DEF SendGroupEvents
<1>2. sent \subseteq Nonces \X Nonces /\ \A t \in sent : t[1] = t[2]
  BY TransactionsFact
<1>3. pool' \in [Publishers -> SUBSET (Nonces \X Nonces)]
  BY <1>1, <1>2 DEF SendRawTransactions, TypeOK
<1>4. OwnNonce'
  BY <1>1, <1>2 DEF SendRawTransactions, TypeOK, OwnNonce
<1>5. TypeOK'
  BY <1>3, TypeKept DEF SendGroupEvents, TypeOK
<1> QED BY <1>4, <1>5 DEF SendGroupEvents, DepositInv, NotifierNotAhead

\* The transaction of an account that is mined holds the event of the same number:
\* if the contract is further on than that, it stays so, if it waits for this event,
\* it takes it.
LEMMA MineKeeps ==
  ASSUME NotifierInv, NEW p \in Publishers, MineTransaction(p)
  PROVE  NotifierInv'
<1> USE DEF NotifierInv, chain
<1>1. PICK t \in pool[p], taken \in BOOLEAN :
        /\ t[1] = txCount[p]
        /\ taken \in Mixin(t[2])
        /\ pool' = [pool EXCEPT ![p] = {u \in @ : u[1] # t[1]}]
        /\ inbound' = IF taken THEN inbound + 1 ELSE inbound
        /\ spoilt' = IF t[2] = inbound /\ ~ taken THEN spoilt \cup {p} ELSE spoilt
  BY DEF MineTransaction
<1>2. t \in Nonces \X Nonces /\ t[1] = t[2] /\ t[1] \in Nonces
  BY DEF TypeOK, OwnNonce
<1>3. pool' \in [Publishers -> SUBSET (Nonces \X Nonces)] /\ OwnNonce'
  BY <1>1 DEF TypeOK, OwnNonce
<1>4. txCount' = [txCount EXCEPT ![p] = t[1] + 1] /\ t[1] + 1 \in 0 .. EventCount
  BY <1>1, <1>2, NumbersAssumption DEF MineTransaction, Nonces
<1>5. txCount' \in [Publishers -> 0 .. EventCount]
  BY <1>4 DEF TypeOK
<1>6. inbound' \in 0 .. EventCount /\ inbound <= inbound'
  <2>1. taken => t[2] = inbound
    BY <1>1 DEF Mixin
  <2> QED BY <1>1, <1>2, <2>1, NumbersAssumption DEF TypeOK, Nonces
<1>7. ASSUME NEW q \in Publishers \ spoilt' PROVE txCount'[q] <= inbound'
  <2>1. q \notin spoilt /\ txCount[q] <= inbound
    BY <1>1, <1>7 DEF NotifierNotAhead
  <2>2. txCount[q] \in 0 .. EventCount /\ inbound \in 0 .. EventCount
    BY DEF TypeOK
  <2>3. CASE q # p
    BY <1>4, <1>6, <2>1, <2>2, <2>3 DEF TypeOK
  <2>4. CASE q = p
    <3>1. t[1] <= inbound /\ txCount'[q] = t[1] + 1
      BY <1>1, <1>4, <2>1, <2>4 DEF TypeOK
    <3>2. t[1] = inbound => taken
      BY <1>1, <1>2, <1>7, <2>4
    <3> QED BY <1>1, <1>2, <1>6, <2>2, <3>1, <3>2 DEF Nonces
  <2> QED BY <2>3, <2>4
<1>16. spoilt' \subseteq Publishers
  BY <1>1 DEF TypeOK
<1>8. gas' = [gas EXCEPT ![p] = @ - 1] /\ gas[p] > 0 /\ UNCHANGED errors
  BY DEF MineTransaction
<1>9. errors \in Nat /\ gas' \in [Publishers -> Nat]
  BY <1>8, GasFact DEF TypeOK
<1>10. \A q \in Publishers : gas[q] \in Nat /\ gas'[q] \in Nat /\ gas'[q] <= gas[q]
  BY <1>8, <1>9, GasFact DEF TypeOK
<1>11. errors * DepositGas \in Nat /\ LowGas \in Nat /\ DepositGas \in Nat
  BY <1>9, Deposits, NumbersAssumption
<1>12. \A q \in Publishers : gas'[q] <= LowGas + errors * DepositGas + DepositGas
  <2>1. ASSUME NEW m \in Nat, NEW q \in Publishers, gas[q] <= LowGas + m + DepositGas
        PROVE  gas'[q] <= LowGas + m + DepositGas
    BY <1>10, <1>11, <2>1
  <2> QED BY <1>11, <2>1, GasFact
<1>13. gas' \in [Publishers -> 0 .. (LowGas + (1 + errors) * DepositGas)]
  <2>1. \A q \in Publishers : gas'[q] \in 0 .. (LowGas + (1 + errors) * DepositGas)
    BY <1>9, <1>10, <1>12, GasType
  <2> QED BY <1>9, <2>1
<1>14. DepositInv'
  <2>1. ASSUME NEW m \in Nat, NEW q \in Publishers, gas[q] <= LowGas + m
        PROVE  gas'[q] <= LowGas + m
    BY <1>10, <1>11, <2>1
  <2> QED BY <1>8, <1>11, <2>1 DEF MineTransaction, DepositInv
<1>15. TypeOK'
  BY <1>3, <1>5, <1>6, <1>8, <1>13, <1>16, Zenon DEF TypeOK, MineTransaction
<1> QED BY <1>3, <1>7, <1>14, <1>15 DEF MineTransaction, NotifierNotAhead

\* A deposit is asked for when the account is low, or after one more error.
LEMMA TopUpKeeps ==
  ASSUME NotifierInv, NEW p \in Publishers, TopUp(p)
  PROVE  NotifierInv'
<1> USE DEF NotifierInv, chain
<1>1. PICK balance \in GetAddressBalance(p) :
        /\ balance <= LowGas
        /\ errors' = IF balance = gas[p] THEN errors ELSE errors + 1
  BY DEF TopUp
<1>2. errors \in Nat /\ LowGas \in Nat /\ DepositGas \in Nat /\ MaxErrors \in Nat /\ errors <= MaxErrors
  BY NumbersAssumption DEF TypeOK
<1>3. errors' \in 0 .. MaxErrors
  BY <1>1, <1>2 DEF GetAddressBalance
<1>4. errors * DepositGas \in Nat /\ (errors + 1) * DepositGas = errors * DepositGas + DepositGas
  BY <1>2, Deposits
<1>5. errors' * DepositGas \in Nat /\ errors * DepositGas <= errors' * DepositGas
  BY <1>1, <1>2, <1>4
<1>6. ASSUME NEW m \in Nat, NEW n \in Nat, m <= n, NEW g \in Nat
      PROVE  /\ g <= LowGas + m + DepositGas => g <= LowGas + n + DepositGas
             /\ g <= LowGas + m => g <= LowGas + n
  BY <1>2, <1>6
<1>7. \A q \in Publishers : gas[q] \in Nat /\ gas[q] <= LowGas + errors' * DepositGas + DepositGas
  BY <1>4, <1>5, <1>6, GasFact
<1>8. \A q \in Publishers : gas'[q] \in 0 .. (LowGas + (1 + errors') * DepositGas)
  BY <1>3, <1>7, GasType DEF TopUp
<1>9. gas' \in [Publishers -> 0 .. (LowGas + (1 + errors') * DepositGas)]
  <2>1. gas' = gas /\ gas' = [q \in Publishers |-> gas'[q]]
    BY DEF TopUp, TypeOK
  <2> QED BY <1>8, <2>1
<1>10. deposit' \in [Publishers -> BOOLEAN]
  BY Zenon DEF TopUp, TypeOK
<1>11. TypeOK'
  BY <1>3, <1>9, <1>10, Zenon DEF TopUp, TypeOK
<1>12. gas[p] <= LowGas + errors' * DepositGas
  <2>1. CASE balance = gas[p]
    <3>1. gas[p] <= LowGas /\ gas[p] \in Nat
      BY <1>1, <2>1, GasFact
    <3>2. \A m \in Nat : gas[p] <= LowGas + m
      BY <1>2, <3>1
    <3> QED BY <1>5, <3>2
  <2>2. CASE balance # gas[p]
    <3>1. errors' * DepositGas = errors * DepositGas + DepositGas
      BY <1>1, <1>4, <2>2
    <3>2. \A m \in Nat : gas[p] <= LowGas + m + DepositGas => gas[p] <= LowGas + (m + DepositGas)
      BY <1>2, GasFact
    <3> QED BY <1>4, <3>1, <3>2, GasFact
  <2> QED BY <2>1, <2>2
<1>13. DepositInv'
  <2>1. ASSUME NEW q \in Publishers, deposit'[q] PROVE gas'[q] <= LowGas + errors' * DepositGas
    <3>1. CASE q = p
      BY <1>12, <3>1 DEF TopUp
    <3>2. CASE q # p
      <4>1. deposit[q]
        BY <2>1, <3>2 DEF TopUp, TypeOK
      <4>2. gas[q] \in Nat /\ gas[q] <= LowGas + errors * DepositGas
        BY <4>1, GasFact DEF DepositInv
      <4> QED BY <1>4, <1>5, <1>6, <4>2 DEF TopUp
    <3> QED BY <3>1, <3>2
  <2> QED BY <2>1 DEF DepositInv
<1> QED BY <1>11, <1>13 DEF TopUp, OwnNonce, NotifierNotAhead

\* A deposit that is mined keeps the invariant.
LEMMA MineDepositKeeps ==
  ASSUME NotifierInv, NEW p \in Publishers, MineDeposit(p)
  PROVE  NotifierInv'
<1> USE DEF NotifierInv, chain
<1>1. errors \in Nat /\ LowGas \in Nat /\ DepositGas \in Nat /\ errors * DepositGas \in Nat
  <2>1. errors \in Nat /\ LowGas \in Nat /\ DepositGas \in Nat
    BY NumbersAssumption DEF TypeOK
  <2> QED BY <2>1, Deposits
<1>2. gas[p] \in Nat /\ gas[p] <= LowGas + errors * DepositGas
  BY GasFact DEF MineDeposit, DepositInv
<1>3. gas' = [gas EXCEPT ![p] = @ + DepositGas] /\ gas[p] + DepositGas \in Nat /\ UNCHANGED errors
  BY <1>1, <1>2 DEF MineDeposit
<1>4. gas[p] + DepositGas <= LowGas + errors * DepositGas + DepositGas
  <2>1. \A m \in Nat : gas[p] <= LowGas + m => gas[p] + DepositGas <= LowGas + m + DepositGas
    BY <1>1, <1>2
  <2> QED BY <1>1, <1>2, <2>1
<1>5. gas[p] + DepositGas \in 0 .. (LowGas + (1 + errors) * DepositGas)
  BY <1>1, <1>3, <1>4, GasType
<1>6. gas' \in [Publishers -> 0 .. (LowGas + (1 + errors') * DepositGas)]
  BY <1>3, <1>5 DEF TypeOK
<1>7. deposit' \in [Publishers -> BOOLEAN] /\ (\A q \in Publishers : deposit'[q] => q # p /\ deposit[q])
  BY Zenon DEF MineDeposit, TypeOK
<1>8. DepositInv'
  BY <1>3, <1>7 DEF DepositInv, TypeOK
<1>9. TypeOK'
  BY <1>3, <1>6, <1>7, Zenon DEF MineDeposit, TypeOK
<1> QED BY <1>8, <1>9 DEF MineDeposit, OwnNonce, NotifierNotAhead

\* Every step keeps the invariant.
LEMMA NotifierStep ==
  ASSUME NotifierInv, [Next]_vars
  PROVE  NotifierInv'
<1> USE DEF chain
<1>1. ASSUME NEW p \in Publishers, SetupNotifier(p) PROVE NotifierInv'
  <2>1. TypeOK'
    BY <1>1, TypeKept DEF SetupNotifier, WriteContractNotifier, NotifierInv, TypeOK
  <2> QED BY <1>1, <2>1 DEF SetupNotifier, NotifierInv, OwnNonce, DepositInv, NotifierNotAhead
<1>2. ASSUME NEW p \in Publishers, NEW k \in Nonces, StoreGroupEvent(p, k) PROVE NotifierInv'
  <2>1. queue' \in [Publishers -> SUBSET Nonces]
    BY <1>2 DEF StoreGroupEvent, NotifierInv, TypeOK
  <2>2. TypeOK'
    BY <1>2, <2>1, TypeKept DEF StoreGroupEvent, NotifierInv, TypeOK
  <2> QED BY <1>2, <2>2 DEF StoreGroupEvent, NotifierInv, OwnNonce, DepositInv, NotifierNotAhead
<1>3. ASSUME NEW p \in Publishers, ReadNonce(p) \/ Restart(p) PROVE NotifierInv'
  <2>1. read' \in [Publishers -> Nat \cup {None}]
    BY <1>3, NumbersAssumption DEF ReadNonce, Restart, GetAddressNonce, NotifierInv, TypeOK
  <2>2. TypeOK'
    BY <1>3, <2>1, TypeKept DEF ReadNonce, Restart, NotifierInv, TypeOK
  <2> QED BY <1>3, <2>2 DEF ReadNonce, Restart, NotifierInv, OwnNonce, DepositInv, NotifierNotAhead
<1>4. ASSUME NEW p \in Publishers, DropTransaction(p) PROVE NotifierInv'
  <2>1. pool' \in [Publishers -> SUBSET (Nonces \X Nonces)] /\ OwnNonce'
    BY <1>4 DEF DropTransaction, NotifierInv, TypeOK, OwnNonce
  <2>2. TypeOK'
    BY <1>4, <2>1, TypeKept DEF DropTransaction, NotifierInv, TypeOK
  <2> QED BY <1>4, <2>1, <2>2 DEF DropTransaction, NotifierInv, DepositInv, NotifierNotAhead
<1>5. ASSUME Halt PROVE NotifierInv'
  <2>1. halts' \in 0 .. MaxHalts
    BY <1>5, NumbersAssumption DEF Halt, NotifierInv, TypeOK
  <2>2. halted' \in BOOLEAN
    BY <1>5, Zenon DEF Halt, NotifierInv, TypeOK
  <2>3. TypeOK'
    BY <1>5, <2>1, <2>2, TypeKept DEF Halt, NotifierInv, TypeOK
  <2> QED BY <1>5, <2>1, <2>3 DEF Halt, NotifierInv, OwnNonce, DepositInv, NotifierNotAhead
<1>6. CASE UNCHANGED vars
  BY <1>6 DEF vars, NotifierInv, TypeOK, OwnNonce, DepositInv, NotifierNotAhead
<1> QED
  BY <1>1, <1>2, <1>3, <1>4, <1>5, <1>6, SendKeeps, MineKeeps, TopUpKeeps, MineDepositKeeps DEF Next

\* The invariant of the notifiers holds in every behaviour of loopSendGroupEvents and
\* loopHandleContracts.
THEOREM NotifierInvariant == Spec => []NotifierInv
BY NotifierInit, NotifierStep, PTL DEF Spec

\* The types of the notifiers' state, and the bound on what an account is given:
\* loopHandleContracts tops it up once too often for every error of
\* GetAddressBalance at the most, however deposits and transactions interleave.
THEOREM NotifierTypes == Spec => []TypeOK
<1>1. NotifierInv => TypeOK
  BY DEF NotifierInv
<1> QED BY <1>1, NotifierInvariant, PTL

\* No account of a publisher is ahead of INBOUND before the contract has reverted one
\* of its transactions in its turn: signGroupEventTransaction can still send every
\* event the contract has not taken, whichever transactions fail, are dropped or
\* overtaken by those of another publisher.
THEOREM NotifierNotAheadHolds == Spec => []NotifierNotAhead
<1>1. NotifierInv => NotifierNotAhead
  BY DEF NotifierInv
<1> QED BY <1>1, NotifierInvariant, PTL

-----------------------------------------------------------------------------
(* The scan of the logs *)

\* Blocks are on the chain, and so is the offset: it is written when the chain has
\* reached it.
ChainInv ==
  /\ \A k \in EventNonces : BlockOf(k) <= height
  /\ Base <= height /\ Offset <= height
  /\ mined <= height

\* While a scan is under way, every log of its window that was on the chain when
\* GetLogs was answered is stored or still in the answer.
ScanInv ==
  scanning =>
    \A k \in EventNonces \ Refused :
      Offset <= BlockOf(k) /\ BlockOf(k) <= Offset + Window
        /\ BlockOf(k) + mined <= height => k \in answer \cup events

LogsInv ==
  /\ LogsTypeOK
  /\ ChainInv
  /\ ScanInv
  /\ NoLogMissed

\* The numbers of the events, and their blocks.
LEMMA NonceSet ==
  ASSUME NEW m \in Nat, NEW k
  PROVE  k \in {j - 1 : j \in 1 .. m} <=> k \in Nat /\ k + 1 <= m
<1>1. ASSUME k \in {j - 1 : j \in 1 .. m} PROVE k \in Nat /\ k + 1 <= m
  BY <1>1
<1>2. ASSUME k \in Nat, k + 1 <= m PROVE k \in {j - 1 : j \in 1 .. m}
  <2>1. k + 1 \in 1 .. m /\ k = (k + 1) - 1
    BY <1>2
  <2> QED BY <2>1
<1> QED BY <1>1, <1>2

\* The logs on the chain are numbered without a gap, and each has a block.
LEMMA NoncesFact ==
  ASSUME LogsTypeOK
  PROVE  /\ \A k : k \in EventNonces <=> k \in Nat /\ k + 1 <= Len(block)
         /\ \A k \in EventNonces : BlockOf(k) \in Nat
<1>1. Len(block) \in Nat /\ \A i \in 1 .. Len(block) : block[i] \in Nat
  BY DEF LogsTypeOK
<1>2. \A k : k \in EventNonces <=> k \in Nat /\ k + 1 <= Len(block)
  BY <1>1, NonceSet DEF EventNonces
<1>3. \A k \in EventNonces : k + 1 \in 1 .. Len(block)
  BY <1>1, <1>2
<1> QED BY <1>1, <1>2, <1>3 DEF BlockOf

\* The invariant of the scan holds at the start.
LEMMA LogsInvInit ==
  ASSUME LogsInit
  PROVE  LogsInv
<1>1. Len(block) = 0 /\ block \in Seq(Nat)
  BY DEF LogsInit
<1>2. EventNonces = {}
  BY <1>1 DEF EventNonces
<1>3. Offset = Base
  BY LogsAssumption DEF LogsInit, Offset
<1>4. scanning \in BOOLEAN
  BY Zenon DEF LogsInit
<1>5. LogsTypeOK
  BY <1>1, <1>4, LogsAssumption DEF LogsInit, LogsTypeOK
<1> QED BY <1>2, <1>3, <1>5, LogsAssumption DEF LogsInit, LogsInv, ChainInv, ScanInv, NoLogMissed

\* A new block is after the window of a scan that is under way, as far as it was
\* read.
LEMMA MineBlockKeeps ==
  ASSUME LogsInv, NEW n \in 0 .. MaxEvents, MineBlock(n)
  PROVE  LogsInv'
<1> USE LogsAssumption DEF LogsInv
<1>1. /\ height' = height + 1 /\ height \in Nat
      /\ UNCHANGED <<storedOffset, events, scanning, answer, unread>>
      /\ mined \in Nat
      /\ mined' = IF scanning THEN mined + 1 ELSE 0
  BY DEF MineBlock, LogsTypeOK
<1>2. /\ block' \in Seq(Nat) /\ Len(block') = Len(block) + n
      /\ Len(block) \in Nat
      /\ \A i \in 1 .. Len(block) : block'[i] = block[i]
      /\ \A i \in (Len(block) + 1) .. (Len(block) + n) : block'[i] = height + 1
  <2> DEFINE new == [i \in 1 .. n |-> height + 1]
  <2>1. new \in Seq(Nat) /\ Len(new) = n /\ \A i \in 1 .. n : new[i] = height + 1
    BY <1>1
  <2>2. block' = block \o new /\ block \in Seq(Nat)
    BY DEF MineBlock, LogsTypeOK
  <2> HIDE DEF new
  <2>3. block' \in Seq(Nat) /\ Len(block') = Len(block) + n /\ Len(block) \in Nat
    <3>1. \A b, c \in Seq(Nat) : b \o c \in Seq(Nat) /\ Len(b \o c) = Len(b) + Len(c) /\ Len(b) \in Nat
      OBVIOUS
    <3> QED BY <2>1, <2>2, <3>1
  <2>4. ASSUME NEW i \in 1 .. Len(block) PROVE block'[i] = block[i]
    <3>1. i \in 1 .. (Len(block) + Len(new)) /\ i <= Len(block)
      BY <2>1, <2>3
    <3> QED BY <2>1, <2>2, <3>1
  <2>5. ASSUME NEW i \in (Len(block) + 1) .. (Len(block) + n) PROVE block'[i] = height + 1
    <3>1. i - Len(block) \in 1 .. n
      BY <2>3
    <3>2. block'[i] = new[i - Len(block)]
      BY <2>1, <2>2, <2>3
    <3> QED BY <2>1, <3>1, <3>2
  <2> QED BY <2>3, <2>4, <2>5
<1>3. mined' \in Nat
  BY <1>1
<1>4. EventNonces \subseteq EventNonces'
  BY <1>2 DEF EventNonces
<1>5. LogsTypeOK'
  <2>1. scanning' \in BOOLEAN
    BY <1>1 DEF LogsTypeOK
  <2> QED BY <1>1, <1>2, <1>3, <1>4, <2>1 DEF LogsTypeOK
<1>6. \A k \in EventNonces' :
        \/ k \in EventNonces /\ BlockOf(k)' = BlockOf(k)
        \/ BlockOf(k)' = height + 1
  <2>1. ASSUME NEW k \in EventNonces'
        PROVE  \/ k \in EventNonces /\ block'[k + 1] = block[k + 1]
               \/ block'[k + 1] = height + 1
    <3>1. k \in Nat /\ k + 1 <= Len(block')
      BY <1>2, NonceSet DEF EventNonces
    <3>2. CASE k + 1 <= Len(block)
      <4>1. k \in EventNonces /\ k + 1 \in 1 .. Len(block)
        BY <1>2, <3>1, <3>2, NonceSet DEF EventNonces
      <4> QED BY <1>2, <4>1
    <3>3. CASE k + 1 > Len(block)
      <4>1. k + 1 \in (Len(block) + 1) .. (Len(block) + n)
        BY <1>2, <3>1, <3>3
      <4> QED BY <1>2, <4>1
    <3>4. k + 1 <= Len(block) \/ k + 1 > Len(block)
      BY <1>2, <3>1
    <3> QED BY <3>2, <3>3, <3>4
  <2> QED BY <2>1 DEF BlockOf
<1>7. Offset' = Offset /\ Offset \in Nat
  BY <1>1 DEF Offset, LogsTypeOK
<1>8. \A k \in EventNonces : BlockOf(k) \in Nat /\ BlockOf(k) <= height
  BY NoncesFact DEF ChainInv
<1>9. ChainInv'
  BY <1>1, <1>6, <1>7, <1>8 DEF ChainInv
<1>10. NoLogMissed'
  <2>1. ASSUME NEW k \in EventNonces' \ Refused, BlockOf(k)' < Offset'
        PROVE  k \in events' \/ WentUnread(k)'
    <3>1. BlockOf(k)' # height + 1
      BY <1>1, <1>7, <2>1 DEF ChainInv
    <3>2. k \in EventNonces /\ BlockOf(k)' = BlockOf(k)
      BY <1>6, <2>1, <3>1
    <3> QED BY <1>1, <1>7, <2>1, <3>2 DEF NoLogMissed, WentUnread
  <2> QED BY <2>1 DEF NoLogMissed
<1>11. ScanInv'
  <2>1. ASSUME scanning', NEW k \in EventNonces', k \notin Refused,
               Offset' <= BlockOf(k)', BlockOf(k)' <= Offset' + Window,
               BlockOf(k)' + mined' <= height'
        PROVE  k \in answer' \cup events'
    <3>1. scanning /\ mined' = mined + 1 /\ mined \in Nat
      BY <1>1, <2>1
    <3>2. BlockOf(k)' # height + 1
      BY <1>1, <2>1, <3>1
    <3>3. k \in EventNonces /\ BlockOf(k)' = BlockOf(k) /\ BlockOf(k) \in Nat
      BY <1>6, <1>8, <3>2
    <3>4. BlockOf(k) + mined <= height
      BY <1>1, <2>1, <3>1, <3>3
    <3> QED BY <1>1, <1>7, <2>1, <3>1, <3>3, <3>4 DEF ScanInv
  <2> QED BY <2>1 DEF ScanInv
<1> QED BY <1>5, <1>9, <1>10, <1>11

\* The types after a step of the scan, which leaves the chain alone.
LEMMA ScanTypes ==
  ASSUME LogsTypeOK, UNCHANGED <<height, block, events>>,
         storedOffset' \in Nat, scanning' = TRUE \/ scanning' = FALSE, mined' = 0,
         answer' \subseteq EventNonces, unread' \subseteq Nat
  PROVE  LogsTypeOK'
<1>1. mined' \in Nat
  OBVIOUS
<1>2. scanning' \in BOOLEAN
  BY Zenon
<1>3. EventNonces' = EventNonces
  BY DEF EventNonces
<1> QED BY <1>1, <1>2, <1>3, Zenon DEF LogsTypeOK

\* An answer of GetLogs keeps the invariant.
LEMMA ScanKeeps ==
  ASSUME LogsInv, ScanLogs \/ ScanFails
  PROVE  LogsInv'
<1> USE DEF LogsInv
<1>1. UNCHANGED <<height, block, storedOffset, events, unread>> /\ mined' = 0
  BY DEF ScanLogs, ScanFails
<1>2. /\ EventNonces' = EventNonces /\ Offset' = Offset
      /\ \A k : BlockOf(k)' = BlockOf(k) /\ WentUnread(k)' = WentUnread(k)
  BY <1>1 DEF EventNonces, Offset, BlockOf, WentUnread
<1>3. CASE ScanLogs
  <2>1. scanning' = TRUE /\ answer' = GetLogs(Offset)
    BY <1>3 DEF ScanLogs
  <2>2. answer' \subseteq EventNonces
    BY <2>1 DEF GetLogs, ParseTransactionLogs, LogsOfWindow
  <2>3. \A k \in EventNonces \ Refused :
          Offset <= BlockOf(k) /\ BlockOf(k) <= Offset + Window => k \in answer'
    BY <2>1 DEF GetLogs, ParseTransactionLogs, LogsOfWindow
  <2>4. ScanInv'
    BY <1>1, <1>2, <2>1, <2>3 DEF ScanInv
  <2>5. LogsTypeOK'
    BY <1>1, <2>1, <2>2, ScanTypes DEF LogsTypeOK
  <2> QED BY <1>1, <1>2, <2>4, <2>5 DEF ChainInv, NoLogMissed, LogsTypeOK
<1>4. CASE ScanFails
  <2>1. scanning' = FALSE /\ answer' = {}
    BY <1>4 DEF ScanFails
  <2>2. LogsTypeOK'
    BY <1>1, <2>1, ScanTypes DEF LogsTypeOK
  <2> QED BY <1>1, <1>2, <2>1, <2>2 DEF ChainInv, ScanInv, NoLogMissed, LogsTypeOK
<1> QED BY <1>3, <1>4

\* Storing an event keeps the invariant.
LEMMA StoreEventKeeps ==
  ASSUME LogsInv, NEW k \in answer, StoreEvent(k)
  PROVE  LogsInv'
<1> USE DEF LogsInv
<1>1. /\ UNCHANGED <<height, block, storedOffset, scanning, mined, unread>>
      /\ events' = events \cup {k} /\ answer' = answer \ {k}
  BY DEF StoreEvent
<1>2. /\ EventNonces' = EventNonces /\ Offset' = Offset
      /\ \A j : BlockOf(j)' = BlockOf(j) /\ WentUnread(j)' = WentUnread(j)
  BY <1>1 DEF EventNonces, Offset, BlockOf, WentUnread
<1>3. LogsTypeOK'
  BY <1>1, <1>2 DEF LogsTypeOK
<1>4. answer' \cup events' = answer \cup events
  BY <1>1
<1>5. ScanInv'
  BY <1>1, <1>2, <1>4 DEF ScanInv
<1> QED BY <1>1, <1>2, <1>3, <1>5 DEF ChainInv, NoLogMissed

\* The offset passes a window once the chain has reached its end.  A log of the
\* window that the answer could not hold is then of a block that went unread, or of
\* the last block: with the window ending there, the first block of the next one.
LEMMA AdvanceKeeps ==
  ASSUME LogsInv, AdvanceOffset
  PROVE  LogsInv'
<1> USE DEF LogsInv
<1>1. /\ UNCHANGED <<height, block, events, answer>> /\ mined' = 0 /\ scanning' = FALSE
      /\ scanning /\ answer = {}
  BY DEF AdvanceOffset
<1>2. EventNonces' = EventNonces /\ \A k : BlockOf(k)' = BlockOf(k)
  BY <1>1 DEF EventNonces, BlockOf
<1>3. /\ Offset \in Nat /\ Base <= Offset /\ height \in Nat /\ storedOffset \in Nat
      /\ mined \in Nat /\ Base \in Nat /\ Window \in Nat /\ unread \subseteq Nat
  BY LogsAssumption DEF LogsTypeOK, Offset
<1>4. CASE Offset + Window > height
  <2>1. storedOffset' = storedOffset /\ unread' = unread /\ Offset' = Offset
    BY <1>4 DEF AdvanceOffset, GetBlockHeight, Offset
  <2>2. LogsTypeOK'
    BY <1>1, <2>1, ScanTypes DEF LogsTypeOK
  <2>3. NoLogMissed'
    BY <1>1, <1>2, <2>1 DEF NoLogMissed, WentUnread
  <2> QED BY <1>1, <1>2, <1>3, <2>1, <2>2, <2>3 DEF ChainInv, ScanInv
<1>5. CASE ~ (Offset + Window > height)
  <2> DEFINE gap == ((height - mined) + 1) .. (height - 1)
  <2>1. storedOffset' = Offset + Window /\ unread' = unread \cup gap
    BY <1>5 DEF AdvanceOffset, GetBlockHeight, WriteContractLogsOffset
  <2>2. Offset' = Offset + Window /\ Offset + Window <= height
    <3>1. Offset' = IF storedOffset' < Base THEN Base ELSE storedOffset'
      BY DEF Offset
    <3> QED BY <1>3, <1>5, <2>1, <3>1
  <2>3. LogsTypeOK'
    <3>1. storedOffset' \in Nat
      BY <1>3, <2>1
    <3>2. mined <= height
      BY <1>1 DEF ChainInv
    <3>3. gap \subseteq Nat
      BY <1>3, <3>2
    <3>4. unread' \subseteq Nat
      BY <1>3, <2>1, <3>3
    <3> QED BY <1>1, <3>1, <3>4, ScanTypes DEF LogsTypeOK
  <2>4. ASSUME NEW k \in EventNonces \ Refused, BlockOf(k) < Offset + Window
        PROVE  k \in events \/ BlockOf(k) \in unread'
    <3>1. BlockOf(k) \in Nat
      BY NoncesFact
    <3>2. CASE BlockOf(k) < Offset
      BY <2>1, <3>2 DEF NoLogMissed, WentUnread
    <3>3. CASE Offset <= BlockOf(k) /\ BlockOf(k) + mined <= height
      <4>1. BlockOf(k) <= Offset + Window
        BY <1>3, <2>4, <3>1
      <4> QED BY <1>1, <3>3, <4>1 DEF ScanInv
    <3>4. CASE BlockOf(k) + mined > height
      <4>1. BlockOf(k) \in gap
        BY <1>3, <2>2, <2>4, <3>1, <3>4
      <4> QED BY <2>1, <4>1
    <3> QED BY <1>3, <3>1, <3>2, <3>3, <3>4
  <2>5. NoLogMissed'
    BY <1>1, <1>2, <2>2, <2>4 DEF NoLogMissed, WentUnread
  <2> QED BY <1>1, <1>2, <1>3, <2>2, <2>3, <2>5 DEF ChainInv, ScanInv
<1> QED BY <1>4, <1>5

\* Every step of the chain and the scan keeps the invariant.
LEMMA LogsStep ==
  ASSUME LogsInv, [LogsNext]_logsVars
  PROVE  LogsInv'
<1>1. CASE UNCHANGED logsVars
  BY <1>1 DEF logsVars, LogsInv, LogsTypeOK, ChainInv, ScanInv, NoLogMissed,
              EventNonces, BlockOf, Offset, WentUnread
<1>2. CASE ScanPanics
  BY <1>1, <1>2 DEF ScanPanics
<1> QED BY <1>1, <1>2, MineBlockKeeps, ScanKeeps, StoreEventKeeps, AdvanceKeeps DEF LogsNext

\* The stored offset passes a log that is not stored only if its block was mined after
\* the GetLogs of the scan that moved the offset, and another block after it before
\* GetBlockHeight: whatever the window and the base are, however many blocks are
\* mined meanwhile, and whichever calls of loopGetLogs fail.
THEOREM NoLogMissedHolds == LogsSpec => []NoLogMissed
<1>1. LogsInv => NoLogMissed
  BY DEF LogsInv
<1>2. LogsInit => LogsInv
  BY LogsInvInit
<1>3. LogsInv /\ [LogsNext]_logsVars => LogsInv'
  BY LogsStep
<1> QED BY <1>1, <1>2, <1>3, PTL DEF LogsSpec
=============================================================================
