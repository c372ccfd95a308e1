--------------------------- MODULE QuorumNotifier ---------------------------
(***************************************************************************)
(* How signed group events reach a contract: every publisher has a         *)
(* notifier account of its own for the contract and sends event k in the   *)
(* transaction with account nonce k; the contract takes events in order.   *)
(*                                                                         *)
(*   mvm/quorum/engine.go       loopSendGroupEvents, loopHandleContracts   *)
(*   mvm/quorum/store.go        storeWriteGroupEvents, storeListGroupEvents*)
(*   mvm/quorum/transaction.go  signGroupEventTransaction                  *)
(*   mvm/quorum/registry/contracts/Registry.sol   mixin, halt              *)
(*                                                                         *)
(* The node (external) keeps sent transactions until they are mined or     *)
(* dropped, mines those of an account in nonce order, and counts a         *)
(* transaction that reverts like any other.                                *)
(***************************************************************************)
EXTENDS Naturals, FiniteSets

CONSTANTS
  Publishers,  \* members with a key, IsPublisher()
  Running,     \* publishers that are not stopped for good
  EventCount,  \* bound on the group events
  ListLimit,   \* limit of storeListGroupEvents, 100 in the code
  SendGas,     \* transactions NotifierMinimumBalance / 2 pays for
  LowGas,      \* transactions NotifierMinimumBalance pays for
  DepositGas,  \* transactions NotifierMaximumBalance pays for
  Reverting,   \* events that mixin may revert although it is their turn
  MaxHalts,    \* bound on the calls of halt
  MaxErrors,   \* bound on errors that are taken for an empty account
  None

ASSUME RunningAssumption == Running # {} /\ Running \subseteq Publishers

ASSUME NumbersAssumption ==
  /\ EventCount \in Nat
  /\ ListLimit \in Nat \ {0}
  /\ {SendGas, LowGas, DepositGas} \subseteq Nat \ {0}
  /\ MaxHalts \in Nat
  /\ MaxErrors \in Nat
  /\ None \notin Nat

Nonces == 0 .. (EventCount - 1)

VARIABLES
  notifier,  \* QUORUM:CONTRACT:NOTIFIER, publishers that have set one up
  queue,     \* QUORUM:GROUP:EVENT:QUEUE of each publisher
  read,      \* account nonce loopSendGroupEvents has read, or None
  pool,      \* transactions of each notifier in the node's pool, as pairs
             \* of an account nonce and an event nonce
  txCount,   \* transactions of each notifier mined
  gas,       \* balance of each notifier
  deposit,   \* a deposit to the notifier is in the pool
  errors,    \* errors taken for an empty account so far
  inbound,   \* INBOUND of the contract
  halted,    \* HALTED of the contract
  halts,     \* calls of halt so far
  spoilt     \* history: publishers whose transaction was reverted in its turn

chain == <<inbound, halted, halts>>
vars == <<notifier, queue, read, pool, txCount, gas, deposit, errors, chain, spoilt>>

Init ==
  /\ notifier = {}
  /\ queue = [p \in Publishers |-> {}]
  /\ read = [p \in Publishers |-> None]
  /\ pool = [p \in Publishers |-> {}]
  /\ txCount = [p \in Publishers |-> 0]
  /\ gas = [p \in Publishers |-> 0]
  /\ deposit = [p \in Publishers |-> FALSE]
  /\ errors = 0
  /\ inbound = 0
  /\ halted = FALSE
  /\ halts = 0
  /\ spoilt = {}

\* WriteContractNotifier panics when there is one already.
WriteContractNotifier(p) == p \notin notifier /\ notifier' = notifier \cup {p}

\* A process is added; when it is added again after a stop the notifier, which is
\* made from the key and the address, is found to be the same.
SetupNotifier(p) ==
  /\ WriteContractNotifier(p)
  /\ UNCHANGED <<queue, read, pool, txCount, gas, deposit, errors, chain, spoilt>>

\* EnsureSendGroupEvents: events are stored as they are signed, in any order.
StoreGroupEvent(p, k) ==
  /\ p \in notifier
  /\ k \notin queue[p]
  /\ queue' = [queue EXCEPT ![p] = @ \cup {k}]
  /\ UNCHANGED <<notifier, read, pool, txCount, gas, deposit, errors, chain, spoilt>>

\* GetAddressBalance returns zero and no error when the node answers with an error.
GetAddressBalance(p) == {gas[p]} \cup (IF errors < MaxErrors THEN {0} ELSE {})

GetAddressNonce(p) == txCount[p]

\* loopSendGroupEvents, up to the list; an error taken for an empty account is only
\* one more reason to wait
ReadNonce(p) ==
  /\ p \in notifier
  /\ read[p] = None
  /\ gas[p] >= SendGas
  /\ read' = [read EXCEPT ![p] = GetAddressNonce(p)]
  /\ UNCHANGED <<notifier, queue, pool, txCount, gas, deposit, errors, chain, spoilt>>

\* the list starts after the account nonce
MutantListAfter(p) ==
  LET later == {k \in queue[p] : k > read[p]}
  IN {k \in later : Cardinality({j \in later : j < k}) < ListLimit}

\* storeListGroupEvents(address, nonce, 100)
ListGroupEvents(p) ==
  LET later == {k \in queue[p] : k >= read[p]}
  IN {k \in later : Cardinality({j \in later : j < k}) < ListLimit}

\* events are sent with the next account nonces, not with their own
MutantNextNonces(p) ==
  LET list == ListGroupEvents(p)
  IN {<<read[p] + Cardinality({j \in list : j < k}), k>> : k \in list}

\* signGroupEventTransaction: the nonce of the event is the account nonce
Transactions(p) == {<<k, k>> : k \in ListGroupEvents(p)}

\* SendRawTransaction: the node refuses nonces that are used up.
SendRawTransactions(p, sent) ==
  pool' = [pool EXCEPT ![p] = @ \cup {t \in sent : t[1] >= txCount[p]}]

\* A failure is only logged, so any transaction may be missing.
SendGroupEvents(p) ==
  /\ read[p] # None
  /\ \E sent \in SUBSET Transactions(p) : SendRawTransactions(p, sent)
  /\ read' = [read EXCEPT ![p] = None]
  /\ UNCHANGED <<notifier, queue, txCount, gas, deposit, errors, chain, spoilt>>

\* What Registry.mixin may do with event k, TRUE when it takes it: it reverts when
\* halted or out of order, and may revert an event in its turn for what the event
\* holds: a list User.run refuses, a Storage that cannot be read, or calls that use
\* up the gas of the transaction.
Mixin(k) ==
  IF halted \/ k # inbound THEN {FALSE}
  ELSE IF k \in Reverting THEN BOOLEAN ELSE {TRUE}

\* The node mines the next transaction of a notifier (external).  One that reverts
\* uses up the account nonce and the gas like any other.
MineTransaction(p) ==
  /\ gas[p] > 0
  /\ \E t \in pool[p], taken \in BOOLEAN :
       /\ t[1] = txCount[p]
       /\ taken \in Mixin(t[2])
       /\ pool' = [pool EXCEPT ![p] = {u \in @ : u[1] # t[1]}]
       /\ inbound' = IF taken THEN inbound + 1 ELSE inbound
       /\ spoilt' = IF t[2] = inbound /\ ~ taken THEN spoilt \cup {p} ELSE spoilt
  /\ txCount' = [txCount EXCEPT ![p] = @ + 1]
  /\ gas' = [gas EXCEPT ![p] = @ - 1]
  /\ UNCHANGED <<notifier, queue, read, deposit, errors, halted, halts>>

\* The node forgets a transaction (external).
DropTransaction(p) ==
  /\ \E t \in pool[p] : pool' = [pool EXCEPT ![p] = @ \ {t}]
  /\ UNCHANGED <<notifier, queue, read, txCount, gas, deposit, errors, chain, spoilt>>

\* loopHandleContracts: a notifier that runs low, or seems to, gets a deposit.  It
\* is sent again every tick with the same account nonce until it is mined.
TopUp(p) ==
  /\ p \in notifier
  /\ ~ deposit[p]
  /\ \E balance \in GetAddressBalance(p) :
       /\ balance <= LowGas
       /\ errors' = IF balance = gas[p] THEN errors ELSE errors + 1
  /\ deposit' = [deposit EXCEPT ![p] = TRUE]
  /\ UNCHANGED <<notifier, queue, read, pool, txCount, gas, chain, spoilt>>

MineDeposit(p) ==
  /\ deposit[p]
  /\ deposit' = [deposit EXCEPT ![p] = FALSE]
  /\ gas' = [gas EXCEPT ![p] = @ + DepositGas]
  /\ UNCHANGED <<notifier, queue, read, pool, txCount, errors, chain, spoilt>>

\* Registry.halt, signed by the group
Halt ==
  /\ halts < MaxHalts
  /\ halts' = halts + 1
  /\ halted' = ~ halted
  /\ UNCHANGED <<notifier, queue, read, pool, txCount, gas, deposit, errors, inbound, spoilt>>

\* The publisher is restarted between reading the nonce and sending.
Restart(p) ==
  /\ read' = [read EXCEPT ![p] = None]
  /\ UNCHANGED <<notifier, queue, pool, txCount, gas, deposit, errors, chain, spoilt>>

Next ==
  \/ \E p \in Publishers :
       \/ SetupNotifier(p)
       \/ \E k \in Nonces : StoreGroupEvent(p, k)
       \/ ReadNonce(p)
       \/ SendGroupEvents(p)
       \/ MineTransaction(p)
       \/ DropTransaction(p)
       \/ TopUp(p)
       \/ MineDeposit(p)
       \/ Restart(p)
  \/ Halt

Spec == Init /\ [][Next]_vars

\* All events are signed in the end, the loops of one publisher at least keep
\* running, and the node neither loses every answer nor drops every transaction
\* for ever.  Nothing is assumed of halts and reverts.
Fairness ==
  \A p \in Running :
    /\ WF_vars(SetupNotifier(p))
    /\ \A k \in Nonces : WF_vars(StoreGroupEvent(p, k))
    /\ SF_vars(ReadNonce(p))
    /\ WF_vars(SendGroupEvents(p))
    /\ SF_vars(SendGroupEvents(p) /\ txCount[p] \in {t[1] : t \in pool'[p]})
    /\ SF_vars(MineTransaction(p))
    /\ WF_vars(TopUp(p))
    /\ WF_vars(MineDeposit(p))

FairSpec == Spec /\ Fairness

-----------------------------------------------------------------------------
\* Types of all the variables; an account is given no more than one deposit that it
\* did not need for every error that GetAddressBalance took for an empty account.
TypeOK ==
  /\ notifier \subseteq Publishers
  /\ queue \in [Publishers -> SUBSET Nonces]
  /\ read \in [Publishers -> Nat \cup {None}]
  /\ pool \in [Publishers -> SUBSET (Nonces \X Nonces)]
  /\ txCount \in [Publishers -> 0 .. EventCount]
  /\ gas \in [Publishers -> 0 .. (LowGas + (1 + errors) * DepositGas)]
  /\ deposit \in [Publishers -> BOOLEAN]
  /\ errors \in 0 .. MaxErrors
  /\ inbound \in 0 .. EventCount
  /\ halted \in BOOLEAN
  /\ halts \in 0 .. MaxHalts
  /\ spoilt \subseteq Publishers

\* A notifier uses up the account nonce of an event that the contract has not taken
\* only after the contract has reverted one of its transactions in its turn, when
\* halted or for what the event holds: neither lost, dropped or overtaken
\* transactions nor restarts nor another publisher lead to it.  Since an event can
\* only be sent with its own nonce, it could never be sent again.
NotifierNotAhead == \A p \in Publishers \ spoilt : txCount[p] <= inbound

\* The contract takes every event in the end, through failed sends, dropped
\* transactions, empty notifier accounts and restarts, and also when another
\* publisher stops for good at any point or is spoilt, unless every publisher that
\* keeps running has had a transaction reverted in its turn.
TakenUnlessSpoilt == \A k \in Nonces : <>(inbound > k \/ Running \subseteq spoilt)
=============================================================================
