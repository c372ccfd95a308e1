------------------------------ MODULE EosProxy ------------------------------
(***************************************************************************)
(* Group events on EOS: the publishers and the executor of                 *)
(* mvm/eos/engine.go, and the contracts they call, mixinproxy with its     *)
(* token and mtg.xin (mvm/eos/contracts).                                  *)
(*                                                                         *)
(* A publisher pushes an event as `onevent`; when the node reports an      *)
(* error, which may be a timeout of a transaction that is executed all the *)
(* same, it pushes the event again as `onerrorevent`, which puts it into a *)
(* table for the executor.  A transaction that reverts changes nothing.    *)
(* There is one asset; event 0 is the `addprocess` of mtg.xin.             *)
(***************************************************************************)
EXTENDS Integers, FiniteSetsExt

CONSTANTS
  Publishers,   \* members that run with publisher = true
  MaxNonce,     \* nonce of the last event
  EventLists,   \* contents the events may have, by nonce
  Bound,        \* accounts bound to a Mixin user
  Others,       \* accounts of EOS that are not bound
  Master,       \* the account of mixinproxy, issuer of the token
  NoAccount,    \* a name that is no account, a user without one
  Limit,        \* events per list, 100 in the code
  MaxAmount,    \* chain.MAX_AMOUNT
  MaxSupply,    \* MAX_SUPPLY of the token
  Meos,         \* whether the asset is the one that pays for accounts
  Fees,         \* fees the owner may set
  Senders,      \* accounts that transfer tokens
  Transfers,    \* amounts of token transfers
  MaxAdmin      \* bound on the changes of settings

Nonces == 1 .. MaxNonce
Accounts == Bound \cup Others \cup {Master}

EventType ==
  [amount : Nat \ {0}, single : BOOLEAN, account : Bound \cup {NoAccount},
   dest : Accounts \cup {NoAccount, "self", "short", "call"}]

ASSUME NumbersAssumption ==
  /\ MaxNonce \in Nat
  /\ Limit \in Nat \ {0}
  /\ MaxAmount \in Nat
  /\ MaxSupply \in Nat
  /\ Meos \in BOOLEAN
  /\ Fees \subseteq Nat \ {0}
  /\ Transfers \subseteq Nat \ {0}
  /\ MaxAdmin \in Nat

ASSUME EventAssumption == EventLists \subseteq [Nonces -> EventType]

ASSUME AccountAssumption ==
  /\ IsFiniteSet(Bound) /\ IsFiniteSet(Others)
  /\ Bound \cap Others = {}
  /\ Master \notin Bound \cup Others
  /\ NoAccount \notin Accounts
  /\ Senders \subseteq Bound \cup Others
  /\ {"self", "short", "call"} \cap (Accounts \cup {NoAccount}) = {}

VARIABLES
  event,        \* event[n]: the content of the event with nonce n
  queue,        \* queue[p]: EOS:GROUP:EVENT:QUEUE, events stored at publisher p
  pool,         \* transactions the node may still execute
  processAdded, \* mtg.xin knows the contract
  nonce,        \* KEY_NONCE, the next nonce in sequence
  submitted,    \* submittedevs, nonces taken ahead of the sequence
  errors,       \* errorevents, events waiting for the executor
  handled,      \* events that were handled (history)
  ledger,       \* the token, the fees, and sums over the past (history)
  listed,       \* mixinassets has the asset
  transferFee,  \* transferfees, 0 when missing
  createFee,    \* createaccfee, 0 when missing
  changes       \* changes of settings so far

settings == <<event, listed, transferFee, createFee, changes>>
vars == <<queue, pool, processAdded, nonce, submitted, errors, handled, ledger, settings>>

EmptyLedger ==
  [supply |-> 0,                                \* currency_stats of the token
   balance |-> [a \in Accounts |-> 0],          \* its accounts
   fees |-> 0,                                  \* totalfees
   requested |-> 0,                             \* paid out by txrequest
   kept |-> 0,                                  \* neither issued nor paid out
   received |-> 0,                              \* amounts of the handled events
   late |-> 0]                                  \* refunded because expired

\* the process is stored, and with it event 0; the owner has set nothing yet
Init ==
  /\ event \in EventLists
  /\ queue = [p \in Publishers |-> {0}]
  /\ pool = {}
  /\ processAdded = FALSE
  /\ nonce = 1
  /\ submitted = {}
  /\ errors = {}
  /\ handled = {}
  /\ ledger = EmptyLedger
  /\ listed = FALSE
  /\ transferFee = 0
  /\ createFee = 0
  /\ changes = 0

-----------------------------------------------------------------------------
(* The engine *)

\* EnsureSendGroupEvents: event n has got its signatures
StoreGroupEvent(p, n) ==
  /\ n \notin queue[p]
  /\ queue' = [queue EXCEPT ![p] = @ \cup {n}]
  /\ UNCHANGED <<pool, processAdded, nonce, submitted, errors, handled, ledger, settings>>

\* the first Limit numbers of a set, from one on
FirstFrom(S, from) ==
  {n \in S : n >= from /\ Cardinality({m \in S : m >= from /\ m < n}) < Limit}

\* the counter is stored by the first event that is taken
HasCounter == nonce > 1 \/ submitted # {}

\* GetAddressNonce, zero when the call fails or there is no counter
StartNonces == {0} \cup (IF HasCounter THEN {nonce} ELSE {})

\* GetSubmitedEvent, nothing when the call fails
SubmittedFrom(from) == {{}, FirstFrom(submitted, from)}

\* What one list of loopPushGroupEvents may contain: the events stored from the
\* nonce on, without those that are submitted.
ListGroupEvents(p) ==
  UNION {UNION {FirstFrom(queue[p], from) \ done : done \in SubmittedFrom(from)} :
           from \in StartNonces}

\* what a publisher signs and pushes; that of event 0 is an addprocess
EventTransaction(n) == <<"event", n>>
ErrorEventTransaction(n) == <<"error", n>>

\* pushEvent.  The events of a list are pushed one by one; what the list was read
\* from may be stale by then, which is as good as a call that failed.  The time
\* between two pushes of an event (eventStatus) is left open.
PushEvent(p, n) ==
  /\ n \in ListGroupEvents(p)
  /\ pool' = pool \cup {EventTransaction(n)}
  /\ UNCHANGED <<queue, processAdded, nonce, submitted, errors, handled, ledger, settings>>

\* The push has returned an error, be it that the transaction reverted, was lost
\* or is only late: unless it is the addprocess, the event is pushed again as an
\* error event.
PushErrorEvent(p, n) ==
  /\ n \in ListGroupEvents(p) \ {0}
  /\ pool' = pool \cup {ErrorEventTransaction(n)}
  /\ UNCHANGED <<queue, processAdded, nonce, submitted, errors, handled, ledger, settings>>

\* event n is out of the publishers' hands
Taken(n) == n < nonce \/ n \in submitted

-----------------------------------------------------------------------------
(* mtg.xin and the token *)

\* TxRequest of mtg.xin, and who calls it: a refund to the sender of the event, and
\* the notification of a transfer to a bound account
Requested(l, q) == [l EXCEPT !.requested = @ + q]
Refund(l, q) == Requested(l, q)
OnTransfer(l, q) == Requested(l, q)

Kept(l, q) == [l EXCEPT !.kept = @ + q]

\* retire and retireex, once the balance was reduced
Retired(l, q) == [l EXCEPT !.supply = @ - q]

Debited(l, a, q) == [l EXCEPT !.balance[a] = @ - q]
Credited(l, a, q) == [l EXCEPT !.balance[a] = @ + q]

\* issue to the contract and transfer to the account of the user
Issue(l, q) == [l EXCEPT !.supply = @ + q]
Issued(l, a, q) == Credited(Issue(l, q), a, q)

AddFee(l, q) == [l EXCEPT !.fees = @ + q]

CanTransfer(l, from, to, q) ==
  /\ from # to
  /\ to \in Accounts
  /\ l.balance[from] >= q
  /\ to \in Bound => listed

\* ontransfer is called and the tokens stay where they are
MutantTransferred(l, from, to, q) ==
  IF to \in Bound
  THEN OnTransfer(Debited(l, from, q), q)
  ELSE Credited(Debited(l, from, q), to, q)

\* transfer of the token by someone else than the contract: tokens for a bound
\* account are retired and paid out to its user by ontransfer
Transferred(l, from, to, q) ==
  IF to \in Bound
  THEN OnTransfer(Retired(Debited(l, from, q), q), q)
  ELSE Credited(Debited(l, from, q), to, q)

\* TransferOut: a transfer to the contract whose memo names a Mixin user
TransferredOut(l, from, q) == Requested(Retired(Debited(l, from, q), q), q)

-----------------------------------------------------------------------------
(* mixinproxy.  A handler returns the set of ledgers it may end with, which *)
(* is empty when it reverts.                                                *)

\* What is left of the amount goes to the account of the user, and on from
\* there; `works` says whether the call the user asked for succeeds.
\* CreateNewAccount asserts that the user has an account already, and so
\* reverts whenever it is called.
Deliver(l, e, q, works) ==
  CASE ~ e.single -> {Kept(l, q)}
    [] e.single /\ e.account = NoAccount ->
         IF createFee # 0 /\ (~ Meos \/ q < createFee) THEN {Kept(l, q)} ELSE {}
    [] e.single /\ e.account # NoAccount /\ e.dest \in {NoAccount, "short"} ->
         {Refund(l, q)}
    [] OTHER ->
         LET i == Issued(l, e.account, q) IN
           IF l.supply + q > MaxSupply THEN {}
           ELSE IF e.dest = "self" THEN {i}
           ELSE IF e.dest = "call" THEN {i : w \in {works} \cap {TRUE}}
           ELSE {Transferred(i, e.account, d, q) : d \in {e.dest} \ {e.account}}

\* a late event is refunded, and goes on all the same
RefundLate(l, q, late) ==
  IF late THEN [Refund(l, q) EXCEPT !.late = @ + q] ELSE l

\* the fee is not taken out of the quantity
MutantHandleEvent(l, e, late, works) ==
  LET r == [l EXCEPT !.received = @ + e.amount]
      f == AddFee(r, transferFee)
  IN IF ~ listed \/ e.amount > MaxAmount THEN {Kept(r, e.amount)}
     ELSE IF e.amount <= transferFee THEN {AddFee(r, e.amount)}
     ELSE Deliver(RefundLate(f, e.amount, late), e, e.amount, works)

HandleEvent(l, e, late, works) ==
  LET r == [l EXCEPT !.received = @ + e.amount]
      q == e.amount - transferFee
      f == AddFee(r, transferFee)
  IN IF ~ listed \/ e.amount > MaxAmount THEN {Kept(r, e.amount)}
     ELSE IF e.amount <= transferFee THEN {AddFee(r, e.amount)}
     ELSE Deliver(RefundLate(f, q, late), e, q, works)

\* onevent and onerrorevent are accepted
Accepts(n) ==
  /\ processAdded
  /\ n >= nonce
  /\ n \notin submitted

\* the first number from the nonce on that is not in S
NextNonce(S) == Min({m \in nonce .. (MaxNonce + 1) : m \notin S})

\* CheckNonce: take event n, then move the nonce past all that is submitted and
\* remove what is behind it
CheckNonce(n) ==
  LET S == submitted \cup {n} IN
    /\ nonce' = NextNonce(S)
    /\ submitted' = {m \in S : m >= NextNonce(S)}

\* addprocess of mtg.xin; a second one reverts
AddProcess ==
  /\ EventTransaction(0) \in pool
  /\ pool' = pool \ {EventTransaction(0)}
  /\ processAdded' = TRUE
  /\ UNCHANGED <<queue, nonce, submitted, errors, handled, ledger, settings>>

OnEvent(n) ==
  /\ EventTransaction(n) \in pool
  /\ pool' = pool \ {EventTransaction(n)}
  /\ \E late, works \in BOOLEAN :
       LET after == HandleEvent(ledger, event[n], late, works) IN
         \/ /\ Accepts(n)
            /\ \E l \in after : ledger' = l
            /\ handled' = handled \cup {n}
            /\ CheckNonce(n)
         \/ /\ ~ Accepts(n) \/ after = {}
            /\ UNCHANGED <<ledger, handled, nonce, submitted>>
  /\ UNCHANGED <<queue, processAdded, errors, settings>>

\* the nonce is checked and not stored
MutantOnErrorEvent(n) ==
  /\ ErrorEventTransaction(n) \in pool
  /\ pool' = pool \ {ErrorEventTransaction(n)}
  /\ \/ /\ Accepts(n)
        /\ errors' = errors \cup {n}
     \/ /\ ~ Accepts(n)
        /\ UNCHANGED errors
  /\ UNCHANGED <<queue, processAdded, nonce, submitted, handled, ledger, settings>>

\* StoreNonce does not move the nonce
OnErrorEvent(n) ==
  /\ ErrorEventTransaction(n) \in pool
  /\ pool' = pool \ {ErrorEventTransaction(n)}
  /\ \/ /\ Accepts(n)
        /\ submitted' = submitted \cup {n}
        /\ errors' = errors \cup {n}
     \/ /\ ~ Accepts(n)
        /\ UNCHANGED <<submitted, errors>>
  /\ UNCHANGED <<queue, processAdded, nonce, handled, ledger, settings>>

\* exec of the contract
HandleErrorEvent(n) ==
  /\ \E late, works \in BOOLEAN : ledger' \in HandleEvent(ledger, event[n], late, works)
  /\ handled' = handled \cup {n}

\* the event is not removed
MutantExec ==
  /\ errors # {}
  /\ HandleErrorEvent(Min(errors))
  /\ UNCHANGED <<queue, pool, processAdded, nonce, submitted, errors, settings>>

\* The executor (loopExecGroupEvents) calls exec all the time; it handles the
\* lowest event of the table, and nothing while that one reverts.
Exec ==
  /\ errors # {}
  /\ HandleErrorEvent(Min(errors))
  /\ errors' = errors \ {Min(errors)}
  /\ UNCHANGED <<queue, pool, processAdded, nonce, submitted, settings>>

\* the transaction is lost, or expires after TX_EXPIRATION
DropTransaction ==
  /\ \E t \in pool : pool' = pool \ {t}
  /\ UNCHANGED <<queue, processAdded, nonce, submitted, errors, handled, ledger, settings>>

\* An account transfers q tokens, with its own key or, when it is bound, in a
\* call of its user; `out` says whether the memo names a Mixin user.
TokenTransfer(from, to, q, out) ==
  /\ CanTransfer(ledger, from, to, q)
  /\ out => to = Master /\ listed
  /\ ledger' = IF out
               THEN TransferredOut(ledger, from, q)
               ELSE Transferred(ledger, from, to, q)
  /\ UNCHANGED <<queue, pool, processAdded, nonce, submitted, errors, handled, settings>>

\* the owner changes a setting; NewContract asserts that there is a process
Change ==
  /\ processAdded
  /\ changes < MaxAdmin
  /\ changes' = changes + 1
  /\ UNCHANGED <<event, queue, pool, processAdded, nonce, submitted, errors, handled, ledger>>

SetTransferFee(f) ==
  /\ listed
  /\ transferFee' = f
  /\ Change
  /\ UNCHANGED <<listed, createFee>>

SetCreateAccountFee(f) ==
  /\ createFee' = f
  /\ Change
  /\ UNCHANGED <<listed, transferFee>>

AddMixinAsset ==
  /\ ~ listed
  /\ listed' = TRUE
  /\ Change
  /\ UNCHANGED <<transferFee, createFee>>

RemoveMixinAsset ==
  /\ listed
  /\ listed' = FALSE
  /\ Change
  /\ UNCHANGED <<transferFee, createFee>>

Next ==
  \/ \E p \in Publishers, n \in Nonces : StoreGroupEvent(p, n)
  \/ \E p \in Publishers, n \in 0 .. MaxNonce : PushEvent(p, n)
  \/ \E p \in Publishers, n \in Nonces : PushErrorEvent(p, n)
  \/ AddProcess
  \/ \E n \in Nonces : OnEvent(n)
  \/ \E n \in Nonces : OnErrorEvent(n)
  \/ Exec
  \/ DropTransaction
  \/ \E from \in Senders, to \in Accounts, q \in Transfers, out \in BOOLEAN :
       TokenTransfer(from, to, q, out)
  \/ \E f \in Fees : SetTransferFee(f)
  \/ \E f \in Fees : SetCreateAccountFee(f)
  \/ AddMixinAsset
  \/ RemoveMixinAsset

Spec == Init /\ [][Next]_vars

\* A publisher goes through its list again and again, every push returns, either
\* because the event is taken or with an error, and a transaction that is pushed
\* again and again is executed.
Fairness ==
  /\ \A p \in Publishers : WF_vars(PushEvent(p, 0))
  /\ SF_vars(AddProcess)
  /\ \A n \in Nonces :
       /\ \A p \in Publishers : WF_vars(PushErrorEvent(p, n))
       /\ SF_vars(OnErrorEvent(n))

FairSpec == Spec /\ Fairness

-----------------------------------------------------------------------------
\* balances are never negative; nor is the supply, by TokensAddUp
Ledger ==
  [supply : Int, balance : [Accounts -> Nat], fees : Nat, requested : Nat,
   kept : Nat, received : Nat, late : Nat]

\* Types of all the variables.
TypeOK ==
  /\ event \in [Nonces -> EventType]
  /\ queue \in [Publishers -> SUBSET (0 .. MaxNonce)]
  /\ pool \subseteq {"event"} \X (0 .. MaxNonce) \cup {"error"} \X Nonces
  /\ processAdded \in BOOLEAN
  /\ nonce \in 1 .. (MaxNonce + 1)
  /\ submitted \subseteq Nonces
  /\ errors \subseteq Nonces
  /\ handled \subseteq Nonces
  /\ ledger \in Ledger
  /\ listed \in BOOLEAN
  /\ transferFee \in Nat
  /\ createFee \in Nat
  /\ changes \in 0 .. MaxAdmin

\* The nonce and the table of submitted nonces of CheckNonce and StoreNonce say
\* exactly which events were handled or wait for the executor, and none is both,
\* whatever was pushed how often, in which order and as which action.
TakenExactly ==
  /\ \A n \in Nonces : Taken(n) <=> n \in handled \cup errors
  /\ \A n \in submitted : n >= nonce
  /\ handled \cap errors = {}

\* What the contract has issued, paid out, earned and kept is what the handled
\* events brought, and the late refunds, which HandleEventNoNonceChecking pays
\* in addition to what it does with the event afterwards.
Conserved ==
  ledger.supply + ledger.requested + ledger.fees + ledger.kept
    = ledger.received + ledger.late

\* The balances of the token add up to its supply, through issue, transfer,
\* retire and retireex, within limits of the supply.
TokensAddUp ==
  /\ ledger.supply = SumFunctionOnSet(ledger.balance, Accounts)
  /\ ledger.supply <= MaxSupply

\* An event that a publisher has got is taken by the contract, as an event or as
\* an error event, although pushes fail, are lost or answered too late; unless as
\* many events as a list of loopPushGroupEvents holds were taken as error events,
\* none of which moves the nonce that the list starts from.
EventuallyTaken ==
  \A p \in Publishers : \A n \in Nonces :
    (n \in queue[p]) ~> (Taken(n) \/ Cardinality(submitted) >= Limit)

\* mixinproxy implements EventOnce: every event is handled at most once.
Status ==
  [n \in Nonces |-> IF n \in handled THEN "handled"
                   ELSE IF n \in errors THEN "accepted" ELSE "new"]

Once == INSTANCE EventOnce WITH
  amount <- [n \in Nonces |-> event[n].amount], status <- Status, total <- ledger.received

HandledAtMostOnce == Once!Spec
=============================================================================
