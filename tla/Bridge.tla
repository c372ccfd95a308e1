------------------------------- MODULE Bridge -------------------------------
(***************************************************************************)
(* The bridge proxy (mvm/quorum/bridge): money that arrives at one of its  *)
(* Mixin users is sent on as the memo asks, withdrawn to a blockchain, or  *)
(* else passed to the user's address on MVM.                               *)
(*                                                                         *)
(* Three loops share a store: loopSnapshots fills the list of snapshots    *)
(* from the network, processSnapshots pays them or pairs the halves of a   *)
(* withdrawal, processWithdrawals pays the pairs.  Every payment has a     *)
(* trace id made from its snapshot and the way it is paid, and the network *)
(* executes a trace id once.  A panic ends the program, which is started   *)
(* again.                                                                  *)
(***************************************************************************)
EXTENDS Integers, FiniteSetsExt

CONSTANTS
  MaxSnaps,   \* number of snapshots, numbered in the order of their time
  Kinds,      \* kinds the snapshots may have, by number
  Account,    \* Account[s]: the user and the asset of snapshot s
  Pair,       \* Pair[s]: the trace id of its withdrawal, numbered in the order of the keys
  Late,       \* Late[k]: snapshots whose action may be written after they came, for
              \* the kinds k
  Limit,      \* snapshots per list, 500 and 100 in the code
  MaxErrors,  \* bound on errors of payments that do not lack the money and on stops
              \* that are no panic
  Timeouts    \* whether a withdrawal may get older than WithdrawalTimeout

Snaps == 1 .. MaxSnaps
Pairs == {Pair[s] : s \in Snaps}

\* What decodeAction and the checks of submit make of a snapshot: too small or of
\* no user at all; of a user that is not stored; without an action, or with one
\* that is invalid; a transfer; the asset and the fee of a withdrawal; a withdrawal
\* of an asset whose chain verifyDestination does not know.  The action of the last
\* four is in the Storage contract, where it may be written after the money came.
KindNames == {"dust", "stranger", "plain", "transfer", "asset", "fee", "unknown"}

ASSUME NumbersAssumption ==
  /\ MaxSnaps \in Nat
  /\ Limit \in Nat \ {0}
  /\ MaxErrors \in Nat
  /\ Timeouts \in BOOLEAN

ASSUME SnapsAssumption ==
  /\ Kinds \subseteq [Snaps -> KindNames]
  /\ DOMAIN Account = Snaps
  /\ DOMAIN Pair = Snaps
  /\ Pairs \subseteq Nat
  /\ Late \in [Kinds -> SUBSET Snaps]

\* a stored withdrawal: its halves, 0 for one that is missing
Withdrawal == [asset : 0 .. MaxSnaps, fee : 0 .. MaxSnaps]
NoWithdrawal == [asset |-> 0, fee |-> 0]
Ways == {"transfer", "withdraw", "fee", "pass"}

VARIABLES
  kind,        \* kind[s]: what snapshot s is, once its action is written
  unwritten,   \* snapshots whose action is not in the Storage contract yet
  early,       \* snapshots that were handled without their action (history)
  network,     \* number of snapshots of the network so far
  checkpoint,  \* stored checkpoint, the last snapshot that was read
  list,        \* stored snapshots
  pairs,       \* stored withdrawals, NoWithdrawal when there is none
  aged,        \* withdrawals older than WithdrawalTimeout
  fetched,     \* snapshots that loopSnapshots has still to write
  upto,        \* checkpoint that loopSnapshots will write, -1 when it is not running
  work,        \* snapshots that processSnapshots has listed
  todo,        \* those it has still to handle
  step,        \* what it does with the first of them
  seen,        \* the withdrawal that submit has read
  listed,      \* withdrawals that processWithdrawals has listed, as it read them
  wtodo,       \* those it has still to process
  wstep,       \* what it does with one of them
  paid,        \* paid[s]: ways in which snapshot s was paid by the network
  failed,      \* snapshots whose transfer has returned an error (history)
  errors       \* errors and stops so far

reader == <<fetched, upto>>
handler == <<work, todo, step, seen>>
payer == <<listed, wtodo, wstep>>
actions == <<unwritten, early>>
faults == <<failed, errors>>
vars == <<kind, actions, network, checkpoint, list, pairs, aged, reader, handler, payer, paid, faults>>

\* the memo is a key of the Storage contract
Stores(k) == k \in {"transfer", "asset", "fee", "unknown"}

NoList == [p \in Pairs |-> NoWithdrawal]

\* The first checkpoint, the time of the first start, is written.
Init ==
  /\ kind \in Kinds
  /\ unwritten = {s \in Late[kind] : Stores(kind[s])} /\ early = {}
  /\ network = 0
  /\ checkpoint = 0
  /\ list = {}
  /\ pairs = NoList
  /\ aged = {}
  /\ fetched = {} /\ upto = -1
  /\ work = {} /\ todo = {} /\ step = "next" /\ seen = NoWithdrawal
  /\ listed = NoList /\ wtodo = {} /\ wstep = "next"
  /\ paid = [s \in Snaps |-> {}]
  /\ failed = {} /\ errors = 0

\* money arrives at a user of the bridge
Receive ==
  /\ network < MaxSnaps
  /\ network' = network + 1
  /\ UNCHANGED <<kind, actions, checkpoint, list, pairs, aged, reader, handler, payer, paid, faults>>

\* An action is written to the Storage contract.  Its key is its hash: what is
\* read under a key is nothing, and then the action for ever.
StorageWritten(s) ==
  /\ s \in unwritten
  /\ unwritten' = unwritten \ {s}
  /\ UNCHANGED <<kind, early, network, checkpoint, list, pairs, aged, reader, handler, payer, paid, faults>>

FirstOf(S) == {s \in S : Cardinality({t \in S : t < s}) < Limit}

-----------------------------------------------------------------------------
(* Payments.  Each is for one unit, out of the account of the snapshot.     *)

\* what is left on the account of snapshot s; a withdrawal spends its fee too
Funds(s) ==
  LET same == {t \in Snaps : Account[t] = Account[s]} IN
    Cardinality({t \in same : t <= network})
      - MapThenSumSet(LAMBDA t : Cardinality(paid[t]), same)

\* the network executes a payment: one it has executed already is not repeated
CanPay(s, way) == way \in paid[s] \/ Funds(s) > 0

Pays(s, way) ==
  /\ CanPay(s, way)
  /\ paid' = [paid EXCEPT ![s] = @ \cup {way}]

\* withdraw: the fee comes from the account of the chain's asset
CanWithdraw(w) ==
  \/ "withdraw" \in paid[w.asset]
  \/ /\ Funds(w.asset) > 0 /\ Funds(w.fee) > 0
     /\ Account[w.asset] = Account[w.fee] => Funds(w.asset) > 1

PaysWithdrawal(w) ==
  /\ CanWithdraw(w)
  /\ paid' = [paid EXCEPT ![w.asset] = @ \cup {"withdraw"}, ![w.fee] = @ \cup {"fee"}]

\* an error, for want of money or for another reason, with nothing executed
Refused(poor) ==
  /\ UNCHANGED paid
  /\ \/ poor /\ UNCHANGED errors
     \/ ~ poor /\ errors < MaxErrors /\ errors' = errors + 1

\* executed, and the answer is lost
AnswerLost == errors < MaxErrors /\ errors' = errors + 1

\* a panic of any loop, or another stop of the program
Stopped ==
  /\ fetched' = {} /\ upto' = -1
  /\ work' = {} /\ todo' = {} /\ step' = "next" /\ seen' = NoWithdrawal
  /\ listed' = NoList /\ wtodo' = {} /\ wstep' = "next"

-----------------------------------------------------------------------------
(* loopSnapshots *)

\* the checkpoint is written before the snapshots
MutantReadNetworkSnapshots ==
  /\ upto = -1
  /\ fetched' = FirstOf({s \in Snaps : s > checkpoint /\ s <= network})
  /\ fetched' # {}
  /\ upto' = Max(fetched')
  /\ checkpoint' = upto'
  /\ UNCHANGED <<kind, actions, network, list, pairs, aged, handler, payer, paid, faults>>

\* the checkpoint is the time of the last snapshot: that one comes again
ReadNetworkSnapshots ==
  /\ upto = -1
  /\ fetched' = FirstOf({s \in Snaps : s >= checkpoint /\ s <= network})
  /\ upto' = IF fetched' = {} THEN checkpoint ELSE Max(fetched')
  /\ UNCHANGED <<kind, actions, network, checkpoint, list, pairs, aged, handler, payer, paid, faults>>

WriteSnapshot ==
  /\ fetched # {}
  /\ LET s == Min(fetched) IN
       /\ fetched' = fetched \ {s}
       /\ list' = IF kind[s] = "dust" THEN list ELSE list \cup {s}
  /\ UNCHANGED <<kind, actions, network, checkpoint, pairs, aged, upto, handler, payer, paid, faults>>

WriteCheckpoint ==
  /\ upto # -1 /\ fetched = {}
  /\ checkpoint' = upto
  /\ upto' = -1
  /\ UNCHANGED <<kind, actions, network, list, pairs, aged, fetched, handler, payer, paid, faults>>

-----------------------------------------------------------------------------
(* processSnapshots *)

ListSnapshots ==
  /\ work = {} /\ list # {}
  /\ work' = FirstOf(list)
  /\ todo' = work'
  /\ UNCHANGED <<kind, actions, network, checkpoint, list, pairs, aged, step, seen, reader, payer, paid, faults>>

\* processSnapshotForUser is through with snapshot s
HandledNow(s) ==
  /\ todo' = todo \ {s}
  /\ step' = "next"
  /\ seen' = NoWithdrawal
  /\ UNCHANGED work

\* decodeAction reads the Storage contract whenever the snapshot is handled; what is
\* not written yet is no action
Decoded(s) == IF s \in unwritten THEN "plain" ELSE kind[s]

\* what the kinds of snapshots have in common: s is next
HandleNext(s) == todo # {} /\ s = Min(todo) /\ step = "next"

SkipStranger(s) ==
  /\ HandleNext(s) /\ Decoded(s) = "stranger"
  /\ HandledNow(s)
  /\ UNCHANGED <<kind, actions, network, checkpoint, list, pairs, aged, reader, payer, paid, faults>>

\* verifyDestination panics for a chain that it does not know, and does so again
\* whenever the snapshot is listed
VerifyDestination(s) ==
  /\ HandleNext(s) /\ Decoded(s) = "unknown"
  /\ Stopped
  /\ UNCHANGED <<kind, actions, network, checkpoint, list, pairs, aged, paid, faults>>

\* there is no action, or submit refuses it
PassOn ==
  /\ step' = "pass"
  /\ UNCHANGED <<work, todo, seen>>

PlainSnapshot(s) ==
  /\ HandleNext(s) /\ Decoded(s) = "plain"
  /\ PassOn
  /\ early' = early \cup ({s} \cap unwritten)
  /\ UNCHANGED <<kind, unwritten, network, checkpoint, list, pairs, aged, reader, payer, paid, faults>>

\* the snapshot is passed after a transfer, too
MutantTransfer(s) ==
  /\ HandleNext(s) /\ Decoded(s) = "transfer"
  /\ Pays(s, "transfer")
  /\ PassOn
  /\ UNCHANGED <<kind, actions, network, checkpoint, list, pairs, aged, reader, payer, faults>>

\* handle: the transfer the memo asks for; after an error the money is passed on
Transfer(s) ==
  /\ HandleNext(s) /\ Decoded(s) = "transfer"
  /\ \/ /\ Pays(s, "transfer")
        /\ HandledNow(s)
        /\ UNCHANGED <<failed, errors>>
     \/ /\ Refused(~ CanPay(s, "transfer")) \/ (Pays(s, "transfer") /\ AnswerLost)
        /\ failed' = failed \cup {s}
        /\ PassOn
  /\ UNCHANGED <<kind, actions, network, checkpoint, list, pairs, aged, reader, payer>>

\* an error is ignored
MutantPass(s) ==
  /\ todo # {} /\ s = Min(todo) /\ step = "pass"
  /\ (Pays(s, "pass") /\ UNCHANGED errors) \/ Refused(~ CanPay(s, "pass"))
  /\ HandledNow(s)
  /\ UNCHANGED <<kind, actions, network, checkpoint, list, pairs, aged, reader, payer, failed>>

\* bindAndPass; an error is a panic
Pass(s) ==
  /\ todo # {} /\ s = Min(todo) /\ step = "pass"
  /\ \/ /\ Pays(s, "pass")
        /\ HandledNow(s)
        /\ UNCHANGED <<errors, reader, payer>>
     \/ /\ Refused(~ CanPay(s, "pass")) \/ (Pays(s, "pass") /\ AnswerLost)
        /\ Stopped
  /\ UNCHANGED <<kind, actions, network, checkpoint, list, pairs, aged, failed>>

\* submit reads the withdrawal of its trace id ...
ReadWithdrawal(s) ==
  /\ HandleNext(s) /\ Decoded(s) \in {"asset", "fee"}
  /\ step' = IF pairs[Pair[s]] # NoWithdrawal /\ Pair[s] \in aged THEN "pass" ELSE "submit"
  /\ seen' = pairs[Pair[s]]
  /\ UNCHANGED <<kind, actions, network, checkpoint, list, pairs, aged, work, todo, reader, payer, paid, faults>>

\* the withdrawal with snapshot s as one of its halves
With(w, s) ==
  IF kind[s] = "asset" THEN [w EXCEPT !.asset = s] ELSE [w EXCEPT !.fee = s]

Complete(w) == w.asset # 0 /\ w.fee # 0

\* ... and writes it, unless there are two halves of the same kind, or three
WriteWithdrawal(s) ==
  /\ todo # {} /\ s = Min(todo) /\ step = "submit"
  /\ \/ /\ seen = NoWithdrawal \/ (~ Complete(seen) /\ Complete(With(seen, s)))
        /\ pairs' = [pairs EXCEPT ![Pair[s]] = With(seen, s)]
        /\ aged' = IF seen = NoWithdrawal THEN aged \ {Pair[s]} ELSE aged
        /\ HandledNow(s)
     \/ /\ seen # NoWithdrawal /\ (Complete(seen) \/ ~ Complete(With(seen, s)))
        /\ step' = "pass"
        /\ UNCHANGED <<work, todo, seen, pairs, aged>>
  /\ UNCHANGED <<kind, actions, network, checkpoint, list, reader, payer, paid, faults>>

\* everything that was listed before is deleted, handled or not
DeleteSnapshots ==
  /\ work # {} /\ todo = {}
  /\ list' = list \ work
  /\ work' = {}
  /\ UNCHANGED <<kind, actions, network, checkpoint, pairs, aged, todo, step, seen, reader, payer, paid, faults>>

-----------------------------------------------------------------------------
(* processWithdrawals *)

Stored == {p \in Pairs : pairs[p] # NoWithdrawal}

\* the list, which is in the order of the keys, is empty between two rounds
ListWithdrawals ==
  /\ listed = NoList /\ Stored # {}
  /\ listed' = pairs
  /\ wtodo' = Stored
  /\ UNCHANGED <<kind, actions, network, checkpoint, list, pairs, aged, wstep, reader, handler, paid, faults>>

\* p is the withdrawal that the loop has come to
InHand(p) == wtodo # {} /\ p = Min(wtodo)

ProcessedNow(p) ==
  /\ wtodo' = wtodo \ {p}
  /\ wstep' = "next"
  /\ UNCHANGED listed

\* the money of a withdrawal goes back
PassBack(p) ==
  /\ wstep' = "asset"
  /\ UNCHANGED <<listed, wtodo>>

SkipIncomplete(p) ==
  /\ InHand(p) /\ wstep = "next"
  /\ p \notin aged /\ ~ Complete(listed[p])
  /\ ProcessedNow(p)
  /\ UNCHANGED <<kind, actions, network, checkpoint, list, pairs, aged, reader, handler, paid, faults>>

ExpireWithdrawal(p) ==
  /\ InHand(p) /\ wstep = "next"
  /\ p \in aged
  /\ PassBack(p)
  /\ UNCHANGED <<kind, actions, network, checkpoint, list, pairs, aged, reader, handler, paid, faults>>

\* An error of the withdrawal, or of the deletion of its address after it, lets
\* the money be passed on.
Withdraw(p) ==
  /\ InHand(p) /\ wstep = "next"
  /\ p \notin aged /\ Complete(listed[p])
  /\ \/ /\ PaysWithdrawal(listed[p])
        /\ ProcessedNow(p)
        /\ UNCHANGED errors
     \/ /\ Refused(~ CanWithdraw(listed[p])) \/ (PaysWithdrawal(listed[p]) /\ AnswerLost)
        /\ PassBack(p)
  /\ UNCHANGED <<kind, actions, network, checkpoint, list, pairs, aged, reader, handler, failed>>

\* the half of a withdrawal that is to be passed, and the one after it
Half(p) == IF wstep = "asset" THEN listed[p].asset ELSE listed[p].fee

NextHalf(p) ==
  \/ wstep = "asset" /\ wstep' = "fee" /\ UNCHANGED <<listed, wtodo>>
  \/ wstep = "fee" /\ ProcessedNow(p)

\* pass of one half after the other; a missing one is skipped
PassHalf(p) ==
  /\ InHand(p) /\ wstep # "next"
  /\ \/ /\ Half(p) = 0
        /\ NextHalf(p)
        /\ UNCHANGED <<paid, errors, reader, handler>>
     \/ /\ Half(p) # 0
        /\ Pays(Half(p), "pass")
        /\ NextHalf(p)
        /\ UNCHANGED <<errors, reader, handler>>
     \/ /\ Half(p) # 0
        /\ Refused(~ CanPay(Half(p), "pass")) \/ (Pays(Half(p), "pass") /\ AnswerLost)
        /\ Stopped
  /\ UNCHANGED <<kind, actions, network, checkpoint, list, pairs, aged, failed>>

\* what was listed is deleted by its trace id, the incomplete withdrawals too
DeleteWithdrawals ==
  /\ listed # NoList /\ wtodo = {}
  /\ pairs' = [p \in Pairs |-> IF listed[p] # NoWithdrawal THEN NoWithdrawal ELSE pairs[p]]
  /\ listed' = NoList
  /\ UNCHANGED <<kind, actions, network, checkpoint, list, aged, wtodo, wstep, reader, handler, paid, faults>>

TimePasses(p) ==
  /\ Timeouts
  /\ pairs[p] # NoWithdrawal /\ p \notin aged
  /\ aged' = aged \cup {p}
  /\ UNCHANGED <<kind, actions, network, checkpoint, list, pairs, reader, handler, payer, paid, faults>>

Crash ==
  /\ errors < MaxErrors
  /\ errors' = errors + 1
  /\ Stopped
  /\ UNCHANGED <<kind, actions, network, checkpoint, list, pairs, aged, paid, failed>>

Handling(s) ==
  \/ SkipStranger(s)
  \/ VerifyDestination(s)
  \/ PlainSnapshot(s)
  \/ Transfer(s)
  \/ Pass(s)
  \/ ReadWithdrawal(s)
  \/ WriteWithdrawal(s)

Processing(p) ==
  \/ SkipIncomplete(p)
  \/ ExpireWithdrawal(p)
  \/ Withdraw(p)
  \/ PassHalf(p)

Next ==
  \/ Receive \/ (\E s \in Snaps : StorageWritten(s))
  \/ ReadNetworkSnapshots \/ WriteSnapshot \/ WriteCheckpoint
  \/ ListSnapshots \/ (\E s \in Snaps : Handling(s)) \/ DeleteSnapshots
  \/ ListWithdrawals \/ (\E p \in Pairs : Processing(p)) \/ DeleteWithdrawals
  \/ \E p \in Pairs : TimePasses(p)
  \/ Crash

Spec == Init /\ [][Next]_vars

\* The three loops run for ever.
Fairness ==
  /\ WF_vars(ReadNetworkSnapshots \/ WriteSnapshot \/ WriteCheckpoint)
  /\ WF_vars(ListSnapshots \/ (\E s \in Snaps : Handling(s)) \/ DeleteSnapshots)
  /\ WF_vars(ListWithdrawals \/ (\E p \in Pairs : Processing(p)) \/ DeleteWithdrawals)

FairSpec == Spec /\ Fairness

-----------------------------------------------------------------------------
\* Types of all the variables.
TypeOK ==
  /\ kind \in [Snaps -> KindNames]
  /\ unwritten \subseteq Snaps /\ early \subseteq Snaps
  /\ network \in 0 .. MaxSnaps
  /\ checkpoint \in 0 .. network
  /\ list \subseteq 1 .. network
  /\ pairs \in [Pairs -> Withdrawal]
  /\ aged \subseteq Pairs
  /\ fetched \subseteq 1 .. network
  /\ upto \in -1 .. network
  /\ work \subseteq Snaps /\ todo \subseteq work
  /\ step \in {"next", "pass", "submit"}
  /\ seen \in Withdrawal
  /\ listed \in [Pairs -> Withdrawal]
  /\ wtodo \subseteq Pairs
  /\ wstep \in {"next", "asset", "fee"}
  /\ paid \in [Snaps -> SUBSET Ways]
  /\ failed \subseteq Snaps
  /\ errors \in 0 .. MaxErrors

\* snapshots that ask for no withdrawal
Mine(s) == kind[s] \in {"plain", "transfer"}

\* A snapshot that is read, listed or handled again, by a checkpoint that is read
\* inclusively or after a stop, is paid in one way only, unless its transfer has
\* failed once or it was handled before its transfer was in the Storage contract.
PaidAtMostOnce ==
  \A s \in Snaps : Mine(s) /\ Cardinality(paid[s]) > 1 => s \in failed \cup early

\* A snapshot behind the checkpoint is still in the list or was paid, wherever the
\* program stopped.
NothingLost ==
  \A s \in Snaps : s <= checkpoint /\ Mine(s) => s \in list \/ paid[s] # {}

\* README.md of the bridge: it is able to transfer all assets.  A half of a
\* withdrawal that is not read any more is stored until it is paid.
NoHalfLost ==
  \A s \in Snaps :
    s < checkpoint /\ kind[s] \in {"asset", "fee"} =>
      \/ s \in list \/ paid[s] # {}
      \/ s \in {pairs[Pair[s]].asset, pairs[Pair[s]].fee}

\* While nobody withdraws, every snapshot of a user is paid, unless another one was
\* paid twice out of its money.  (The half of a withdrawal that is read again while
\* the pair is still stored is refused by submit and passed; when it is spent by
\* then, or when its chain is not known, the program panics, starts and panics again.)
EventuallyPaid ==
  \A s \in Snaps :
    (s <= network /\ Mine(s) /\ \A t \in Snaps : kind[t] \notin {"asset", "fee", "unknown"}) ~>
      (paid[s] # {} \/ \E t \in Snaps : Cardinality(paid[t]) > 1)
=============================================================================
