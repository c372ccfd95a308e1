--------------------------- MODULE PaymentProofs ---------------------------
(***************************************************************************)
(* Proofs about the two programs that send on what users pay to them: the  *)
(* bridge proxy (Bridge), for every list of snapshots, and the sample      *)
(* group (RefundGroup), for every number of users, members and payments.   *)
(* They share no state.                                                    *)
(***************************************************************************)
EXTENDS Bridge, RefundGroup, FiniteSetTheorems, SumTheorems

\* The least number of a set, which the loops take first.
LEMMA MinFact ==
  ASSUME NEW S, S \subseteq Nat, S # {}
  PROVE  Min(S) \in S /\ \A y \in S : Min(S) <= y
<1>1. \E z \in S : \A y \in S : z <= y
  BY LeastNumber
<1> QED BY <1>1 DEF Min

\* The greatest number of a set with a bound.
LEMMA MaxFact ==
  ASSUME NEW S, NEW n \in Nat, S \subseteq 0 .. n, S # {}
  PROVE  Max(S) \in S /\ \A y \in S : Max(S) >= y
<1> DEFINE T == {m \in 0 .. n : n - m \in S}
<1>1. T \subseteq Nat /\ T # {}
  <2>1. PICK x \in S : TRUE
    OBVIOUS
  <2>2. n - x \in 0 .. n /\ n - (n - x) = x
    BY <2>1
  <2>3. n - x \in T
    BY <2>1, <2>2
  <2>4. T \subseteq 0 .. n
    OBVIOUS
  <2> HIDE DEF T
  <2> QED BY <2>3, <2>4
<1>2. PICK m \in T : \A k \in T : m <= k
  <2> HIDE DEF T
  <2> QED BY <1>1, LeastNumber
<1>3. ASSUME NEW y \in S PROVE n - m >= y
  <2>1. n - y \in 0 .. n /\ n - (n - y) = y
    OBVIOUS
  <2>2. m <= n - y
    BY <1>2, <2>1
  <2>3. m \in 0 .. n /\ y \in 0 .. n
    BY <1>2
  <2> QED BY <2>2, <2>3
<1>4. \E z \in S : \A y \in S : z >= y
  BY <1>2, <1>3
<1> QED BY <1>4 DEF Max

-----------------------------------------------------------------------------
(* The bridge *)

\* the halves of a withdrawal are snapshots of their kind
HalvesOf(w) ==
  /\ w.asset # 0 => kind[w.asset] = "asset"
  /\ w.fee # 0 => kind[w.fee] = "fee"

HalvesInv ==
  /\ \A p \in Pairs : HalvesOf(pairs[p]) /\ HalvesOf(listed[p])
  /\ HalvesOf(seen)

\* What is passed is no transfer, or one that has failed or was not written when the
\* snapshot was decoded.
HandlerInv ==
  /\ step # "next" => todo # {}
  /\ step = "submit" => kind[Min(todo)] \in {"asset", "fee"}
  /\ step = "pass" =>
       (kind[Min(todo)] = "transfer" => Min(todo) \in failed \cup early)

\* The only way in which a snapshot was paid so far.
PaidInv ==
  \A s \in Snaps :
    /\ kind[s] = "plain" => paid[s] \subseteq {"pass"}
    /\ kind[s] = "transfer" /\ s \notin failed \cup early => paid[s] \subseteq {"transfer"}

\* The snapshots up to the checkpoint that loopSnapshots will write.
ReaderInv ==
  \A s \in Snaps : s <= upto /\ Mine(s) => s \in fetched \cup list \/ paid[s] # {}

\* The snapshots that processSnapshots is through with: they will be deleted.
WorkInv == \A s \in work \ todo : Mine(s) => paid[s] # {}

BridgeInv ==
  /\ TypeOK
  /\ HalvesInv
  /\ HandlerInv
  /\ PaidInv
  /\ ReaderInv
  /\ WorkInv
  /\ NothingLost

\* What the loops take first is a snapshot, or a stored withdrawal.
LEMMA FirstTodo ==
  ASSUME TypeOK, todo # {}
  PROVE  Min(todo) \in todo /\ Min(todo) \in Snaps
<1>1. todo \subseteq Snaps /\ Snaps \subseteq Nat
  BY NumbersAssumption DEF TypeOK, Snaps
<1> QED BY <1>1, MinFact

\* The withdrawal in hand is one of those that were listed.
LEMMA FirstWithdrawal ==
  ASSUME TypeOK, NEW p, InHand(p)
  PROVE  p \in wtodo /\ p \in Pairs
<1>1. wtodo \subseteq Pairs /\ wtodo \subseteq Nat
  BY SnapsAssumption DEF TypeOK
<1> QED BY <1>1, MinFact DEF InHand

\* A snapshot is not behind the end of the list if a later one is not.
LEMMA FirstOfFact ==
  ASSUME NEW S, S \subseteq Snaps, NEW t \in FirstOf(S), NEW s \in S, s <= t
  PROVE  s \in FirstOf(S)
<1>1. IsFiniteSet(Snaps) /\ Snaps \subseteq Nat
  BY NumbersAssumption, FS_Interval DEF Snaps
<1>2. IsFiniteSet({u \in S : u < t}) /\ IsFiniteSet(S)
  <2>1. IsFiniteSet(S)
    BY <1>1, FS_Subset
  <2> QED BY <2>1, FS_Subset
<1>3. {u \in S : u < s} \in SUBSET {u \in S : u < t}
  <2>1. t \in S /\ s \in Nat /\ t \in Nat /\ S \subseteq Nat
    BY <1>1 DEF FirstOf
  <2>2. \A u \in S : u < s => u < t
    BY <2>1
  <2> QED BY <2>2
<1>4. /\ Cardinality({u \in S : u < s}) <= Cardinality({u \in S : u < t})
      /\ IsFiniteSet({u \in S : u < s})
  BY <1>2, <1>3, FS_Subset
<1>5. Cardinality({u \in S : u < s}) \in Nat /\ Cardinality({u \in S : u < t}) \in Nat
  BY <1>2, <1>4, FS_CardinalityType
<1>6. Cardinality({u \in S : u < t}) < Limit
  BY DEF FirstOf
<1> QED BY <1>4, <1>5, <1>6, NumbersAssumption DEF FirstOf

\* A payment of the network.
LEMMA PaysFact ==
  ASSUME TypeOK, NEW s \in Snaps, NEW way \in Ways, Pays(s, way)
  PROVE  /\ paid' \in [Snaps -> SUBSET Ways]
         /\ \A t \in Snaps : paid'[t] = IF t = s THEN paid[t] \cup {way} ELSE paid[t]
         /\ \A t \in Snaps : paid[t] \subseteq paid'[t]
BY DEF TypeOK, Pays

\* A stop of the program, in whatever it was doing: what it has paid and stored is
\* enough to begin again.
LEMMA StoppedKeeps ==
  ASSUME BridgeInv, Stopped, UNCHANGED <<kind, actions, network, checkpoint, list, pairs, aged, failed>>,
         paid' \in [Snaps -> SUBSET Ways], \A s \in Snaps : paid[s] \subseteq paid'[s],
         PaidInv', errors' \in 0 .. MaxErrors
  PROVE  BridgeInv'
<1> USE DEF BridgeInv, actions
<1>1. NoWithdrawal \in Withdrawal /\ HalvesOf(NoWithdrawal)'
  BY NumbersAssumption DEF Withdrawal, NoWithdrawal, HalvesOf
<1>2. NoList \in [Pairs -> Withdrawal] /\ \A p \in Pairs : NoList[p] = NoWithdrawal
  BY <1>1 DEF NoList
<1>3. TypeOK'
  <2>1. -1 \in -1 .. network
    BY DEF TypeOK
  <2> QED BY <1>1, <1>2, <2>1 DEF Stopped, TypeOK
<1>4. HalvesInv'
  BY <1>1, <1>2 DEF Stopped, HalvesInv, HalvesOf
<1>5. HandlerInv' /\ WorkInv'
  BY DEF Stopped, HandlerInv, WorkInv
<1>6. ReaderInv'
  BY NumbersAssumption DEF Stopped, ReaderInv, Snaps
<1>7. NothingLost'
  BY DEF NothingLost, Mine
<1> QED BY <1>3, <1>4, <1>5, <1>6, <1>7

\* Every loop works on one part of the state.
LEMMA ReaderKeeps ==
  ASSUME BridgeInv, UNCHANGED <<kind, actions, pairs, aged, handler, payer, paid, faults>>,
         network' \in network .. MaxSnaps, checkpoint' \in 0 .. network',
         list' \subseteq 1 .. network', fetched' \subseteq 1 .. network', upto' \in -1 .. network',
         list \subseteq list', ReaderInv', NothingLost'
  PROVE  BridgeInv'
<1> USE DEF BridgeInv, actions, handler, payer, faults
<1>1. TypeOK'
  <2>1. network' \in 0 .. MaxSnaps
    BY NumbersAssumption DEF TypeOK
  <2> QED BY <2>1 DEF TypeOK
<1>2. HalvesInv' /\ HandlerInv'
  BY DEF HalvesInv, HalvesOf, HandlerInv
<1>3. PaidInv' /\ WorkInv'
  BY DEF PaidInv, WorkInv, Mine
<1> QED BY <1>1, <1>2, <1>3

\* A new snapshot of the network keeps the invariant.
LEMMA ReceiveKeeps == ASSUME BridgeInv, Receive PROVE BridgeInv'
<1> USE DEF BridgeInv, actions, handler, payer, faults, reader
<1>1. /\ network' = network + 1 /\ network < MaxSnaps
      /\ UNCHANGED <<kind, actions, checkpoint, list, pairs, aged, reader, handler, payer, paid, faults>>
  BY DEF Receive
<1>2. /\ network \in Nat /\ network' \in network .. MaxSnaps /\ checkpoint \in 0 .. network'
      /\ 1 .. network \subseteq 1 .. network' /\ upto \in -1 .. network'
  BY <1>1, NumbersAssumption DEF TypeOK
<1>3. list' \subseteq 1 .. network' /\ fetched' \subseteq 1 .. network'
  BY <1>1, <1>2 DEF TypeOK
<1>4. ReaderInv' /\ NothingLost'
  BY <1>1 DEF ReaderInv, NothingLost, Mine
<1> QED BY <1>1, <1>2, <1>3, <1>4, ReaderKeeps

\* A list of snapshots from the checkpoint on holds every one up to its last.
LEMMA ReadKeeps == ASSUME BridgeInv, ReadNetworkSnapshots PROVE BridgeInv'
<1> USE DEF BridgeInv, actions
<1> DEFINE S == {s \in Snaps : s >= checkpoint /\ s <= network}
<1>1. /\ fetched' = FirstOf(S)
      /\ upto' = IF fetched' = {} THEN checkpoint ELSE Max(fetched')
      /\ UNCHANGED <<kind, actions, network, checkpoint, list, pairs, aged, handler, payer, paid, faults>>
  BY DEF ReadNetworkSnapshots
<1>2. network \in Nat /\ checkpoint \in Nat /\ checkpoint <= network /\ network <= MaxSnaps
  BY NumbersAssumption DEF TypeOK
<1>3. fetched' \subseteq S /\ S \subseteq 1 .. network /\ S \subseteq Snaps
  BY <1>1, <1>2, NumbersAssumption DEF FirstOf, Snaps
<1> HIDE DEF S
<1>4. fetched' # {} => Max(fetched') \in fetched' /\ Max(fetched') \in 1 .. network
  <2>1. fetched' \subseteq 1 .. network /\ fetched' \subseteq 0 .. network
    BY <1>2, <1>3
  <2> QED BY <1>2, <2>1, MaxFact
<1>5. upto' \in -1 .. network'
  BY <1>1, <1>2, <1>3, <1>4
<1>6. ASSUME NEW s \in Snaps, s <= upto', s > checkpoint PROVE s \in fetched'
  <2>1. fetched' # {} /\ s <= Max(fetched')
    BY <1>1, <1>2, <1>6 DEF Snaps
  <2>2. Max(fetched') \in fetched' /\ Max(fetched') <= network /\ Max(fetched') \in Nat
    BY <1>2, <1>4, <2>1
  <2>3. s \in S
    BY <1>2, <1>6, <2>1, <2>2 DEF S, Snaps
  <2> QED BY <1>1, <1>3, <2>1, <2>2, <2>3, FirstOfFact
<1>7. ReaderInv'
  <2>1. ASSUME NEW s \in Snaps, s <= upto', Mine(s) PROVE s \in fetched' \cup list \/ paid[s] # {}
    <3>1. CASE s <= checkpoint
      BY <2>1, <3>1 DEF NothingLost
    <3>2. CASE s > checkpoint
      BY <1>6, <2>1, <3>2
    <3> QED BY <1>2, <3>1, <3>2 DEF Snaps
  <2> QED BY <1>1, <2>1 DEF ReaderInv, Mine
<1>8. NothingLost'
  BY <1>1 DEF NothingLost, Mine
<1>9. network' \in network .. MaxSnaps /\ checkpoint' \in 0 .. network'
  BY <1>1, <1>2, NumbersAssumption
<1>10. fetched' \subseteq 1 .. network' /\ list' \subseteq 1 .. network'
  BY <1>1, <1>3 DEF TypeOK
<1> QED BY <1>1, <1>5, <1>7, <1>8, <1>9, <1>10, ReaderKeeps

\* Storing a fetched snapshot keeps the invariant.
LEMMA WriteSnapshotKeeps == ASSUME BridgeInv, WriteSnapshot PROVE BridgeInv'
<1> USE DEF BridgeInv, actions
<1> DEFINE s == Min(fetched)
<1>1. /\ fetched' = fetched \ {s}
      /\ list' = IF kind[s] = "dust" THEN list ELSE list \cup {s}
      /\ UNCHANGED <<kind, actions, network, checkpoint, pairs, aged, upto, handler, payer, paid, faults>>
  BY DEF WriteSnapshot
<1>2. s \in fetched
  <2>1. fetched \subseteq Nat /\ fetched # {}
    BY DEF WriteSnapshot, TypeOK
  <2> QED BY <2>1, MinFact
<1> HIDE DEF s
<1>3. list' \subseteq 1 .. network' /\ fetched' \subseteq 1 .. network' /\ list \subseteq list'
  BY <1>1, <1>2 DEF TypeOK
<1>4. \A t \in Snaps : Mine(t) /\ t \in fetched \cup list => t \in fetched' \cup list'
  BY <1>1 DEF Mine
<1>5. ReaderInv' /\ NothingLost'
  BY <1>1, <1>3, <1>4 DEF ReaderInv, NothingLost, Mine
<1>6. network' \in network .. MaxSnaps /\ checkpoint' \in 0 .. network' /\ upto' \in -1 .. network'
  BY <1>1, NumbersAssumption DEF TypeOK
<1> QED BY <1>1, <1>3, <1>5, <1>6, ReaderKeeps

\* Writing the checkpoint keeps the invariant: all that was fetched is stored.
LEMMA WriteCheckpointKeeps == ASSUME BridgeInv, WriteCheckpoint PROVE BridgeInv'
<1> USE DEF BridgeInv, actions
<1>1. /\ upto # -1 /\ fetched = {} /\ checkpoint' = upto /\ upto' = -1
      /\ UNCHANGED <<kind, actions, network, list, pairs, aged, fetched, handler, payer, paid, faults>>
  BY DEF WriteCheckpoint
<1>2. network \in Nat /\ network' \in network .. MaxSnaps /\ checkpoint' \in 0 .. network' /\ upto' \in -1 .. network'
  BY <1>1, NumbersAssumption DEF TypeOK
<1>3. NothingLost'
  BY <1>1 DEF NothingLost, ReaderInv, Mine
<1>4. ReaderInv'
  BY <1>1, NumbersAssumption DEF ReaderInv, Snaps
<1> QED BY <1>1, <1>2, <1>3, <1>4, ReaderKeeps DEF TypeOK

\* What a step of processSnapshots has to show to keep the invariant.
LEMMA HandlerKeeps ==
  ASSUME BridgeInv, UNCHANGED <<kind, unwritten, network, checkpoint, list, reader, payer>>,
         pairs' \in [Pairs -> Withdrawal], \A p \in Pairs : HalvesOf(pairs'[p]), aged' \subseteq Pairs,
         work' \subseteq Snaps, todo' \subseteq work', step' \in {"next", "pass", "submit"},
         seen' \in Withdrawal, HalvesOf(seen'),
         paid' \in [Snaps -> SUBSET Ways], \A s \in Snaps : paid[s] \subseteq paid'[s],
         early' \subseteq Snaps, failed' \subseteq Snaps, errors' \in 0 .. MaxErrors,
         HandlerInv', PaidInv', WorkInv'
  PROVE  BridgeInv'
<1> USE DEF BridgeInv, actions, reader, payer
<1>1. TypeOK'
  BY DEF TypeOK
<1>2. HalvesInv'
  BY DEF HalvesInv, HalvesOf
<1>3. ReaderInv' /\ NothingLost'
  BY DEF ReaderInv, NothingLost, Mine
<1> QED BY <1>1, <1>2, <1>3

\* Snapshot s is handled: it may be deleted if it is a half of a withdrawal or of
\* nobody, or is paid by now.
LEMMA HandledKeeps ==
  ASSUME BridgeInv, NEW s, todo # {}, s = Min(todo), HandledNow(s),
         UNCHANGED <<kind, actions, network, checkpoint, list, reader, payer>>,
         pairs' \in [Pairs -> Withdrawal], \A p \in Pairs : HalvesOf(pairs'[p]), aged' \subseteq Pairs,
         paid' \in [Snaps -> SUBSET Ways], \A t \in Snaps : paid[t] \subseteq paid'[t],
         failed' = failed, errors' \in 0 .. MaxErrors,
         PaidInv', Mine(s) => paid'[s] # {}
  PROVE  BridgeInv'
<1> USE DEF BridgeInv, actions
<1>1. s \in todo /\ s \in Snaps
  BY FirstTodo
<1>2. /\ todo' = todo \ {s} /\ step' = "next" /\ seen' = NoWithdrawal /\ work' = work
      /\ todo' \subseteq work' /\ work' \subseteq Snaps
  BY DEF HandledNow, TypeOK
<1>3. NoWithdrawal \in Withdrawal /\ HalvesOf(NoWithdrawal)
  BY NumbersAssumption DEF Withdrawal, NoWithdrawal, HalvesOf
<1>4. HandlerInv'
  BY <1>2 DEF HandlerInv
<1>5. WorkInv'
  <2>1. ASSUME NEW t \in work' \ todo', Mine(t) PROVE paid'[t] # {}
    BY <1>1, <1>2, <2>1 DEF WorkInv
  <2> QED BY <2>1 DEF WorkInv, Mine
<1> QED BY <1>2, <1>3, <1>4, <1>5, HandlerKeeps DEF TypeOK

\* The handler comes to pass snapshot s, or to write its withdrawal.
LEMMA StepKeeps ==
  ASSUME BridgeInv, NEW s, todo # {}, s = Min(todo), UNCHANGED <<work, todo>>,
         UNCHANGED <<kind, unwritten, network, checkpoint, list, pairs, aged, reader, payer>>,
         step' \in {"pass", "submit"},
         step' = "submit" => kind[s] \in {"asset", "fee"},
         step' = "pass" /\ kind[s] = "transfer" => s \in failed' \cup early',
         seen' \in Withdrawal, HalvesOf(seen'),
         paid' \in [Snaps -> SUBSET Ways], \A t \in Snaps : paid[t] \subseteq paid'[t],
         early' \subseteq Snaps, failed' \subseteq Snaps, errors' \in 0 .. MaxErrors, PaidInv'
  PROVE  BridgeInv'
<1> USE DEF BridgeInv, actions
<1>1. HandlerInv'
  BY DEF HandlerInv
<1>2. WorkInv'
  <2>1. \A t \in work \ todo : t \in Snaps
    BY DEF TypeOK
  <2> QED BY <2>1 DEF WorkInv, Mine
<1>3. \A p \in Pairs : HalvesOf(pairs'[p])
  BY DEF HalvesInv
<1> QED BY <1>1, <1>2, <1>3, HandlerKeeps DEF TypeOK

\* A refused payment leaves everything as it was but the errors.
LEMMA RefusedFact ==
  ASSUME TypeOK, NEW poor \in BOOLEAN, Refused(poor)
  PROVE  UNCHANGED paid /\ errors' \in 0 .. MaxErrors
BY NumbersAssumption DEF TypeOK, Refused

\* A lost answer is one of the errors there may be.
LEMMA LostFact ==
  ASSUME TypeOK, AnswerLost
  PROVE  errors' \in 0 .. MaxErrors
BY NumbersAssumption DEF TypeOK, AnswerLost

\* Transfer keeps the invariant, paid or failed.
LEMMA TransferKeeps ==
  ASSUME BridgeInv, NEW s \in Snaps, Transfer(s)
  PROVE  BridgeInv'
<1> USE DEF BridgeInv, actions
<1>1. /\ todo # {} /\ s = Min(todo) /\ kind[s] = "transfer"
      /\ UNCHANGED <<kind, actions, network, checkpoint, list, pairs, aged, reader, payer>>
  BY DEF Transfer, HandleNext, Decoded
<1>2. \A p \in Pairs : HalvesOf(pairs'[p])
  BY <1>1 DEF HalvesInv
<1>3. "transfer" \in Ways
  BY DEF Ways
<1>4. CASE Pays(s, "transfer") /\ HandledNow(s) /\ UNCHANGED <<failed, errors>>
  <2>1. /\ paid' \in [Snaps -> SUBSET Ways]
        /\ \A t \in Snaps : paid'[t] = IF t = s THEN paid[t] \cup {"transfer"} ELSE paid[t]
        /\ \A t \in Snaps : paid[t] \subseteq paid'[t]
    BY <1>3, <1>4, PaysFact
  <2>2. PaidInv'
    BY <1>1, <1>4, <2>1 DEF PaidInv
  <2> QED BY <1>1, <1>2, <1>4, <2>1, <2>2, HandledKeeps DEF TypeOK
<1>5. CASE /\ Refused(~ CanPay(s, "transfer")) \/ (Pays(s, "transfer") /\ AnswerLost)
           /\ failed' = failed \cup {s} /\ PassOn
  <2>1. errors' \in 0 .. MaxErrors
    BY <1>5, RefusedFact, LostFact
  <2>2. /\ paid' \in [Snaps -> SUBSET Ways]
        /\ \A t \in Snaps : paid[t] \subseteq paid'[t]
        /\ \A t \in Snaps : t # s => paid'[t] = paid[t]
    <3>1. CASE Pays(s, "transfer")
      BY <1>3, <3>1, PaysFact
    <3>2. CASE Refused(~ CanPay(s, "transfer"))
      BY <3>2, RefusedFact DEF TypeOK
    <3> QED BY <1>5, <3>1, <3>2
  <2>3. PaidInv'
    BY <1>1, <1>5, <2>2 DEF PaidInv
  <2>4. UNCHANGED <<work, todo, seen>> /\ step' = "pass" /\ s \in failed' /\ failed' \subseteq Snaps
    BY <1>5 DEF PassOn, TypeOK
  <2> QED BY <1>1, <2>1, <2>2, <2>3, <2>4, StepKeeps DEF TypeOK, HalvesInv
<1> QED BY <1>4, <1>5 DEF Transfer

\* Pass keeps the invariant.
LEMMA PassKeeps ==
  ASSUME BridgeInv, NEW s \in Snaps, Pass(s)
  PROVE  BridgeInv'
<1> USE DEF BridgeInv, actions
<1>1. /\ todo # {} /\ s = Min(todo) /\ step = "pass"
      /\ UNCHANGED <<kind, actions, network, checkpoint, list, pairs, aged, failed>>
  BY DEF Pass
<1>2. kind[s] = "transfer" => s \in failed \cup early
  BY <1>1 DEF HandlerInv
<1>3. "pass" \in Ways
  BY DEF Ways
<1>4. ASSUME Pays(s, "pass")
      PROVE  /\ paid' \in [Snaps -> SUBSET Ways]
             /\ \A t \in Snaps : paid[t] \subseteq paid'[t]
             /\ paid'[s] # {}
             /\ PaidInv'
  <2>1. /\ paid' \in [Snaps -> SUBSET Ways]
        /\ \A t \in Snaps : paid'[t] = IF t = s THEN paid[t] \cup {"pass"} ELSE paid[t]
        /\ \A t \in Snaps : paid[t] \subseteq paid'[t]
    BY <1>3, <1>4, PaysFact
  <2>2. PaidInv'
    BY <1>1, <1>2, <2>1 DEF PaidInv
  <2> QED BY <2>1, <2>2
<1>5. CASE Pays(s, "pass") /\ HandledNow(s) /\ UNCHANGED <<errors, reader, payer>>
  <2>1. \A p \in Pairs : HalvesOf(pairs'[p])
    BY <1>1 DEF HalvesInv
  <2> QED BY <1>1, <1>4, <1>5, <2>1, HandledKeeps DEF TypeOK
<1>6. CASE Refused(~ CanPay(s, "pass")) /\ Stopped
  <2>1. UNCHANGED paid /\ errors' \in 0 .. MaxErrors
    BY <1>6, RefusedFact
  <2>2. PaidInv'
    BY <1>1, <2>1 DEF PaidInv
  <2> QED BY <1>1, <1>6, <2>1, <2>2, StoppedKeeps DEF TypeOK
<1>7. CASE Pays(s, "pass") /\ AnswerLost /\ Stopped
  BY <1>1, <1>4, <1>7, LostFact, StoppedKeeps
<1> QED BY <1>5, <1>6, <1>7 DEF Pass

\* submit stores a half under the kind it has.
LEMMA WithFact ==
  ASSUME TypeOK, NEW s \in Snaps, kind[s] \in {"asset", "fee"},
         NEW w \in Withdrawal, HalvesOf(w)
  PROVE  With(w, s) \in Withdrawal /\ HalvesOf(With(w, s))
<1>1. s \in 0 .. MaxSnaps
  BY NumbersAssumption DEF Snaps
<1>2. CASE kind[s] = "asset"
  <2>1. With(w, s) = [asset |-> s, fee |-> w.fee]
    BY <1>2 DEF With, Withdrawal
  <2> QED BY <1>1, <1>2, <2>1 DEF Withdrawal, HalvesOf
<1>3. CASE kind[s] = "fee"
  <2>1. With(w, s) = [asset |-> w.asset, fee |-> s]
    BY <1>3 DEF With, Withdrawal
  <2> QED BY <1>1, <1>3, <2>1 DEF Withdrawal, HalvesOf
<1> QED BY <1>2, <1>3

\* Storing a half of a withdrawal keeps the invariant.
LEMMA WriteWithdrawalKeeps ==
  ASSUME BridgeInv, NEW s \in Snaps, WriteWithdrawal(s)
  PROVE  BridgeInv'
<1> USE DEF BridgeInv, actions
<1>1. /\ todo # {} /\ s = Min(todo) /\ step = "submit"
      /\ UNCHANGED <<kind, actions, network, checkpoint, list, reader, payer, paid, faults>>
  BY DEF WriteWithdrawal
<1>2. kind[s] \in {"asset", "fee"} /\ ~ Mine(s)
  BY <1>1 DEF HandlerInv, Mine
<1>3. Pair[s] \in Pairs
  BY DEF Pairs
<1>4. With(seen, s) \in Withdrawal /\ HalvesOf(With(seen, s))
  BY <1>2, WithFact DEF TypeOK, HalvesInv
<1>5. UNCHANGED <<failed, errors>> /\ PaidInv'
  BY <1>1 DEF PaidInv, faults
<1>6. CASE /\ pairs' = [pairs EXCEPT ![Pair[s]] = With(seen, s)]
           /\ aged' = IF seen = NoWithdrawal THEN aged \ {Pair[s]} ELSE aged
           /\ HandledNow(s)
  <2>1. pairs' \in [Pairs -> Withdrawal] /\ aged' \subseteq Pairs
    BY <1>3, <1>4, <1>6 DEF TypeOK
  <2>2. \A p \in Pairs : HalvesOf(pairs'[p])
    BY <1>3, <1>4, <1>6 DEF TypeOK, HalvesInv
  <2> QED BY <1>1, <1>2, <1>5, <1>6, <2>1, <2>2, HandledKeeps DEF TypeOK
<1>7. CASE step' = "pass" /\ UNCHANGED <<work, todo, seen, pairs, aged>>
  BY <1>1, <1>2, <1>5, <1>7, StepKeeps DEF TypeOK, HalvesInv
<1> QED BY <1>6, <1>7 DEF WriteWithdrawal

\* The other steps of processSnapshots.
LEMMA HandlingKeeps ==
  ASSUME BridgeInv, NEW s \in Snaps, Handling(s)
  PROVE  BridgeInv'
<1> USE DEF BridgeInv, actions
<1>1. CASE SkipStranger(s)
  <2>1. /\ todo # {} /\ s = Min(todo) /\ kind[s] = "stranger" /\ HandledNow(s)
        /\ UNCHANGED <<kind, actions, network, checkpoint, list, pairs, aged, reader, payer, paid, faults>>
    BY <1>1 DEF SkipStranger, HandleNext, Decoded
  <2>2. \A p \in Pairs : HalvesOf(pairs'[p])
    BY <2>1 DEF HalvesInv
  <2>3. UNCHANGED <<failed, errors>> /\ PaidInv' /\ ~ Mine(s)
    BY <2>1 DEF PaidInv, faults, Mine
  <2> QED BY <2>1, <2>2, <2>3, HandledKeeps DEF TypeOK
<1>2. CASE VerifyDestination(s)
  <2>1. Stopped /\ UNCHANGED <<kind, actions, network, checkpoint, list, pairs, aged, paid, failed, errors>>
    BY <1>2 DEF VerifyDestination, faults
  <2>2. PaidInv'
    BY <2>1 DEF PaidInv
  <2> QED BY <2>1, <2>2, StoppedKeeps DEF TypeOK
<1>3. CASE PlainSnapshot(s)
  <2>1. /\ todo # {} /\ s = Min(todo) /\ step' = "pass"
        /\ early' = early \cup ({s} \cap unwritten)
        /\ UNCHANGED <<work, todo, seen, failed, errors>>
        /\ UNCHANGED <<kind, unwritten, network, checkpoint, list, pairs, aged, reader, payer, paid>>
    BY <1>3 DEF PlainSnapshot, HandleNext, PassOn, faults
  <2>2. early \subseteq early' /\ early' \subseteq Snaps
    BY <2>1 DEF TypeOK
  <2>3. kind[s] = "transfer" => s \in early'
    BY <1>3, <2>1 DEF PlainSnapshot, Decoded
  <2>4. PaidInv'
    BY <2>1, <2>2 DEF PaidInv
  <2> QED BY <2>1, <2>2, <2>3, <2>4, StepKeeps DEF TypeOK, HalvesInv
<1>4. CASE ReadWithdrawal(s)
  <2>1. /\ todo # {} /\ s = Min(todo) /\ kind[s] \in {"asset", "fee"} /\ step' \in {"pass", "submit"}
        /\ seen' = pairs[Pair[s]] /\ UNCHANGED <<work, todo, failed, errors>>
        /\ UNCHANGED <<kind, actions, network, checkpoint, list, pairs, aged, reader, payer, paid>>
    BY <1>4 DEF ReadWithdrawal, HandleNext, Decoded, faults
  <2>2. PaidInv'
    BY <2>1 DEF PaidInv
  <2>3. seen' \in Withdrawal /\ HalvesOf(seen')
    BY <2>1 DEF TypeOK, HalvesInv, Pairs
  <2> QED BY <2>1, <2>2, <2>3, StepKeeps DEF TypeOK
<1> QED BY <1>1, <1>2, <1>3, <1>4, TransferKeeps, PassKeeps, WriteWithdrawalKeeps DEF Handling

\* Listing the stored snapshots keeps the invariant.
LEMMA ListSnapshotsKeeps == ASSUME BridgeInv, ListSnapshots PROVE BridgeInv'
<1> USE DEF BridgeInv, actions
<1>1. /\ work = {} /\ work' = FirstOf(list) /\ todo' = work'
      /\ UNCHANGED <<kind, actions, network, checkpoint, list, pairs, aged, step, seen, reader, payer, paid, failed, errors>>
  BY DEF ListSnapshots, faults
<1>2. work' \subseteq Snaps /\ todo' \subseteq work'
  <2>1. work' \subseteq list /\ list \subseteq 1 .. network
    BY <1>1 DEF FirstOf, TypeOK
  <2>2. 1 .. network \subseteq Snaps
    BY NumbersAssumption DEF TypeOK, Snaps
  <2> QED BY <1>1, <2>1, <2>2
<1>3. step = "next"
  BY <1>1 DEF HandlerInv, TypeOK
<1>4. HandlerInv' /\ WorkInv' /\ PaidInv'
  BY <1>1, <1>3 DEF HandlerInv, WorkInv, PaidInv
<1>5. \A p \in Pairs : HalvesOf(pairs'[p])
  BY <1>1 DEF HalvesInv
<1> QED BY <1>1, <1>2, <1>4, <1>5, HandlerKeeps DEF TypeOK, HalvesInv

\* The snapshots that are deleted from the list are paid, or not to be paid alone.
LEMMA DeleteSnapshotsKeeps == ASSUME BridgeInv, DeleteSnapshots PROVE BridgeInv'
<1> USE DEF BridgeInv, actions
<1>1. /\ todo = {} /\ list' = list \ work /\ work' = {}
      /\ UNCHANGED <<kind, actions, network, checkpoint, pairs, aged, todo, step, seen, reader, payer, paid, failed, errors>>
  BY DEF DeleteSnapshots, faults
<1>2. \A s \in Snaps : s \in list /\ Mine(s) => s \in list' \/ paid[s] # {}
  BY <1>1 DEF WorkInv
<1>3. TypeOK'
  BY <1>1 DEF TypeOK, reader, payer
<1>4. HalvesInv' /\ HandlerInv'
  BY <1>1 DEF HalvesInv, HalvesOf, HandlerInv, payer
<1>5. PaidInv' /\ WorkInv'
  BY <1>1 DEF PaidInv, WorkInv
<1>6. ReaderInv'
  BY <1>1, <1>2 DEF ReaderInv, Mine, reader
<1>7. NothingLost'
  BY <1>1, <1>2 DEF NothingLost, Mine
<1> QED BY <1>3, <1>4, <1>5, <1>6, <1>7

-----------------------------------------------------------------------------
(* processWithdrawals *)

\* It pays halves of withdrawals only.
LEMMA PayerKeeps ==
  ASSUME BridgeInv, UNCHANGED <<kind, actions, network, checkpoint, list, reader, handler, failed>>,
         pairs' \in [Pairs -> Withdrawal], \A p \in Pairs : HalvesOf(pairs'[p]), aged' \subseteq Pairs,
         listed' \in [Pairs -> Withdrawal], \A p \in Pairs : HalvesOf(listed'[p]),
         wtodo' \subseteq Pairs, wstep' \in {"next", "asset", "fee"},
         paid' \in [Snaps -> SUBSET Ways], \A s \in Snaps : paid[s] \subseteq paid'[s],
         \A s \in Snaps : Mine(s) => paid'[s] = paid[s],
         errors' \in 0 .. MaxErrors
  PROVE  BridgeInv'
<1> USE DEF BridgeInv, actions, reader, handler
<1>1. TypeOK'
  BY DEF TypeOK
<1>2. HalvesInv' /\ HandlerInv'
  BY DEF HalvesInv, HalvesOf, HandlerInv
<1>3. PaidInv'
  BY DEF PaidInv, Mine
<1>4. WorkInv' /\ ReaderInv' /\ NothingLost'
  <2>1. \A s \in work : s \in Snaps
    BY DEF TypeOK
  <2> QED BY <2>1 DEF WorkInv, ReaderInv, NothingLost, Mine
<1> QED BY <1>1, <1>2, <1>3, <1>4

\* the state of the loop after its part of an action
LEMMA PayerStep ==
  ASSUME BridgeInv, NEW p, InHand(p), ProcessedNow(p) \/ PassBack(p) \/ NextHalf(p)
  PROVE  /\ listed' \in [Pairs -> Withdrawal] /\ \A q \in Pairs : HalvesOf(listed'[q])
         /\ wtodo' \subseteq Pairs /\ wstep' \in {"next", "asset", "fee"}
BY DEF BridgeInv, TypeOK, HalvesInv, ProcessedNow, PassBack, NextHalf

\* Withdraw keeps the invariant.
LEMMA WithdrawKeeps ==
  ASSUME BridgeInv, NEW p, Withdraw(p)
  PROVE  BridgeInv'
<1> USE DEF BridgeInv, actions
<1> DEFINE w == listed[p]
<1>1. /\ InHand(p) /\ Complete(w)
      /\ UNCHANGED <<kind, actions, network, checkpoint, list, pairs, aged, reader, handler, failed>>
      /\ ProcessedNow(p) \/ PassBack(p)
  BY DEF Withdraw
<1>2. p \in Pairs
  BY <1>1, FirstWithdrawal
<1>3. w.asset \in Snaps /\ w.fee \in Snaps /\ kind[w.asset] = "asset" /\ kind[w.fee] = "fee"
  <2>1. w \in Withdrawal /\ HalvesOf(w)
    BY <1>2 DEF TypeOK, HalvesInv
  <2> QED BY <1>1, <2>1, NumbersAssumption DEF Withdrawal, HalvesOf, Complete, Snaps
<1> HIDE DEF w
<1>4. \A q \in Pairs : HalvesOf(pairs'[q])
  BY <1>1 DEF HalvesInv
<1>5. ASSUME PaysWithdrawal(w)
      PROVE  /\ paid' \in [Snaps -> SUBSET Ways]
             /\ \A s \in Snaps : paid[s] \subseteq paid'[s]
             /\ \A s \in Snaps : Mine(s) => paid'[s] = paid[s]
  <2>1. paid' = [paid EXCEPT ![w.asset] = @ \cup {"withdraw"}, ![w.fee] = @ \cup {"fee"}]
    BY <1>5 DEF PaysWithdrawal
  <2>2. {"withdraw", "fee"} \subseteq Ways
    BY DEF Ways
  <2> QED BY <1>3, <2>1, <2>2 DEF TypeOK, Mine
<1>6. CASE PaysWithdrawal(w)
  <2>1. errors' \in 0 .. MaxErrors
    <3>1. CASE UNCHANGED errors
      BY <3>1 DEF TypeOK
    <3>2. CASE AnswerLost
      BY <3>2, LostFact
    <3>3. CASE Refused(~ CanWithdraw(w))
      BY <3>3, RefusedFact
    <3> QED BY <3>1, <3>2, <3>3 DEF Withdraw, w
  <2> QED BY <1>1, <1>4, <1>5, <1>6, <2>1, PayerStep, PayerKeeps DEF TypeOK
<1>7. CASE Refused(~ CanWithdraw(w))
  <2>1. UNCHANGED paid /\ errors' \in 0 .. MaxErrors
    BY <1>7, RefusedFact
  <2> QED BY <1>1, <1>4, <2>1, PayerStep, PayerKeeps DEF TypeOK
<1> QED BY <1>6, <1>7 DEF Withdraw, w

\* Passing a half back keeps the invariant.
LEMMA PassHalfKeeps ==
  ASSUME BridgeInv, NEW p, PassHalf(p)
  PROVE  BridgeInv'
<1> USE DEF BridgeInv, actions
<1> DEFINE h == Half(p)
<1>1. /\ InHand(p) /\ wstep # "next"
      /\ UNCHANGED <<kind, actions, network, checkpoint, list, pairs, aged, failed>>
  BY DEF PassHalf
<1>2. p \in Pairs
  BY <1>1, FirstWithdrawal
<1>3. h = 0 \/ (h \in Snaps /\ ~ Mine(h))
  <2>1. listed[p] \in Withdrawal /\ HalvesOf(listed[p])
    BY <1>2 DEF TypeOK, HalvesInv
  <2>2. /\ listed[p].asset = 0 \/ (listed[p].asset \in Snaps /\ kind[listed[p].asset] = "asset")
        /\ listed[p].fee = 0 \/ (listed[p].fee \in Snaps /\ kind[listed[p].fee] = "fee")
    BY <2>1, NumbersAssumption DEF Withdrawal, HalvesOf, Snaps
  <2> QED BY <2>2 DEF Half, Mine
<1> HIDE DEF h
<1>4. \A q \in Pairs : HalvesOf(pairs'[q])
  BY <1>1 DEF HalvesInv
<1>5. ASSUME h # 0, Pays(h, "pass")
      PROVE  /\ paid' \in [Snaps -> SUBSET Ways]
             /\ \A s \in Snaps : paid[s] \subseteq paid'[s]
             /\ \A s \in Snaps : Mine(s) => paid'[s] = paid[s]
             /\ PaidInv'
  <2>1. /\ paid' \in [Snaps -> SUBSET Ways]
        /\ \A t \in Snaps : paid'[t] = IF t = h THEN paid[t] \cup {"pass"} ELSE paid[t]
        /\ \A t \in Snaps : paid[t] \subseteq paid'[t]
    <3>1. "pass" \in Ways
      BY DEF Ways
    <3> QED BY <1>3, <1>5, <3>1, PaysFact
  <2>2. PaidInv'
    BY <1>1, <1>3, <1>5, <2>1 DEF PaidInv, Mine
  <2> QED BY <1>3, <1>5, <2>1, <2>2
<1>6. CASE h = 0 /\ NextHalf(p) /\ UNCHANGED <<paid, errors, reader, handler>>
  BY <1>1, <1>4, <1>6, PayerStep, PayerKeeps DEF TypeOK
<1>7. CASE h # 0 /\ Pays(h, "pass") /\ NextHalf(p) /\ UNCHANGED <<errors, reader, handler>>
  BY <1>1, <1>4, <1>5, <1>7, PayerStep, PayerKeeps DEF TypeOK
<1>8. CASE Refused(~ CanPay(h, "pass")) /\ Stopped
  <2>1. UNCHANGED paid /\ errors' \in 0 .. MaxErrors
    BY <1>8, RefusedFact
  <2>2. PaidInv'
    BY <1>1, <2>1 DEF PaidInv
  <2> QED BY <1>1, <1>8, <2>1, <2>2, StoppedKeeps DEF TypeOK
<1>9. CASE h # 0 /\ Pays(h, "pass") /\ AnswerLost /\ Stopped
  BY <1>1, <1>5, <1>9, LostFact, StoppedKeeps
<1> QED BY <1>6, <1>7, <1>8, <1>9 DEF PassHalf, h

\* The steps of processWithdrawals keep the invariant.
LEMMA ProcessingKeeps ==
  ASSUME BridgeInv, NEW p \in Pairs, Processing(p)
  PROVE  BridgeInv'
<1> USE DEF BridgeInv, actions
<1>1. CASE SkipIncomplete(p) \/ ExpireWithdrawal(p)
  <2>1. /\ InHand(p) /\ (ProcessedNow(p) \/ PassBack(p))
        /\ UNCHANGED <<kind, actions, network, checkpoint, list, pairs, aged, reader, handler, paid, failed, errors>>
    BY <1>1 DEF SkipIncomplete, ExpireWithdrawal, faults
  <2>2. \A q \in Pairs : HalvesOf(pairs'[q])
    BY <2>1 DEF HalvesInv
  <2> QED BY <2>1, <2>2, PayerStep, PayerKeeps DEF TypeOK
<1> QED BY <1>1, WithdrawKeeps, PassHalfKeeps DEF Processing

\* The list of withdrawals, and its deletion.
LEMMA ListKeeps ==
  ASSUME BridgeInv, ListWithdrawals \/ DeleteWithdrawals
  PROVE  BridgeInv'
<1> USE DEF BridgeInv, actions
<1>1. NoWithdrawal \in Withdrawal /\ HalvesOf(NoWithdrawal)
  BY NumbersAssumption DEF Withdrawal, NoWithdrawal, HalvesOf
<1>2. NoList \in [Pairs -> Withdrawal] /\ \A p \in Pairs : NoList[p] = NoWithdrawal
  BY <1>1 DEF NoList
<1>3. CASE ListWithdrawals
  <2>1. /\ listed' = pairs /\ wtodo' = Stored
        /\ UNCHANGED <<kind, actions, network, checkpoint, list, pairs, aged, wstep, reader, handler, paid, failed, errors>>
    BY <1>3 DEF ListWithdrawals, faults
  <2>2. \A q \in Pairs : HalvesOf(pairs'[q]) /\ HalvesOf(listed'[q])
    BY <2>1 DEF HalvesInv
  <2>3. wtodo' \subseteq Pairs /\ wstep' \in {"next", "asset", "fee"}
    BY <2>1 DEF Stored, TypeOK
  <2> QED BY <2>1, <2>2, <2>3, PayerKeeps DEF TypeOK
<1>4. CASE DeleteWithdrawals
  <2>1. /\ pairs' = [p \in Pairs |-> IF listed[p] # NoWithdrawal THEN NoWithdrawal ELSE pairs[p]]
        /\ listed' = NoList
        /\ UNCHANGED <<kind, actions, network, checkpoint, list, aged, wtodo, wstep, reader, handler, paid, failed, errors>>
    BY <1>4 DEF DeleteWithdrawals, faults
  <2>2. \A q \in Pairs : HalvesOf(pairs'[q]) /\ HalvesOf(listed'[q])
    BY <1>1, <1>2, <2>1 DEF HalvesInv
  <2>3. pairs' \in [Pairs -> Withdrawal]
    BY <1>1, <2>1 DEF TypeOK
  <2>4. listed' \in [Pairs -> Withdrawal]
    BY <1>2, <2>1
  <2> QED BY <2>1, <2>2, <2>3, <2>4, PayerKeeps DEF TypeOK
<1> QED BY <1>3, <1>4

-----------------------------------------------------------------------------
\* The invariant holds at the start.
LEMMA BridgeInit == ASSUME Init PROVE BridgeInv
<1>1. NoWithdrawal \in Withdrawal /\ HalvesOf(NoWithdrawal)
  BY NumbersAssumption DEF Withdrawal, NoWithdrawal, HalvesOf
<1>2. NoList \in [Pairs -> Withdrawal] /\ \A p \in Pairs : NoList[p] = NoWithdrawal
  BY <1>1 DEF NoList
<1>3. kind \in [Snaps -> KindNames]
  BY SnapsAssumption DEF Init
<1>4. paid \in [Snaps -> SUBSET Ways]
  BY DEF Init
<1>5. network \in 0 .. MaxSnaps /\ checkpoint \in 0 .. network /\ upto \in -1 .. network /\ errors \in 0 .. MaxErrors
  BY NumbersAssumption DEF Init
<1>6. TypeOK
  <2>1. unwritten \subseteq Snaps /\ early \subseteq Snaps
    BY SnapsAssumption DEF Init
  <2> QED BY <1>1, <1>2, <1>3, <1>4, <1>5, <2>1 DEF Init, TypeOK
<1>7. HalvesInv
  BY <1>1, <1>2 DEF Init, HalvesInv
<1>8. HandlerInv /\ WorkInv /\ PaidInv
  BY DEF Init, HandlerInv, WorkInv, PaidInv
<1>9. \A s \in Snaps : ~ (s <= upto) /\ ~ (s <= checkpoint)
  BY NumbersAssumption DEF Init, Snaps
<1> QED BY <1>6, <1>7, <1>8, <1>9 DEF BridgeInv, ReaderInv, NothingLost

\* Every step keeps the invariant.
LEMMA BridgeStep == ASSUME BridgeInv, [Next]_vars PROVE BridgeInv'
<1>0. CASE \E s \in Snaps : StorageWritten(s)
  <2>1. /\ unwritten' \subseteq unwritten
        /\ UNCHANGED <<kind, early, network, checkpoint, list, pairs, aged, reader, handler, payer, paid, faults>>
    BY <1>0 DEF StorageWritten
  <2> USE <2>1 DEF reader, handler, payer, faults, BridgeInv
  <2>2. TypeOK' /\ HalvesInv'
    BY DEF TypeOK, HalvesInv, HalvesOf
  <2>3. HandlerInv' /\ PaidInv' /\ WorkInv'
    BY DEF HandlerInv, PaidInv, WorkInv, Mine
  <2>4. ReaderInv' /\ NothingLost'
    BY DEF ReaderInv, NothingLost, Mine
  <2> QED BY <2>2, <2>3, <2>4
<1>1. CASE \E p \in Pairs : TimePasses(p)
  <2>1. /\ aged' \subseteq Pairs
        /\ UNCHANGED <<kind, actions, network, checkpoint, list, pairs, reader, handler, listed, wtodo, wstep, paid, failed, errors>>
    BY <1>1 DEF TimePasses, BridgeInv, TypeOK, payer, faults
  <2>2. \A q \in Pairs : HalvesOf(pairs'[q]) /\ HalvesOf(listed'[q])
    BY <2>1 DEF BridgeInv, HalvesInv
  <2> QED BY <2>1, <2>2, PayerKeeps DEF BridgeInv, TypeOK
<1>2. CASE Crash
  <2>1. Stopped /\ UNCHANGED <<kind, actions, network, checkpoint, list, pairs, aged, paid, failed>>
    BY <1>2 DEF Crash
  <2>2. errors' \in 0 .. MaxErrors
    BY <1>2, NumbersAssumption DEF Crash, BridgeInv, TypeOK
  <2>3. PaidInv'
    BY <2>1 DEF BridgeInv, PaidInv, actions
  <2> QED BY <2>1, <2>2, <2>3, StoppedKeeps DEF BridgeInv, TypeOK
<1>3. CASE UNCHANGED vars
  <2> USE <1>3 DEF vars, actions, reader, handler, payer, faults, BridgeInv
  <2>1. TypeOK' /\ HalvesInv'
    BY DEF TypeOK, HalvesInv, HalvesOf
  <2>2. HandlerInv' /\ PaidInv' /\ WorkInv'
    BY DEF HandlerInv, PaidInv, WorkInv, Mine
  <2>3. ReaderInv' /\ NothingLost'
    BY DEF ReaderInv, NothingLost, Mine
  <2> QED BY <2>1, <2>2, <2>3
<1> QED
  BY <1>0, <1>1, <1>2, <1>3, ReceiveKeeps, ReadKeeps, WriteSnapshotKeeps, WriteCheckpointKeeps,
     ListSnapshotsKeeps, HandlingKeeps, DeleteSnapshotsKeeps, ListKeeps, ProcessingKeeps DEF Next

\* The invariant of the bridge, with its three loops, holds in every behaviour of it.
THEOREM BridgeInvariant == Spec => []BridgeInv
BY BridgeInit, BridgeStep, PTL DEF Spec

\* The types of the bridge's state.
THEOREM BridgeTypes == Spec => []TypeOK
<1>1. BridgeInv => TypeOK
  BY DEF BridgeInv
<1> QED BY <1>1, BridgeInvariant, PTL

\* However often a snapshot is read, listed and handled, and wherever the program
\* panics or stops, it is paid in one way only as long as its transfer has not
\* failed and was in the Storage contract whenever decodeAction looked: what is passed
\* is no transfer, and the network repeats no trace id.
THEOREM PaidAtMostOnceHolds == Spec => []PaidAtMostOnce
<1>1. BridgeInv => PaidAtMostOnce
  <2> SUFFICES ASSUME BridgeInv, NEW s \in Snaps, Mine(s), s \notin failed \cup early
               PROVE  ~ (Cardinality(paid[s]) > 1)
    BY DEF PaidAtMostOnce
  <2>1. paid[s] \subseteq {"pass"} \/ paid[s] \subseteq {"transfer"}
    BY DEF BridgeInv, PaidInv, Mine
  <2>2. \E way : paid[s] = {} \/ paid[s] = {way}
    BY <2>1
  <2>3. Cardinality(paid[s]) \in {0, 1}
    BY <2>2, FS_EmptySet, FS_Singleton
  <2> QED BY <2>3
<1> QED BY <1>1, BridgeInvariant, PTL

\* A snapshot behind the stored checkpoint, which loopSnapshots does not read again,
\* is in the list or paid, whatever the limits of the lists are and wherever the
\* program stopped.
THEOREM NothingLostHolds == Spec => []NothingLost
<1>1. BridgeInv => NothingLost
  BY DEF BridgeInv
<1> QED BY <1>1, BridgeInvariant, PTL

-----------------------------------------------------------------------------
(* The sample group *)

\* The types, as far as TypeOK leaves them open.
SampleTypes ==
  /\ inbox \in [Users -> Nat]
  /\ owner \in [Payments -> Users]
  /\ talk \in [at : {"idle", "store", "answer", "acknowledge"}, user : Users, code : 0 .. MaxPayments]
  /\ hash \in [Payments -> 0 .. MaxPayments]
  /\ raw \in [Payments -> 0 .. MaxPayments]
  /\ refunding \in [at : {"idle", "sign", "save"}, pay : 0 .. MaxPayments, out : 0 .. MaxPayments,
                    hash : 0 .. MaxPayments]

\* A message is in hand as long as the loop works on it.
MailInv ==
  /\ \A u \in Users : unread[u] <= messages
  /\ talk.at # "idle" => inbox[talk.user] > 0

\* A row has a request, and a user one pending row.  The request that waits to be
\* stored is one of a user without such a row, and a code is sent after its row is
\* written.
RowInv ==
  /\ \A c \in Payments : state[c] # "none" => c \in requested
  /\ \A c, d \in Payments :
       state[c] = "pending" /\ state[d] = "pending" /\ owner[c] = owner[d] => c = d
  /\ talk.at = "store" =>
       /\ talk.code \in Payments /\ state[talk.code] = "none"
       /\ owner[talk.code] = talk.user /\ Pending(talk.user) = {}
  /\ talk.at \in {"answer", "acknowledge"} =>
       talk.code \in Payments /\ state[talk.code] # "none"

\* The hash of a payment is that of an output of the same user, and of no other
\* payment.  While refund works on a payment it is paid, and its hash the one that
\* was read; it is no longer in the list.  A payment is closed when the transaction
\* with its hash was sent.  Only an output has a place in the list of the API.
RefundInv ==
  /\ \A o \in Payments : place[o] # 0 => output[o] # "none"
  /\ \A c \in Payments : hash[c] # 0 => owner[hash[c]] = owner[c]
  /\ \A c, d \in Payments : hash[c] # 0 /\ hash[c] = hash[d] => c = d
  /\ refunding.at # "idle" =>
       /\ refunding.pay \in Payments /\ refunding.out \in Payments /\ refunding.pay \notin due
       /\ state[refunding.pay] = "paid" /\ refunding.hash = hash[refunding.pay]
       /\ output[refunding.out] # "none" /\ owner[refunding.out] = owner[refunding.pay]
  /\ \A c \in Payments : state[c] = "refund" => hash[c] # 0 /\ output[hash[c]] = "spent"

SampleInv ==
  /\ SampleTypes
  /\ GroupTypeOK
  /\ MailInv
  /\ RowInv
  /\ RefundInv
  /\ ToldIsStored

\* A user, whichever, is a user.
LEMMA SilentFact ==
  /\ Silent \in [at : {"idle", "store", "answer", "acknowledge"}, user : Users, code : 0 .. MaxPayments]
         /\ Silent.at = "idle" /\ Silent.code = 0
<1>1. (CHOOSE u \in Users : TRUE) \in Users /\ 0 \in 0 .. MaxPayments
  BY GroupAssumption
<1> QED BY <1>1 DEF Silent

\* The value of refunding between two refunds is typed.
LEMMA RestingFact ==
  /\ Resting \in [at : {"idle", "sign", "save"}, pay : 0 .. MaxPayments, out : 0 .. MaxPayments,
                                hash : 0 .. MaxPayments]
         /\ Resting.at = "idle"
BY GroupAssumption DEF Resting, NoTx

\* The invariant holds at the start.
LEMMA SampleInvInit ==
  ASSUME GroupInit
  PROVE  SampleInv
<1> USE GroupAssumption
<1>1. talk = Silent /\ refunding = Resting
  BY DEF GroupInit
<1>2. SampleTypes
  BY <1>1, SilentFact, RestingFact DEF GroupInit, SampleTypes, NoTx
<1>3. unread \in [Users -> 0 .. MaxMessages] /\ \A u \in Users : inbox[u] \in 0 .. unread[u] /\ unread[u] = 0
  BY DEF GroupInit
<1>4. talk.user \in Users /\ talk.code \in {0} \cup requested /\ talk.at = "idle"
  BY <1>1, SilentFact DEF GroupInit
<1>5. DOMAIN queue \subseteq Payments
  BY DEF GroupInit
<1>6. messages = 0 /\ requested = {} /\ told = {} /\ watched = {} /\ due = {} /\ place = [c \in Payments |-> 0] /\ failures = 0
  BY DEF GroupInit
<1>7. \A c \in Payments :
        state[c] = "none" /\ output[c] = "none" /\ signers[c] = {} /\ hash[c] = 0 /\ raw[c] = 0
  BY DEF GroupInit, NoTx
<1>8. /\ state \in [Payments -> {"none", "pending", "paid", "refund"}]
      /\ output \in [Payments -> {"none", "unspent", "signed", "spent"}]
      /\ signers \in [Payments -> SUBSET (Others \cup {Master})]
  BY DEF GroupInit
<1>9. GroupTypeOK
  <2>1. place \in [Payments -> Nat]
    BY <1>6
  <2> QED BY <1>1, <1>3, <1>4, <1>5, <1>6, <1>7, <1>8, <2>1, RestingFact DEF GroupTypeOK, NoTx
<1>10. MailInv /\ RowInv
  BY <1>3, <1>4, <1>6, <1>7 DEF MailInv, RowInv
<1>11. RefundInv
  BY <1>1, <1>6, <1>7, RestingFact DEF RefundInv
<1> QED BY <1>2, <1>6, <1>9, <1>10, <1>11 DEF SampleInv, ToldIsStored

\* A step of the messages: payments that are paid or sent back are left alone.
LEMMA MessageKeeps ==
  ASSUME SampleInv, UNCHANGED <<owner, raw, hash, output, place, signers, watched, due, refunding, queue>>,
         unread' \in [Users -> 0 .. MaxMessages], messages' \in 0 .. MaxMessages,
         inbox' \in [Users -> Nat], \A u \in Users : inbox'[u] \in 0 .. unread'[u],
         talk' \in [at : {"idle", "store", "answer", "acknowledge"}, user : Users, code : 0 .. MaxPayments],
         talk'.code \in {0} \cup requested', requested' \subseteq Payments, told' \subseteq requested',
         state' \in [Payments -> {"none", "pending", "paid", "refund"}],
         \A c \in Payments : state[c] \in {"pending", "paid"} => state'[c] = state[c],
         \A c \in Payments : state'[c] = "refund" => state[c] = "refund",
         failures' \in 0 .. MaxFailures, MailInv', RowInv', ToldIsStored'
  PROVE  SampleInv'
<1> USE DEF SampleInv
<1>1. SampleTypes'
  BY DEF SampleTypes
<1>2. talk'.at \in {"idle", "store", "answer", "acknowledge"} /\ talk'.user \in Users
  OBVIOUS
<1>3. GroupTypeOK'
  <2>1. watched' \subseteq RowsIn("pending")' /\ due' \subseteq RowsIn("paid")'
    BY DEF GroupTypeOK, RowsIn
  <2> QED BY <1>2, <2>1 DEF GroupTypeOK
<1>4. RefundInv'
  BY DEF RefundInv
<1> QED BY <1>1, <1>3, <1>4

\* A step of the payments: rows are not made, and none becomes pending.
LEMMA PaymentKeeps ==
  ASSUME SampleInv,
         UNCHANGED <<unread, messages, inbox, talk, requested, owner, told>>,
         state' \in [Payments -> {"none", "pending", "paid", "refund"}],
         \A c \in Payments : state'[c] = "none" <=> state[c] = "none",
         \A c \in Payments : state'[c] = "pending" => state[c] = "pending",
         raw' \in [Payments -> 0 .. MaxPayments], hash' \in [Payments -> 0 .. MaxPayments],
         output' \in [Payments -> {"none", "unspent", "signed", "spent"}],
         \A c \in Payments : {raw'[c], hash'[c]} \subseteq {0} \cup {o \in Payments : output'[o] # "none"},
         signers' \in [Payments -> SUBSET (Others \cup {Master})],
         refunding' \in [at : {"idle", "sign", "save"}, pay : 0 .. MaxPayments, out : 0 .. MaxPayments,
                         hash : 0 .. MaxPayments],
         place' \in [Payments -> Nat], watched' \subseteq RowsIn("pending")', due' \subseteq RowsIn("paid")',
         DOMAIN queue' \subseteq Payments, failures' \in 0 .. MaxFailures, RefundInv'
  PROVE  SampleInv'
<1> USE DEF SampleInv
<1>1. SampleTypes'
  BY DEF SampleTypes
<1>2. refunding'.at \in {"idle", "sign", "save"}
  OBVIOUS
<1>3. GroupTypeOK'
  BY <1>2 DEF GroupTypeOK, NoTx
<1>4. MailInv'
  BY DEF MailInv
<1>5. \A u : Pending(u)' \subseteq Pending(u)
  BY DEF Pending
<1>6. RowInv'
  BY <1>5 DEF RowInv
<1>7. told \subseteq Payments
  BY GroupAssumption DEF GroupTypeOK, Payments
<1>8. ToldIsStored'
  BY <1>7 DEF ToldIsStored
<1> QED BY <1>1, <1>3, <1>4, <1>6, <1>8

\* Messages that are written and received keep the invariant.
LEMMA MailKeeps ==
  ASSUME SampleInv, NEW u \in Users, Write(u) \/ ReceiveMessage(u)
  PROVE  SampleInv'
<1> USE DEF SampleInv
<1>1. UNCHANGED <<talk, requested, owner, told, state, raw, hash, output, place, signers, watched, due, refunding, queue, failures>>
  BY DEF Write, ReceiveMessage, codes, rows, multisig, lists
<1>2. RowInv' /\ ToldIsStored'
  BY <1>1 DEF RowInv, ToldIsStored, Pending
<1>3. /\ talk' \in [at : {"idle", "store", "answer", "acknowledge"}, user : Users, code : 0 .. MaxPayments]
      /\ talk'.code \in {0} \cup requested' /\ requested' \subseteq Payments /\ told' \subseteq requested'
      /\ state' \in [Payments -> {"none", "pending", "paid", "refund"}]
      /\ failures' \in 0 .. MaxFailures
  BY <1>1 DEF SampleTypes, GroupTypeOK
<1>4. talk.user \in Users /\ unread \in [Users -> 0 .. MaxMessages] /\ messages \in 0 .. MaxMessages /\ MaxMessages \in Nat
  BY GroupAssumption DEF GroupTypeOK
<1>5. \A v \in Users : unread[v] \in Nat /\ unread[v] <= messages /\ inbox[v] \in 0 .. unread[v]
  BY <1>4 DEF GroupTypeOK, MailInv
<1>6. CASE Write(u)
  <2>1. messages' = messages + 1 /\ messages' <= MaxMessages /\ inbox' = inbox /\ unread' = [unread EXCEPT ![u] = @ + 1]
    BY <1>4, <1>6 DEF Write
  <2>2. \A v \in Users : unread'[v] \in Nat /\ unread[v] <= unread'[v] /\ unread'[v] <= messages'
    BY <1>4, <1>5, <2>1
  <2>3. unread' \in [Users -> 0 .. MaxMessages] /\ messages' \in 0 .. MaxMessages
    BY <1>4, <1>5, <2>1
  <2>4. inbox' \in [Users -> Nat] /\ \A v \in Users : inbox'[v] \in 0 .. unread'[v]
    BY <1>5, <2>1, <2>2 DEF SampleTypes
  <2>5. MailInv'
    BY <1>1, <2>1, <2>2 DEF MailInv
  <2> QED BY <1>1, <1>2, <1>3, <2>3, <2>4, <2>5, MessageKeeps
<1>7. CASE ReceiveMessage(u)
  <2>1. messages' = messages /\ unread' = unread /\ inbox' = [inbox EXCEPT ![u] = @ + 1] /\ inbox[u] < unread[u]
    BY <1>7 DEF ReceiveMessage
  <2>2. /\ inbox' \in [Users -> Nat]
        /\ \A v \in Users : inbox'[v] = inbox[v] \/ (v = u /\ inbox'[v] = inbox[u] + 1)
    BY <2>1 DEF SampleTypes
  <2>3. \A v \in Users : inbox'[v] \in 0 .. unread'[v] /\ inbox[v] <= inbox'[v]
    BY <1>5, <2>1, <2>2
  <2>4. MailInv'
    BY <1>1, <1>4, <1>5, <2>1, <2>3 DEF MailInv
  <2> QED BY <1>1, <1>2, <1>3, <1>4, <2>1, <2>2, <2>3, <2>4, MessageKeeps
<1> QED BY <1>6, <1>7

\* A message is answered with the pending code of its user, or a new one is asked for.
LEMMA HandleMessageKeeps ==
  ASSUME SampleInv, NEW u \in Users, HandleMessage(u)
  PROVE  SampleInv'
<1> USE DEF SampleInv
<1>1. /\ talk.at = "idle" /\ inbox[u] > 0
      /\ UNCHANGED <<unread, messages, inbox, owner, told, state, raw, hash, output, place, signers, watched, due, refunding, queue, failures>>
  BY DEF HandleMessage, rows, multisig, lists
<1>2. /\ unread' \in [Users -> 0 .. MaxMessages] /\ messages' \in 0 .. MaxMessages
      /\ inbox' \in [Users -> Nat] /\ \A v \in Users : inbox'[v] \in 0 .. unread'[v]
      /\ state' \in [Payments -> {"none", "pending", "paid", "refund"}]
      /\ failures' \in 0 .. MaxFailures
  BY <1>1 DEF SampleTypes, GroupTypeOK
<1>3. requested \subseteq Payments /\ MaxPayments \in Nat /\ told \subseteq requested
  BY GroupAssumption DEF GroupTypeOK
<1>4. CASE \E c \in Pending(u) :
             talk' = [at |-> "answer", user |-> u, code |-> c] /\ UNCHANGED requested
  <2>1. PICK c \in Pending(u) :
          talk' = [at |-> "answer", user |-> u, code |-> c] /\ UNCHANGED requested
    BY <1>4
  <2>2. c \in Payments /\ state[c] # "none" /\ c \in requested /\ c \in 0 .. MaxPayments
    BY <1>3 DEF Pending, RowInv, Payments
  <2>3. /\ talk' \in [at : {"idle", "store", "answer", "acknowledge"}, user : Users, code : 0 .. MaxPayments]
        /\ talk'.code \in {0} \cup requested' /\ talk'.at = "answer" /\ talk'.user = u /\ talk'.code = c
    BY <2>1, <2>2
  <2>4. MailInv'
    BY <1>1, <2>3 DEF MailInv
  <2>5. RowInv'
    BY <1>1, <2>1, <2>2, <2>3 DEF RowInv
  <2>6. ToldIsStored'
    BY <1>1 DEF ToldIsStored
  <2> QED BY <1>1, <1>2, <1>3, <2>1, <2>3, <2>4, <2>5, <2>6, MessageKeeps
<1>5. CASE /\ Pending(u) = {}
           /\ Unused(u) # {}
           /\ requested' = requested \cup {Min(Unused(u))}
           /\ talk' = [at |-> "store", user |-> u, code |-> Min(Unused(u))]
  <2> DEFINE new == Min(Unused(u))
  <2>0. new \in Payments /\ new \notin requested /\ owner[new] = u
    <3>1. Unused(u) \subseteq Nat
      BY DEF Unused, Payments
    <3>2. new \in Unused(u)
      BY <1>5, <3>1, MinFact
    <3> QED BY <3>2 DEF Unused
  <2>1. requested' = requested \cup {new} /\ talk' = [at |-> "store", user |-> u, code |-> new]
    BY <1>5
  <2> HIDE DEF new
  <2>2. /\ talk' \in [at : {"idle", "store", "answer", "acknowledge"}, user : Users, code : 0 .. MaxPayments]
        /\ talk'.code \in {0} \cup requested' /\ talk'.at = "store" /\ talk'.user = u /\ talk'.code = new
        /\ requested' \subseteq Payments /\ told' \subseteq requested'
    <3>1. new \in 0 .. MaxPayments
      BY <1>3, <2>0 DEF Payments
    <3>2. requested' \subseteq Payments /\ told' \subseteq requested'
      BY <1>1, <1>3, <2>0, <2>1
    <3> QED BY <2>1, <3>1, <3>2
  <2>3. state[new] = "none"
    BY <2>0 DEF RowInv
  <2>4. MailInv'
    BY <1>1, <2>2 DEF MailInv
  <2>5. \A v : Pending(v)' = Pending(v)
    BY <1>1 DEF Pending
  <2>6. RowInv'
    <3>1. \A c \in Payments : state'[c] # "none" => c \in requested'
      BY <1>1, <2>1 DEF RowInv
    <3>2. /\ talk'.code \in Payments /\ state'[talk'.code] = "none"
          /\ owner'[talk'.code] = talk'.user /\ Pending(talk.user)' = {}
      BY <1>1, <1>5, <2>0, <2>2, <2>3 DEF Pending
    <3> QED BY <1>1, <2>2, <3>1, <3>2 DEF RowInv
  <2>7. ToldIsStored'
    BY <1>1 DEF ToldIsStored
  <2> QED BY <1>1, <1>2, <2>2, <2>4, <2>6, <2>7, MessageKeeps
<1> QED BY <1>4, <1>5 DEF HandleMessage

\* Writing the row keeps the invariant: the user had no pending one.
LEMMA CreatedPaymentKeeps ==
  ASSUME SampleInv, CreatedPayment
  PROVE  SampleInv'
<1> USE DEF SampleInv
<1> DEFINE code == talk.code
<1>1. /\ talk.at = "store" /\ state' = [state EXCEPT ![code] = "pending"]
      /\ talk' = [talk EXCEPT !.at = "answer"]
      /\ UNCHANGED <<unread, messages, inbox, requested, owner, told, raw, hash, output, place, signers, watched, due, refunding, queue, failures>>
  BY DEF CreatedPayment, codes, multisig, lists
<1>2. /\ code \in Payments /\ state[code] = "none" /\ owner[code] = talk.user
      /\ \A c \in Payments : owner[c] = talk.user => state[c] # "pending"
  BY <1>1 DEF RowInv, Pending
<1>3. /\ unread' \in [Users -> 0 .. MaxMessages] /\ messages' \in 0 .. MaxMessages
      /\ inbox' \in [Users -> Nat] /\ \A v \in Users : inbox'[v] \in 0 .. unread'[v]
      /\ failures' \in 0 .. MaxFailures /\ requested' \subseteq Payments /\ told' \subseteq requested'
  BY <1>1 DEF SampleTypes, GroupTypeOK
<1>4. /\ talk' \in [at : {"idle", "store", "answer", "acknowledge"}, user : Users, code : 0 .. MaxPayments]
      /\ talk'.at = "answer" /\ talk'.user = talk.user /\ talk'.code = code
  BY <1>1 DEF SampleTypes
<1>5. code \in requested
  BY <1>2 DEF GroupTypeOK, Payments
<1> HIDE DEF code
<1>6. /\ state' \in [Payments -> {"none", "pending", "paid", "refund"}]
      /\ \A c \in Payments : state'[c] = IF c = code THEN "pending" ELSE state[c]
  BY <1>1, <1>2 DEF GroupTypeOK
<1>7. MailInv'
  BY <1>1, <1>4 DEF MailInv
<1>8. RowInv'
  <2>1. \A c \in Payments : state'[c] # "none" => c \in requested'
    BY <1>1, <1>5, <1>6 DEF RowInv
  <2>2. \A c, d \in Payments :
          state'[c] = "pending" /\ state'[d] = "pending" /\ owner'[c] = owner'[d] => c = d
    BY <1>1, <1>2, <1>6 DEF RowInv
  <2> QED BY <1>2, <1>4, <1>6, <2>1, <2>2 DEF RowInv
<1>9. ToldIsStored'
  <2>1. told \subseteq Payments
    BY GroupAssumption DEF GroupTypeOK, Payments
  <2> QED BY <1>1, <1>6, <2>1 DEF ToldIsStored
<1>10. talk'.code \in {0} \cup requested'
  BY <1>1, <1>4, <1>5
<1>11. \A c \in Payments : (state[c] \in {"pending", "paid"} => state'[c] = state[c]) /\ (state'[c] = "refund" => state[c] = "refund")
  BY <1>2, <1>6
<1> QED BY <1>1, <1>3, <1>4, <1>6, <1>7, <1>8, <1>9, <1>10, <1>11, MessageKeeps

\* Sending the code keeps the invariant: its row is written.
LEMMA AnswerKeeps ==
  ASSUME SampleInv, Answer
  PROVE  SampleInv'
<1> USE DEF SampleInv
<1>1. /\ talk.at = "answer" /\ told' \in {told, told \cup {talk.code}} /\ talk' = [talk EXCEPT !.at = "acknowledge"]
      /\ UNCHANGED <<unread, messages, inbox, requested, owner, state, raw, hash, output, place, signers, watched, due, refunding, queue, failures>>
  BY DEF Answer, Sent, codes, rows, multisig, lists
<1>2. talk.code \in Payments /\ state[talk.code] # "none" /\ talk.code \in requested
  BY <1>1 DEF RowInv, GroupTypeOK
<1>3. /\ unread' \in [Users -> 0 .. MaxMessages] /\ messages' \in 0 .. MaxMessages
      /\ inbox' \in [Users -> Nat] /\ \A v \in Users : inbox'[v] \in 0 .. unread'[v]
      /\ state' \in [Payments -> {"none", "pending", "paid", "refund"}]
      /\ failures' \in 0 .. MaxFailures /\ requested' \subseteq Payments
  BY <1>1 DEF SampleTypes, GroupTypeOK
<1>4. /\ talk' \in [at : {"idle", "store", "answer", "acknowledge"}, user : Users, code : 0 .. MaxPayments]
      /\ talk'.at = "acknowledge" /\ talk'.user = talk.user /\ talk'.code = talk.code
  BY <1>1 DEF SampleTypes
<1>5. told' \subseteq requested' /\ talk'.code \in {0} \cup requested'
  BY <1>1, <1>2, <1>4 DEF GroupTypeOK, Payments
<1>6. MailInv' /\ RowInv'
  BY <1>1, <1>2, <1>4 DEF MailInv, RowInv
<1>7. ToldIsStored'
  BY <1>1, <1>2 DEF ToldIsStored
<1> QED BY <1>1, <1>3, <1>4, <1>5, <1>6, <1>7, MessageKeeps

\* Acknowledging the message keeps the invariant.
LEMMA AcknowledgeKeeps ==
  ASSUME SampleInv, Acknowledge
  PROVE  SampleInv'
<1> USE DEF SampleInv
<1> DEFINE u == talk.user
<1>1. /\ talk.at = "acknowledge" /\ unread' = [unread EXCEPT ![u] = @ - 1]
      /\ inbox' = [inbox EXCEPT ![u] = @ - 1] /\ talk' = Silent
      /\ UNCHANGED <<messages, requested, owner, told, state, raw, hash, output, place, signers, watched, due, refunding, queue, failures>>
  BY DEF Acknowledge, codes, rows, multisig, lists
<1>2. u \in Users /\ inbox[u] > 0
  BY <1>1 DEF MailInv, GroupTypeOK
<1> HIDE DEF u
<1>3. /\ MaxMessages \in Nat /\ messages \in Nat /\ messages <= MaxMessages
      /\ \A v \in Users : unread[v] \in Nat /\ unread[v] <= messages /\ inbox[v] \in 0 .. unread[v]
  BY GroupAssumption DEF GroupTypeOK, MailInv
<1>4. \A v \in Users : /\ unread'[v] = IF v = u THEN unread[v] - 1 ELSE unread[v]
                       /\ inbox'[v] = IF v = u THEN inbox[v] - 1 ELSE inbox[v]
  BY <1>1 DEF GroupTypeOK, SampleTypes
<1>5. \A v \in Users : unread'[v] \in Nat /\ unread'[v] <= messages /\ inbox'[v] \in 0 .. unread'[v]
  BY <1>2, <1>3, <1>4
<1>6. unread' \in [Users -> 0 .. MaxMessages]
  <2>1. unread' = [v \in Users |-> unread'[v]]
    BY <1>1 DEF GroupTypeOK
  <2> QED BY <1>3, <1>5, <2>1
<1>7. inbox' \in [Users -> Nat]
  <2>1. inbox' = [v \in Users |-> inbox'[v]]
    BY <1>1 DEF SampleTypes
  <2> QED BY <1>3, <1>5, <2>1
<1>8. /\ messages' \in 0 .. MaxMessages /\ failures' \in 0 .. MaxFailures /\ requested' \subseteq Payments
      /\ told' \subseteq requested'
      /\ state' \in [Payments -> {"none", "pending", "paid", "refund"}]
  BY <1>1 DEF GroupTypeOK
<1>9. /\ talk' \in [at : {"idle", "store", "answer", "acknowledge"}, user : Users, code : 0 .. MaxPayments]
      /\ talk'.at = "idle" /\ talk'.code \in {0} \cup requested'
  BY <1>1, <1>8, SilentFact
<1>10. MailInv' /\ RowInv'
  BY <1>1, <1>5, <1>9 DEF MailInv, RowInv
<1>11. ToldIsStored'
  BY <1>1 DEF ToldIsStored
<1> QED BY <1>1, <1>5, <1>6, <1>7, <1>8, <1>9, <1>10, <1>11, MessageKeeps

\* After an error the loop begins anew; the code may have been sent.
LEMMA ReconnectKeeps ==
  ASSUME SampleInv, ReadDone \/ LoopFails
  PROVE  SampleInv'
<1> USE DEF SampleInv
<1>1. /\ failures < MaxFailures /\ failures' = failures + 1 /\ inbox' = [u \in Users |-> 0] /\ talk' = Silent
      /\ UNCHANGED <<unread, messages, requested, owner, state, raw, hash, output, place, signers, watched, due, refunding, queue>>
      /\ told' = told \/ (talk.at = "answer" /\ told' = told \cup {talk.code})
  BY DEF ReadDone, LoopFails, Reconnect, Sent, codes, rows, multisig, lists
<1>2. talk.at = "answer" => talk.code \in Payments /\ state[talk.code] # "none" /\ talk.code \in requested
  BY DEF RowInv, GroupTypeOK
<1>3. /\ unread' \in [Users -> 0 .. MaxMessages] /\ messages' \in 0 .. MaxMessages
      /\ state' \in [Payments -> {"none", "pending", "paid", "refund"}]
      /\ requested' \subseteq Payments
  BY <1>1 DEF GroupTypeOK
<1>4. inbox' \in [Users -> Nat] /\ \A v \in Users : inbox'[v] \in 0 .. unread'[v]
  BY <1>1 DEF GroupTypeOK
<1>5. failures' \in 0 .. MaxFailures
  BY <1>1, GroupAssumption DEF GroupTypeOK
<1>6. told' \subseteq requested'
  <2>1. told \subseteq requested /\ requested' = requested
    BY <1>1 DEF GroupTypeOK
  <2>2. talk.at = "answer" => talk.code \in requested
    BY <1>2 DEF GroupTypeOK, Payments
  <2> QED BY <1>1, <2>1, <2>2
<1>7. /\ talk' \in [at : {"idle", "store", "answer", "acknowledge"}, user : Users, code : 0 .. MaxPayments]
      /\ talk'.at = "idle" /\ talk'.code \in {0} \cup requested'
  BY <1>1, <1>3, SilentFact
<1>8. MailInv' /\ RowInv'
  BY <1>1, <1>7 DEF MailInv, RowInv
<1>9. ToldIsStored'
  BY <1>1, <1>2 DEF ToldIsStored
<1> QED BY <1>1, <1>3, <1>4, <1>5, <1>6, <1>7, <1>8, <1>9, MessageKeeps

-----------------------------------------------------------------------------
(* Payments, refunds and signatures *)

\* A step that changes outputs and signatures: an output that was paid stays so,
\* and one that was spent too.
LEMMA OutputKeeps ==
  ASSUME SampleInv,
         UNCHANGED <<unread, messages, inbox, talk, requested, owner, told, state, raw, hash>>,
         place' \in [Payments -> Nat], \A o \in Payments : place'[o] # 0 => place[o] # 0 \/ output'[o] # "none",
         watched' \subseteq RowsIn("pending"), due' \subseteq RowsIn("paid"),
         refunding.at # "idle" => due' \subseteq due,
         output' \in [Payments -> {"none", "unspent", "signed", "spent"}],
         \A o \in Payments : (output[o] # "none" => output'[o] # "none") /\ (output[o] = "spent" => output'[o] = "spent"),
         signers' \in [Payments -> SUBSET (Others \cup {Master})],
         refunding' \in [at : {"idle", "sign", "save"}, pay : 0 .. MaxPayments, out : 0 .. MaxPayments,
                         hash : 0 .. MaxPayments],
         \/ refunding'.at = "idle"
         \/ /\ refunding.at # "idle"
            /\ refunding'.pay = refunding.pay /\ refunding'.out = refunding.out /\ refunding'.hash = refunding.hash,
         DOMAIN queue' \subseteq Payments, failures' \in 0 .. MaxFailures
  PROVE  SampleInv'
<1> USE DEF SampleInv
<1>1. \A c \in Payments : hash[c] # 0 => hash[c] \in Payments
  BY DEF GroupTypeOK, NoTx
<1>2. RefundInv'
  <2>1. /\ \A c \in Payments : hash'[c] # 0 => owner'[hash'[c]] = owner'[c]
        /\ \A c, d \in Payments : hash'[c] # 0 /\ hash'[c] = hash'[d] => c = d
        /\ \A o \in Payments : place'[o] # 0 => output'[o] # "none"
    BY DEF RefundInv
  <2>2. refunding'.at # "idle" =>
          /\ refunding'.pay \in Payments /\ refunding'.out \in Payments /\ refunding'.pay \notin due'
          /\ state'[refunding'.pay] = "paid" /\ refunding'.hash = hash'[refunding'.pay]
          /\ output'[refunding'.out] # "none" /\ owner'[refunding'.out] = owner'[refunding'.pay]
    BY DEF RefundInv
  <2>3. \A c \in Payments : state'[c] = "refund" => hash'[c] # 0 /\ output'[hash'[c]] = "spent"
    BY <1>1 DEF RefundInv
  <2> QED BY <2>1, <2>2, <2>3 DEF RefundInv
<1>3. \A c \in Payments : {raw'[c], hash'[c]} \subseteq {0} \cup {o \in Payments : output'[o] # "none"}
  BY DEF GroupTypeOK, NoTx
<1>4. /\ state' \in [Payments -> {"none", "pending", "paid", "refund"}]
      /\ raw' \in [Payments -> 0 .. MaxPayments] /\ hash' \in [Payments -> 0 .. MaxPayments]
  BY DEF SampleTypes, GroupTypeOK
<1>5. watched' \subseteq RowsIn("pending")' /\ due' \subseteq RowsIn("paid")'
  BY DEF RowsIn
<1> QED BY <1>2, <1>3, <1>4, <1>5, PaymentKeeps

\* A payment of a user keeps the invariant.
LEMMA PayKeeps ==
  ASSUME SampleInv, NEW c \in Payments, Pay(c)
  PROVE  SampleInv'
<1> USE DEF SampleInv
<1> DEFINE n == Cardinality({o \in Payments : output[o] # "none"})
<1>1. /\ output[c] = "none" /\ output' = [output EXCEPT ![c] = "unspent"]
      /\ place' = [place EXCEPT ![c] = 1 + n]
      /\ UNCHANGED <<unread, messages, inbox, talk, requested, owner, told, state, raw, hash, signers, watched, due, refunding, queue, failures>>
  BY DEF Pay, mail, codes, rows, lists
<1>2. output' \in [Payments -> {"none", "unspent", "signed", "spent"}]
  BY <1>1 DEF GroupTypeOK
<1>3. \A o \in Payments : (output[o] # "none" => output'[o] # "none") /\ (output[o] = "spent" => output'[o] = "spent")
  BY <1>1 DEF GroupTypeOK
<1>4. n \in Nat
  <2>1. IsFiniteSet(Payments)
    BY FS_Interval, GroupAssumption DEF Payments
  <2> QED BY <2>1, FS_Subset, FS_CardinalityType
<1> HIDE DEF n
<1>5. place' \in [Payments -> Nat] /\ \A o \in Payments : place'[o] # 0 => place[o] # 0 \/ output'[o] # "none"
  BY <1>1, <1>2, <1>4 DEF GroupTypeOK
<1> QED BY <1>1, <1>2, <1>3, <1>5, OutputKeeps DEF SampleTypes, GroupTypeOK

\* A row that is paid, or closed, is not the one that refund works on, or it is the
\* one whose transaction was found.
LEMMA PaymentPaidKeeps ==
  ASSUME SampleInv, NEW c \in Payments, PaymentPaid(c)
  PROVE  SampleInv'
<1> USE DEF SampleInv
<1>1. /\ c \in watched /\ watched' = watched \ {c}
      /\ state' = [state EXCEPT ![c] = IF output[c] # "none" THEN "paid" ELSE @]
      /\ UNCHANGED <<unread, messages, inbox, talk, requested, owner, told, raw, hash, output, place, signers, due, refunding, queue, failures>>
  BY DEF PaymentPaid, mail, codes, multisig
<1>2. /\ state[c] = "pending" /\ state' \in [Payments -> {"none", "pending", "paid", "refund"}]
      /\ state'[c] \in {"pending", "paid"} /\ \A d \in Payments : d # c => state'[d] = state[d]
  BY <1>1 DEF GroupTypeOK, RowsIn
<1>3. RefundInv'
  BY <1>1, <1>2 DEF RefundInv
<1>4. \A d \in Payments : (state'[d] = "none" <=> state[d] = "none") /\ (state'[d] = "pending" => state[d] = "pending")
  BY <1>2
<1>5. /\ raw' \in [Payments -> 0 .. MaxPayments] /\ hash' \in [Payments -> 0 .. MaxPayments]
      /\ output' \in [Payments -> {"none", "unspent", "signed", "spent"}]
      /\ \A d \in Payments : {raw'[d], hash'[d]} \subseteq {0} \cup {o \in Payments : output'[o] # "none"}
      /\ signers' \in [Payments -> SUBSET (Others \cup {Master})] /\ place' \in [Payments -> Nat]
      /\ DOMAIN queue' \subseteq Payments /\ failures' \in 0 .. MaxFailures
  BY <1>1 DEF SampleTypes, GroupTypeOK, NoTx
<1>6. watched' \subseteq RowsIn("pending")' /\ due' \subseteq RowsIn("paid")'
  BY <1>1, <1>2 DEF GroupTypeOK, RowsIn
<1> QED BY <1>1, <1>2, <1>3, <1>4, <1>5, <1>6, PaymentKeeps DEF SampleTypes

\* Closing a payment keeps the invariant: its transaction was sent.
LEMMA RefundDoneKeeps ==
  ASSUME SampleInv, RefundDone
  PROVE  SampleInv'
<1> USE DEF SampleInv
<1> DEFINE c == refunding.pay
<1>1. /\ refunding.at = "sign" /\ OnNetwork(refunding.hash)
      /\ state' = [state EXCEPT ![c] = "refund"] /\ refunding' = Resting
      /\ UNCHANGED <<unread, messages, inbox, talk, requested, owner, told, raw, hash, output, place, signers, watched, due, queue, failures>>
  BY DEF RefundDone, mail, codes, multisig, lists
<1>2. c \in Payments /\ c \notin due /\ state[c] = "paid" /\ refunding.hash = hash[c]
  BY <1>1 DEF RefundInv
<1>3. hash[c] # 0 /\ output[hash[c]] = "spent"
  BY <1>1, <1>2 DEF OnNetwork, Payments
<1> HIDE DEF c
<1>4. /\ state' \in [Payments -> {"none", "pending", "paid", "refund"}]
      /\ \A d \in Payments : state'[d] = IF d = c THEN "refund" ELSE state[d]
  BY <1>1 DEF GroupTypeOK
<1>5. /\ refunding' \in [at : {"idle", "sign", "save"}, pay : 0 .. MaxPayments, out : 0 .. MaxPayments,
                         hash : 0 .. MaxPayments]
      /\ refunding'.at = "idle"
  BY <1>1, RestingFact
<1>6. RefundInv'
  BY <1>1, <1>3, <1>4, <1>5 DEF RefundInv
<1>7. \A d \in Payments : (state'[d] = "none" <=> state[d] = "none") /\ (state'[d] = "pending" => state[d] = "pending")
  BY <1>2, <1>4
<1>8. /\ raw' \in [Payments -> 0 .. MaxPayments] /\ hash' \in [Payments -> 0 .. MaxPayments]
      /\ output' \in [Payments -> {"none", "unspent", "signed", "spent"}]
      /\ \A d \in Payments : {raw'[d], hash'[d]} \subseteq {0} \cup {o \in Payments : output'[o] # "none"}
      /\ signers' \in [Payments -> SUBSET (Others \cup {Master})] /\ place' \in [Payments -> Nat]
      /\ DOMAIN queue' \subseteq Payments /\ failures' \in 0 .. MaxFailures
  BY <1>1 DEF SampleTypes, GroupTypeOK, NoTx
<1>9. watched' \subseteq RowsIn("pending")' /\ due' \subseteq RowsIn("paid")'
  BY <1>1, <1>2, <1>4 DEF GroupTypeOK, RowsIn
<1> QED BY <1>1, <1>4, <1>5, <1>6, <1>7, <1>8, <1>9, PaymentKeeps

\* The oldest output of a list is one of them.
LEMMA OldestFact ==
  ASSUME GroupTypeOK, NEW S, S \subseteq Payments, S # {}
  PROVE  Oldest(S) \in S
<1> DEFINE T == {place[o] : o \in S}
<1>1. T \subseteq Nat /\ T # {}
  BY DEF GroupTypeOK
<1>2. PICK z \in T : \A y \in T : z <= y
  <2> HIDE DEF T
  <2> QED BY <1>1, LeastNumber
<1>3. \E o \in S : \A q \in S : place[o] <= place[q]
  BY <1>2
<1> QED BY <1>3 DEF Oldest

\* refund takes an output of the user of the payment.
LEMMA RefundKeeps ==
  ASSUME SampleInv, NEW c \in Payments, Refund(c)
  PROVE  SampleInv'
<1> USE DEF SampleInv
<1> DEFINE o == Oldest(Matching(c))
<1>1. /\ refunding.at = "idle" /\ c \in due /\ due' = due \ {c}
      /\ UNCHANGED <<unread, messages, inbox, talk, requested, owner, told, state, hash, output, place, signers, watched, queue, failures>>
  BY DEF Refund, mail, codes, multisig
<1>0. state[c] = "paid" /\ due' \subseteq RowsIn("paid") /\ watched' \subseteq RowsIn("pending")
  BY <1>1 DEF GroupTypeOK, RowsIn
<1>2. CASE UNCHANGED <<raw, refunding>>
  BY <1>0, <1>1, <1>2, OutputKeeps DEF SampleTypes, GroupTypeOK
<1>3. CASE /\ Matching(c) # {}
           /\ raw' = [raw EXCEPT ![c] = o]
           /\ refunding' = [at |-> "sign", pay |-> c, out |-> o, hash |-> hash[c]]
  <2>1. o \in Matching(c)
    <3>1. Matching(c) \subseteq Payments
      BY DEF Matching, ReadOutputs
    <3> QED BY <1>3, <3>1, OldestFact
  <2> HIDE DEF o
  <2>2. o \in Payments /\ output[o] # "none" /\ owner[o] = owner[c] /\ o \in 0 .. MaxPayments /\ c \in 0 .. MaxPayments
    BY <2>1, GroupAssumption DEF Matching, ReadOutputs, RefundInv, Payments
  <2>3. hash[c] \in 0 .. MaxPayments
    BY DEF SampleTypes
  <2>4. /\ refunding' \in [at : {"idle", "sign", "save"}, pay : 0 .. MaxPayments, out : 0 .. MaxPayments,
                           hash : 0 .. MaxPayments]
        /\ refunding'.pay = c /\ refunding'.out = o /\ refunding'.hash = hash[c]
    BY <1>3, <2>2, <2>3
  <2>5. RefundInv'
    BY <1>0, <1>1, <2>2, <2>4 DEF RefundInv
  <2>6. raw' \in [Payments -> 0 .. MaxPayments] /\ \A d \in Payments : raw'[d] = raw[d] \/ raw'[d] = o
    BY <1>3, <2>2 DEF SampleTypes
  <2>7. \A d \in Payments : {raw'[d], hash'[d]} \subseteq {0} \cup {p \in Payments : output'[p] # "none"}
    BY <1>1, <2>2, <2>6 DEF GroupTypeOK, NoTx
  <2>8. /\ hash' \in [Payments -> 0 .. MaxPayments]
        /\ output' \in [Payments -> {"none", "unspent", "signed", "spent"}]
        /\ state' \in [Payments -> {"none", "pending", "paid", "refund"}]
        /\ signers' \in [Payments -> SUBSET (Others \cup {Master})] /\ place' \in [Payments -> Nat]
        /\ DOMAIN queue' \subseteq Payments /\ failures' \in 0 .. MaxFailures
    BY <1>1 DEF SampleTypes, GroupTypeOK
  <2>9. watched' \subseteq RowsIn("pending")' /\ due' \subseteq RowsIn("paid")'
    BY <1>0, <1>1 DEF RowsIn
  <2> QED BY <1>1, <2>4, <2>5, <2>6, <2>7, <2>8, <2>9, PaymentKeeps
<1> QED BY <1>2, <1>3 DEF Refund, BuildTransaction

\* The hash that refund stores is that of no other payment: the column is unique.
LEMMA RefundSaveKeeps ==
  ASSUME SampleInv, RefundSave
  PROVE  SampleInv'
<1> USE DEF SampleInv
<1> DEFINE c == refunding.pay
           o == refunding.out
<1>1. /\ refunding.at = "save" /\ refunding' = Resting
      /\ UNCHANGED <<unread, messages, inbox, talk, requested, owner, told, state, raw, output, place, signers, watched, due, queue, failures>>
  BY DEF RefundSave, mail, codes, multisig, lists
<1>2. /\ c \in Payments /\ o \in Payments /\ state[c] = "paid"
      /\ output[o] # "none" /\ owner[o] = owner[c]
  BY <1>1 DEF RefundInv
<1>3. \/ hash' = hash
      \/ hash' = [hash EXCEPT ![c] = o] /\ \A d \in Payments \ {c} : hash[d] # o
  BY DEF RefundSave
<1> HIDE DEF c, o
<1>4. /\ refunding' \in [at : {"idle", "sign", "save"}, pay : 0 .. MaxPayments, out : 0 .. MaxPayments,
                         hash : 0 .. MaxPayments]
      /\ refunding'.at = "idle"
  BY <1>1, RestingFact
<1>5. /\ state' \in [Payments -> {"none", "pending", "paid", "refund"}]
      /\ output' \in [Payments -> {"none", "unspent", "signed", "spent"}]
      /\ raw' \in [Payments -> 0 .. MaxPayments]
      /\ signers' \in [Payments -> SUBSET (Others \cup {Master})] /\ place' \in [Payments -> Nat]
      /\ watched' \subseteq RowsIn("pending")' /\ due' \subseteq RowsIn("paid")'
      /\ DOMAIN queue' \subseteq Payments /\ failures' \in 0 .. MaxFailures
  BY <1>1 DEF SampleTypes, GroupTypeOK, RowsIn
<1>6. o \in 0 .. MaxPayments
  BY <1>2, GroupAssumption DEF Payments
<1>7. /\ hash' \in [Payments -> 0 .. MaxPayments]
      /\ \A d \in Payments : d # c => hash'[d] = hash[d]
      /\ hash'[c] = hash[c] \/ (hash'[c] = o /\ \A d \in Payments \ {c} : hash[d] # o)
  BY <1>2, <1>3, <1>6 DEF SampleTypes
<1>8. \A d \in Payments : {raw'[d], hash'[d]} \subseteq {0} \cup {p \in Payments : output'[p] # "none"}
  <2>1. ASSUME NEW d \in Payments
        PROVE  {raw[d], hash'[d]} \subseteq {0} \cup {p \in Payments : output[p] # "none"}
    <3>1. {raw[d], hash[d]} \subseteq {0} \cup {p \in Payments : output[p] # "none"}
      BY DEF GroupTypeOK, NoTx
    <3> QED BY <1>2, <1>7, <3>1
  <2> QED BY <1>1, <2>1
<1>9. RefundInv'
  <2>1. \A d \in Payments : hash'[d] # 0 => owner[hash'[d]] = owner[d]
    BY <1>2, <1>7 DEF RefundInv
  <2>2. \A d, e \in Payments : hash'[d] # 0 /\ hash'[d] = hash'[e] => d = e
    BY <1>2, <1>7 DEF RefundInv
  <2>3. \A d \in Payments : state[d] = "refund" => hash'[d] # 0 /\ output[hash'[d]] = "spent"
    BY <1>2, <1>7 DEF RefundInv
  <2> QED BY <1>1, <1>4, <2>1, <2>2, <2>3 DEF RefundInv
<1> QED BY <1>1, <1>4, <1>5, <1>7, <1>8, <1>9, PaymentKeeps

\* A signature makes an output a signed one, unless it is spent.
LEMMA SignedFact ==
  ASSUME SampleInv, NEW m \in Others \cup {Master}, NEW o \in Payments, output[o] # "none",
         Signed(m, o)
  PROVE  /\ output' \in [Payments -> {"none", "unspent", "signed", "spent"}]
         /\ \A p \in Payments : (output[p] # "none" => output'[p] # "none") /\ (output[p] = "spent" => output'[p] = "spent")
         /\ signers' \in [Payments -> SUBSET (Others \cup {Master})] /\ UNCHANGED place
BY DEF SampleInv, GroupTypeOK, Signed

\* Signatures of master and members, and a refund that fails, keep the invariant.
LEMMA SigningKeeps ==
  ASSUME SampleInv,
         RefundSign \/ RefundFails \/ \E m \in Others, o \in Payments : SignMultisig(m, o)
  PROVE  SampleInv'
<1> USE DEF SampleInv
<1>1. CASE RefundSign
  <2>1. /\ refunding.at = "sign" /\ Signed(Master, refunding.out)
        /\ refunding' = [refunding EXCEPT !.at = "save"]
        /\ UNCHANGED <<unread, messages, inbox, talk, requested, owner, told, state, raw, hash, watched, due, queue, failures>>
    BY <1>1 DEF RefundSign, mail, codes, rows, lists
  <2>2. refunding.out \in Payments /\ output[refunding.out] # "none"
    BY <2>1 DEF RefundInv
  <2>3. /\ refunding' \in [at : {"idle", "sign", "save"}, pay : 0 .. MaxPayments, out : 0 .. MaxPayments,
                           hash : 0 .. MaxPayments]
        /\ refunding'.pay = refunding.pay /\ refunding'.out = refunding.out /\ refunding'.hash = refunding.hash
    BY <2>1 DEF SampleTypes
  <2> QED BY <2>1, <2>2, <2>3, SignedFact, OutputKeeps DEF GroupTypeOK
<1>2. CASE RefundFails
  <2>1. /\ refunding' = Resting /\ failures < MaxFailures /\ failures' = failures + 1
        /\ UNCHANGED <<unread, messages, inbox, talk, requested, owner, told, state, raw, hash, output, place, signers, watched, due, queue>>
    BY <1>2 DEF RefundFails, mail, codes, rows, multisig, lists
  <2>2. failures' \in 0 .. MaxFailures
    BY <2>1, GroupAssumption DEF GroupTypeOK
  <2> QED BY <2>1, <2>2, RestingFact, OutputKeeps DEF GroupTypeOK
<1>3. ASSUME NEW m \in Others, NEW o \in Payments, SignMultisig(m, o) PROVE SampleInv'
  <2>1. /\ output[o] = "signed" /\ Signed(m, o)
        /\ UNCHANGED <<unread, messages, inbox, talk, requested, owner, told, state, raw, hash, watched, due, refunding, queue, failures>>
    BY <1>3 DEF SignMultisig, mail, codes, rows, lists
  <2> QED BY <2>1, SignedFact, OutputKeeps DEF SampleTypes, GroupTypeOK
<1> QED BY <1>1, <1>2, <1>3

\* handleMultisig of the master signs, and spends no output but one that was paid.
LEMMA MultisigKeeps ==
  ASSUME SampleInv,
         \/ ReadMultisigs \/ MultisigFails
         \/ \E o \in Payments : HandleMultisig(o)
  PROVE  SampleInv'
<1> USE DEF SampleInv
<1>1. /\ UNCHANGED <<unread, messages, inbox, talk, requested, owner, told, state, raw, hash, watched, due, refunding, place>>
  BY DEF ReadMultisigs, MultisigFails, HandleMultisig, mail, codes, rows, lists, multisig
<1>2. /\ \/ UNCHANGED signers
         \/ \E o \in Payments : signers' = [signers EXCEPT ![o] = @ \cup {Master}]
      /\ \/ UNCHANGED output
         \/ \E o \in Payments : output' = [output EXCEPT ![o] = "spent"]
      /\ DOMAIN queue' \subseteq Payments
      /\ failures' \in 0 .. MaxFailures
  <2>1. failures \in 0 .. MaxFailures /\ DOMAIN queue \subseteq Payments /\ MaxFailures \in Nat
    BY GroupAssumption DEF GroupTypeOK
  <2>2. CASE ReadMultisigs
    BY <2>1, <2>2 DEF ReadMultisigs, SignedOutputs, ReadOutputs, multisig
  <2>3. CASE MultisigFails
    <3>1. DOMAIN queue # {}
      BY <2>3 DEF MultisigFails
    <3>3. Oldest(DOMAIN queue) \in Payments
      BY <2>1, <3>1, OldestFact
    <3>4. failures' \in 0 .. MaxFailures /\ DOMAIN queue' = {}
      BY <2>1, <2>3 DEF MultisigFails
    <3> QED BY <2>3, <3>3, <3>4 DEF MultisigFails, SendRawTransaction, multisig
  <2>4. ASSUME NEW o \in Payments, HandleMultisig(o)
        PROVE  /\ signers' = [signers EXCEPT ![o] = @ \cup {Master}]
               /\ UNCHANGED output \/ output' = [output EXCEPT ![o] = "spent"]
               /\ DOMAIN queue' \subseteq Payments
               /\ UNCHANGED failures
    BY <2>1, <2>4 DEF HandleMultisig, SendRawTransaction, Without
  <2> QED BY <2>1, <2>2, <2>3, <2>4
<1>3. signers' \in [Payments -> SUBSET (Others \cup {Master})]
  BY <1>2 DEF GroupTypeOK
<1>4. /\ output' \in [Payments -> {"none", "unspent", "signed", "spent"}]
      /\ \A o \in Payments : (output[o] # "none" => output'[o] # "none") /\ (output[o] = "spent" => output'[o] = "spent")
  BY <1>2 DEF GroupTypeOK
<1> QED BY <1>1, <1>2, <1>3, <1>4, OutputKeeps DEF SampleTypes, GroupTypeOK

\* The lists of rows, and an error that leaves a row out, keep the invariant.
LEMMA ListsKeep ==
  ASSUME SampleInv, ListPending \/ ListPaid \/ RowSkipped
  PROVE  SampleInv'
<1> USE DEF SampleInv
<1>1. UNCHANGED <<unread, messages, inbox, talk, requested, owner, told, state, raw, hash, output, place, signers, refunding, queue>>
  BY DEF ListPending, ListPaid, RowSkipped, mail, codes, rows, multisig
<1>2. failures' \in 0 .. MaxFailures
  BY GroupAssumption DEF ListPending, ListPaid, RowSkipped, GroupTypeOK
<1>3. watched' \subseteq RowsIn("pending") /\ due' \subseteq RowsIn("paid") /\ (refunding.at # "idle" => due' \subseteq due)
  BY DEF ListPending, ListPaid, RowSkipped, FindPaymentsByState, GroupTypeOK
<1> QED BY <1>1, <1>2, <1>3, OutputKeeps DEF SampleTypes, GroupTypeOK

\* Every step keeps the invariant.
LEMMA SampleStep ==
  ASSUME SampleInv, [GroupNext]_groupVars
  PROVE  SampleInv'
<1>1. CASE UNCHANGED groupVars
  <2> USE <1>1 DEF groupVars, mail, codes, rows, multisig, lists, SampleInv
  <2>1. SampleTypes' /\ MailInv'
    BY DEF SampleTypes, MailInv
  <2>2. GroupTypeOK'
    BY DEF GroupTypeOK, RowsIn
  <2>3. RowInv'
    BY DEF RowInv, Pending
  <2>4. RefundInv' /\ ToldIsStored'
    BY DEF RefundInv, ToldIsStored
  <2> QED BY <2>1, <2>2, <2>3, <2>4
<1> QED
  BY <1>1, MailKeeps, HandleMessageKeeps, CreatedPaymentKeeps, AnswerKeeps, AcknowledgeKeeps, ReconnectKeeps,
     ListsKeep, PayKeeps, PaymentPaidKeeps, RefundKeeps, RefundDoneKeeps, RefundSaveKeeps, SigningKeeps, MultisigKeeps
     DEF GroupNext

\* The invariant of the sample group, with its message and refund loops, holds in
\* every behaviour of it.
THEOREM SampleInvariant ==
  GroupSpec => []SampleInv
<1>1. GroupInit => SampleInv
  BY SampleInvInit
<1>2. SampleInv /\ [GroupNext]_groupVars => SampleInv'
  BY SampleStep
<1> QED BY <1>1, <1>2, PTL DEF GroupSpec

\* HandleMessage reads the pending row of a user and CreatedPayment writes one, with
\* a request to the API and any error in between: a user has never two.
THEOREM OnePendingHolds ==
  GroupSpec => []OnePending
<1>1. SampleInv => OnePending
  <2> SUFFICES ASSUME SampleInv, NEW u \in Users PROVE Cardinality(Pending(u)) <= 1
    BY DEF OnePending
  <2>1. \A c, d \in Pending(u) : c = d
    BY DEF SampleInv, RowInv, Pending
  <2>2. Pending(u) = {} \/ \E c : Pending(u) = {c}
    BY <2>1
  <2>3. Cardinality(Pending(u)) \in {0, 1}
    BY <2>2, FS_EmptySet, FS_Singleton
  <2> QED BY <2>3
<1> QED BY <1>1, SampleInvariant, PTL

\* A code that may have reached its user has a row: Answer comes after CreatedPayment,
\* also when the loop fails between the steps and begins anew.
THEOREM ToldIsStoredHolds ==
  GroupSpec => []ToldIsStored
<1>1. SampleInv => ToldIsStored
  BY DEF SampleInv
<1> QED BY <1>1, SampleInvariant, PTL

\* The payments of a user that count as sent back are no more than the spent
\* outputs: to each belongs the output whose transaction has its hash, and
\* transaction_hash is unique.
THEOREM RefundsCoveredHolds ==
  GroupSpec => []RefundsCovered
<1>1. SampleInv => RefundsCovered
  <2> SUFFICES ASSUME SampleInv, NEW u \in Users
               PROVE  Cardinality({c \in Payments : owner[c] = u /\ state[c] = "refund"})
                        <= Cardinality({o \in Payments : owner[o] = u /\ output[o] = "spent"})
    BY DEF RefundsCovered
  <2> DEFINE R == {c \in Payments : owner[c] = u /\ state[c] = "refund"}
             S == {o \in Payments : owner[o] = u /\ output[o] = "spent"}
             f == [c \in R |-> hash[c]]
  <2>1. IsFiniteSet(S)
    <3>1. IsFiniteSet(Payments) /\ S \in SUBSET Payments
      BY FS_Interval, GroupAssumption DEF Payments
    <3> HIDE DEF S
    <3> QED BY <3>1, FS_Subset
  <2>2. ASSUME NEW c \in R PROVE hash[c] \in S /\ hash[c] # 0
    <3>1. c \in Payments /\ owner[c] = u /\ hash[c] # 0 /\ output[hash[c]] = "spent" /\ owner[hash[c]] = u
      BY DEF SampleInv, RefundInv
    <3>2. hash[c] \in Payments
      BY <3>1 DEF SampleInv, GroupTypeOK, NoTx
    <3> QED BY <3>1, <3>2
  <2>3. \A c, d \in R : hash[c] = hash[d] => c = d
    BY <2>2 DEF SampleInv, RefundInv
  <2> HIDE DEF R, S
  <2>4. f \in Injection(R, S)
    BY <2>2, <2>3 DEF Injection, IsInjective
  <2> HIDE DEF f
  <2>5. Cardinality(R) <= Cardinality(S)
    BY <2>1, <2>4, FS_Injection
  <2> QED BY <2>5 DEF R, S
<1> QED BY <1>1, SampleInvariant, PTL
=============================================================================
