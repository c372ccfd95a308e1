--------------------------- MODULE EosProxyProofs ---------------------------
(***************************************************************************)
(* Proofs about EosProxy, for every list of events, set of publishers and  *)
(* accounts, and every limit.                                              *)
(***************************************************************************)
EXTENDS EosProxy, SumTheorems

\* Every set of numbers that is not empty has a least one.
LEMMA MinFact ==
  ASSUME NEW S \in SUBSET Nat, S # {}
  PROVE  Min(S) \in S /\ \A y \in S : Min(S) <= y
<1>1. \E z \in S : \A y \in S : z <= y
  BY LeastNumber
<1> QED BY <1>1 DEF Min

-----------------------------------------------------------------------------
(* The ledger *)

\* what a ledger has given away more than it received
Diff(l) == l.supply + l.requested + l.fees + l.kept - l.received - l.late

\* A payment, what is kept, and an issue each give away what they say.
LEMMA RequestedFact ==
  ASSUME NEW l \in Ledger, NEW q \in Nat
  PROVE  /\ Requested(l, q) \in Ledger
         /\ Diff(Requested(l, q)) = Diff(l) + q
         /\ Requested(l, q).received = l.received
BY DEF Requested, Ledger, Diff

\* What stays in the contract counts with what the ledger gives out.
LEMMA KeptFact ==
  ASSUME NEW l \in Ledger, NEW q \in Nat
  PROVE  /\ Kept(l, q) \in Ledger
         /\ Diff(Kept(l, q)) = Diff(l) + q
         /\ Kept(l, q).received = l.received
BY DEF Kept, Ledger, Diff

\* What is retired no longer counts with the supply.
LEMMA RetiredFact ==
  ASSUME NEW l \in Ledger, NEW q \in Nat
  PROVE  /\ Retired(l, q) \in Ledger
         /\ Diff(Retired(l, q)) = Diff(l) - q
         /\ Retired(l, q).received = l.received
BY DEF Retired, Ledger, Diff

\* Moving tokens gives nothing away.
LEMMA MovedFact ==
  ASSUME NEW l \in Ledger, NEW a \in Accounts, NEW q \in Nat
  PROVE  /\ l.balance[a] >= q => /\ Debited(l, a, q) \in Ledger
                                 /\ Diff(Debited(l, a, q)) = Diff(l)
                                 /\ Debited(l, a, q).received = l.received
         /\ Credited(l, a, q) \in Ledger
         /\ Diff(Credited(l, a, q)) = Diff(l)
         /\ Credited(l, a, q).received = l.received
BY DEF Debited, Credited, Ledger, Diff

\* Issued tokens are there.
LEMMA IssuedFact ==
  ASSUME NEW l \in Ledger, NEW a \in Accounts, NEW q \in Nat
  PROVE  /\ Issued(l, a, q) \in Ledger
         /\ Diff(Issued(l, a, q)) = Diff(l) + q
         /\ Issued(l, a, q).received = l.received
         /\ Issued(l, a, q).balance[a] >= q
<1> DEFINE i == Issue(l, q)
<1>1. i \in Ledger /\ Diff(i) = Diff(l) + q /\ i.received = l.received
  BY DEF Issue, Ledger, Diff
<1> HIDE DEF i
<1>2. /\ Credited(i, a, q) \in Ledger
      /\ Diff(Credited(i, a, q)) = Diff(i)
      /\ Credited(i, a, q).received = i.received
  BY <1>1, MovedFact
<1>3. Credited(i, a, q).balance[a] >= q
  BY <1>1 DEF Credited, Ledger
<1> QED BY <1>1, <1>2, <1>3 DEF Issued, i

\* A transfer, also one with a request to pay out, neither makes nor loses an amount.
LEMMA TransferredFact ==
  ASSUME NEW l \in Ledger, NEW from \in Accounts, NEW to \in Accounts, NEW q \in Nat,
         l.balance[from] >= q
  PROVE  /\ Transferred(l, from, to, q) \in Ledger
         /\ Diff(Transferred(l, from, to, q)) = Diff(l)
         /\ Transferred(l, from, to, q).received = l.received
         /\ TransferredOut(l, from, q) \in Ledger
         /\ Diff(TransferredOut(l, from, q)) = Diff(l)
         /\ TransferredOut(l, from, q).received = l.received
<1> DEFINE d == Debited(l, from, q)
           r == Retired(d, q)
<1>1. d \in Ledger /\ Diff(d) = Diff(l) /\ d.received = l.received
  BY MovedFact
<1> HIDE DEF d
<1>2. r \in Ledger /\ Diff(r) = Diff(d) - q /\ r.received = d.received
  BY <1>1, RetiredFact
<1> HIDE DEF r
<1>3. Requested(r, q) \in Ledger /\ Diff(Requested(r, q)) = Diff(r) + q
        /\ Requested(r, q).received = r.received
  BY <1>2, RequestedFact
<1>4. Credited(d, to, q) \in Ledger /\ Diff(Credited(d, to, q)) = Diff(d)
        /\ Credited(d, to, q).received = d.received
  BY <1>1, MovedFact
<1>5. Diff(l) \in Int /\ Diff(d) \in Int
  BY <1>1 DEF Diff, Ledger
<1>6. Diff(Requested(r, q)) = Diff(l)
  BY <1>1, <1>2, <1>3, <1>5
<1> QED BY <1>1, <1>2, <1>3, <1>4, <1>6 DEF Transferred, TransferredOut, OnTransfer, d, r

\* Whatever Deliver does with a quantity, it gives away just that.
LEMMA DeliverFact ==
  ASSUME TypeOK, NEW l \in Ledger, NEW e \in EventType, NEW q \in Nat, NEW works \in BOOLEAN,
         NEW r \in Deliver(l, e, q, works)
  PROVE  r \in Ledger /\ Diff(r) = Diff(l) + q /\ r.received = l.received
<1> DEFINE i == Issued(l, e.account, q)
<1>1. CASE ~ e.single
  <2>1. r = Kept(l, q)
    BY <1>1 DEF Deliver
  <2> QED BY <2>1, KeptFact
<1>2. CASE e.single /\ e.account = NoAccount
  <2>1. r = Kept(l, q)
    BY <1>2 DEF Deliver
  <2> QED BY <2>1, KeptFact
<1>3. CASE e.single /\ e.account # NoAccount /\ e.dest \in {NoAccount, "short"}
  <2>1. r = Requested(l, q)
    BY <1>3 DEF Deliver, Refund
  <2> QED BY <2>1, RequestedFact
<1>4. CASE e.single /\ e.account # NoAccount /\ e.dest \notin {NoAccount, "short"}
  <2>1. e.account \in Accounts
    BY <1>4 DEF EventType, Accounts
  <2>2. i \in Ledger /\ Diff(i) = Diff(l) + q /\ i.received = l.received /\ i.balance[e.account] >= q
    BY <2>1, IssuedFact
  <2>3. \/ r = i
        \/ e.dest \notin {"self", "call"} /\ r = Transferred(i, e.account, e.dest, q)
    BY <1>4 DEF Deliver
  <2>4. CASE r = i
    BY <2>2, <2>4
  <2>5. CASE e.dest \notin {"self", "call"} /\ r = Transferred(i, e.account, e.dest, q)
    <3>1. e.dest \in Accounts
      BY <1>4, <2>5 DEF EventType
    <3> HIDE DEF i
    <3> QED BY <2>1, <2>2, <2>5, <3>1, TransferredFact
  <2> QED BY <2>3, <2>4, <2>5
<1> QED BY <1>1, <1>2, <1>3, <1>4 DEF EventType

\* A refund because of lateness is counted on both sides.
LEMMA RefundLateFact ==
  ASSUME NEW l \in Ledger, NEW q \in Nat, NEW late \in BOOLEAN
  PROVE  /\ RefundLate(l, q, late) \in Ledger
         /\ Diff(RefundLate(l, q, late)) = Diff(l)
         /\ RefundLate(l, q, late).received = l.received
<1> DEFINE r == Requested(l, q)
<1>1. r \in Ledger /\ Diff(r) = Diff(l) + q /\ r.received = l.received
  BY RequestedFact
<1> HIDE DEF r
<1>2. /\ [r EXCEPT !.late = @ + q] \in Ledger
      /\ Diff([r EXCEPT !.late = @ + q]) = Diff(r) - q
      /\ [r EXCEPT !.late = @ + q].received = r.received
  BY <1>1 DEF Ledger, Diff
<1>3. Diff(l) \in Int
  BY DEF Diff, Ledger
<1> QED BY <1>1, <1>2, <1>3 DEF RefundLate, Refund, r

\* HandleEventNoNonceChecking gives away what the event brings.
LEMMA HandleFact ==
  ASSUME TypeOK, NEW e \in EventType, NEW late \in BOOLEAN, NEW works \in BOOLEAN,
         NEW l \in HandleEvent(ledger, e, late, works)
  PROVE  l \in Ledger /\ Diff(l) = Diff(ledger) /\ l.received = ledger.received + e.amount
<1> DEFINE r == [ledger EXCEPT !.received = @ + e.amount]
           q == e.amount - transferFee
           f == AddFee(r, transferFee)
<1>0. e.amount \in Nat /\ transferFee \in Nat /\ ledger \in Ledger /\ Diff(ledger) \in Int
  BY DEF TypeOK, EventType, Diff, Ledger
<1>1. r \in Ledger /\ Diff(r) = Diff(ledger) - e.amount /\ r.received = ledger.received + e.amount
  BY <1>0 DEF Ledger, Diff
<1>2. \/ l = Kept(r, e.amount)
      \/ l = AddFee(r, e.amount)
      \/ e.amount > transferFee /\ l \in Deliver(RefundLate(f, q, late), e, q, works)
  <2> HIDE DEF r
  <2> QED BY <1>0 DEF HandleEvent, r
<1> HIDE DEF r
<1>3. CASE l = Kept(r, e.amount)
  BY <1>0, <1>1, <1>3, KeptFact
<1>4. CASE l = AddFee(r, e.amount)
  <2>1. /\ AddFee(r, e.amount) \in Ledger
        /\ Diff(AddFee(r, e.amount)) = Diff(r) + e.amount
        /\ AddFee(r, e.amount).received = r.received
    BY <1>0, <1>1 DEF AddFee, Ledger, Diff
  <2> QED BY <1>0, <1>1, <1>4, <2>1
<1>5. CASE e.amount > transferFee /\ l \in Deliver(RefundLate(f, q, late), e, q, works)
  <2>1. q \in Nat /\ q + transferFee = e.amount
    BY <1>0, <1>5
  <2>2. f \in Ledger /\ Diff(f) = Diff(r) + transferFee /\ f.received = r.received
    BY <1>0, <1>1 DEF AddFee, Ledger, Diff
  <2> HIDE DEF f, q
  <2>3. /\ RefundLate(f, q, late) \in Ledger
        /\ Diff(RefundLate(f, q, late)) = Diff(f)
        /\ RefundLate(f, q, late).received = f.received
    BY <2>1, <2>2, RefundLateFact
  <2>4. l \in Ledger /\ Diff(l) = Diff(RefundLate(f, q, late)) + q
          /\ l.received = RefundLate(f, q, late).received
    BY <1>5, <2>1, <2>3, DeliverFact
  <2> QED BY <1>0, <1>1, <2>1, <2>2, <2>3, <2>4
<1> QED BY <1>2, <1>3, <1>4, <1>5

-----------------------------------------------------------------------------
(* The supply of the token *)

\* what the accounts hold
Held(l) == SumFunctionOnSet(l.balance, Accounts)

\* There are finitely many holders to sum over.
LEMMA FiniteAccounts == IsFiniteSet(Accounts)
<1>1. IsFiniteSet(Bound \cup Others)
  BY AccountAssumption, FS_Union
<1> QED BY <1>1, FS_AddElement DEF Accounts

\* The sum of the balances is a natural number.
LEMMA HeldIsNat == ASSUME NEW l \in Ledger PROVE Held(l) \in Nat
<1> DEFINE F == l.balance
<1>1. \A a \in Accounts : F[a] \in Nat
  BY DEF Ledger
<1> HIDE DEF F
<1>2. SumFunctionOnSet(F, Accounts) \in Nat
  BY <1>1, FiniteAccounts, SumNat
<1> QED BY <1>2 DEF Held, F

\* When the balance of one account changes, the sum changes as much.
LEMMA AccountChange ==
  ASSUME NEW F \in [Accounts -> Nat], NEW G \in [Accounts -> Nat], NEW a \in Accounts,
         \A x \in Accounts \ {a} : F[x] = G[x]
  PROVE  SumFunctionOnSet(G, Accounts) = SumFunctionOnSet(F, Accounts) + G[a] - F[a]
<1>1. \A x \in Accounts : F[x] \in Int /\ G[x] \in Int
  OBVIOUS
<1> QED BY <1>1, FiniteAccounts, SumChange

\* subBalance takes its amount from the sum of the balances.
LEMMA DebitedHeld ==
  ASSUME NEW l \in Ledger, NEW a \in Accounts, NEW q \in Nat, l.balance[a] >= q
  PROVE  Held(Debited(l, a, q)) = Held(l) - q /\ Debited(l, a, q).supply = l.supply
<1> DEFINE F == l.balance
           G == Debited(l, a, q).balance
<1>1. F \in [Accounts -> Nat] /\ G \in [Accounts -> Nat]
  BY MovedFact DEF Ledger
<1>2. G[a] = F[a] - q /\ \A x \in Accounts \ {a} : F[x] = G[x]
  BY DEF Debited, Ledger
<1>3. Debited(l, a, q).supply = l.supply
  BY DEF Debited, Ledger
<1> HIDE DEF F, G
<1>4. SumFunctionOnSet(G, Accounts) = SumFunctionOnSet(F, Accounts) + G[a] - F[a]
  BY <1>1, <1>2, AccountChange
<1>5. SumFunctionOnSet(F, Accounts) = Held(l) /\ SumFunctionOnSet(G, Accounts) = Held(Debited(l, a, q))
  BY DEF Held, F, G
<1> QED BY <1>1, <1>2, <1>3, <1>4, <1>5, HeldIsNat

\* addBalance adds its amount to the sum of the balances.
LEMMA CreditedHeld ==
  ASSUME NEW l \in Ledger, NEW a \in Accounts, NEW q \in Nat
  PROVE  Held(Credited(l, a, q)) = Held(l) + q /\ Credited(l, a, q).supply = l.supply
<1> DEFINE F == l.balance
           G == Credited(l, a, q).balance
<1>1. F \in [Accounts -> Nat] /\ G \in [Accounts -> Nat]
  BY MovedFact DEF Ledger
<1>2. G[a] = F[a] + q /\ \A x \in Accounts \ {a} : F[x] = G[x]
  BY DEF Credited, Ledger
<1>3. Credited(l, a, q).supply = l.supply
  BY DEF Credited, Ledger
<1> HIDE DEF F, G
<1>4. SumFunctionOnSet(G, Accounts) = SumFunctionOnSet(F, Accounts) + G[a] - F[a]
  BY <1>1, <1>2, AccountChange
<1>5. SumFunctionOnSet(F, Accounts) = Held(l) /\ SumFunctionOnSet(G, Accounts) = Held(Credited(l, a, q))
  BY DEF Held, F, G
<1> QED BY <1>1, <1>2, <1>3, <1>4, <1>5, HeldIsNat

\* Only the balances and the supply count.
LEMMA SameHeld ==
  ASSUME NEW l, NEW m, m.balance = l.balance
  PROVE  Held(m) = Held(l)
BY DEF Held

\* the balances add up, and the supply is within its limit
Backed(l) == l.supply = Held(l) /\ l.supply <= MaxSupply

\* A ledger with the same balances and the same supply is as good.
LEMMA SameBacked ==
  ASSUME NEW l, Backed(l), NEW m, m.balance = l.balance, m.supply = l.supply
  PROVE  Backed(m)
BY SameHeld DEF Backed

\* A request, an amount that is kept and a fee leave the balances and the supply
\* alone.
LEMMA RequestedBacked ==
  ASSUME NEW l \in Ledger, Backed(l), NEW q \in Nat
  PROVE  Backed(Requested(l, q)) /\ Backed(Kept(l, q)) /\ Backed(AddFee(l, q))
<1>1. Requested(l, q).balance = l.balance /\ Requested(l, q).supply = l.supply
  BY DEF Requested, Ledger
<1>2. Kept(l, q).balance = l.balance /\ Kept(l, q).supply = l.supply
  BY DEF Kept, Ledger
<1>3. AddFee(l, q).balance = l.balance /\ AddFee(l, q).supply = l.supply
  BY DEF AddFee, Ledger
<1> QED BY <1>1, <1>2, <1>3, SameBacked

\* An issue within the limit goes to the account it is for.
LEMMA IssuedBacked ==
  ASSUME NEW l \in Ledger, Backed(l), NEW a \in Accounts, NEW q \in Nat,
         ~ (l.supply + q > MaxSupply)
  PROVE  Backed(Issued(l, a, q))
<1> DEFINE i == Issue(l, q)
<1>1. i \in Ledger /\ i.balance = l.balance /\ i.supply = l.supply + q
  BY DEF Issue, Ledger
<1> HIDE DEF i
<1>2. Held(i) = Held(l)
  BY <1>1, SameHeld
<1>3. Held(Credited(i, a, q)) = Held(i) + q /\ Credited(i, a, q).supply = i.supply
  BY <1>1, CreditedHeld
<1>4. l.supply \in Int
  BY DEF Ledger
<1> QED BY <1>1, <1>2, <1>3, <1>4, NumbersAssumption DEF Backed, Issued, i

\* Tokens that leave an account arrive at another or are retired.
LEMMA TransferredBacked ==
  ASSUME NEW l \in Ledger, Backed(l), NEW from \in Accounts, NEW to \in Accounts, NEW q \in Nat,
         l.balance[from] >= q
  PROVE  Backed(Transferred(l, from, to, q)) /\ Backed(TransferredOut(l, from, q))
<1> USE NumbersAssumption
<1> DEFINE d == Debited(l, from, q)
           r == Retired(d, q)
<1>1. d \in Ledger /\ Held(d) = Held(l) - q /\ d.supply = l.supply
  BY MovedFact, DebitedHeld
<1> HIDE DEF d
<1>2. r \in Ledger /\ r.balance = d.balance /\ r.supply = d.supply - q
  BY <1>1, RetiredFact DEF Retired, Ledger
<1> HIDE DEF r
<1>3. Held(r) = Held(d)
  BY <1>2, SameHeld
<1>4. l.supply \in Int /\ Held(l) \in Nat
  BY HeldIsNat DEF Ledger
<1>5. Backed(r)
  BY <1>1, <1>2, <1>3, <1>4 DEF Backed
<1>6. Backed(Requested(r, q))
  BY <1>2, <1>5, RequestedBacked
<1>7. Held(Credited(d, to, q)) = Held(d) + q /\ Credited(d, to, q).supply = d.supply
  BY <1>1, CreditedHeld
<1>8. Backed(Credited(d, to, q))
  BY <1>1, <1>4, <1>7 DEF Backed
<1> QED BY <1>6, <1>8 DEF Transferred, TransferredOut, OnTransfer, d, r

\* Every branch that delivers an event keeps the supply backed by the balances.
LEMMA DeliverBacked ==
  ASSUME NEW l \in Ledger, Backed(l), NEW e \in EventType, NEW q \in Nat,
         NEW works \in BOOLEAN, NEW r \in Deliver(l, e, q, works)
  PROVE  Backed(r)
<1> DEFINE i == Issued(l, e.account, q)
<1>1. CASE ~ e.single \/ e.account = NoAccount
  <2>1. r = Kept(l, q)
    BY <1>1 DEF Deliver, EventType
  <2> QED BY <2>1, RequestedBacked
<1>3. CASE e.single /\ e.account # NoAccount /\ e.dest \in {NoAccount, "short"}
  <2>1. r = Requested(l, q)
    BY <1>3 DEF Deliver, Refund
  <2> QED BY <2>1, RequestedBacked
<1>4. CASE e.single /\ e.account # NoAccount /\ e.dest \notin {NoAccount, "short"}
  <2>1. e.account \in Accounts
    BY <1>4 DEF EventType, Accounts
  <2>2. ~ (l.supply + q > MaxSupply)
    BY <1>4 DEF Deliver
  <2>3. i \in Ledger /\ i.balance[e.account] >= q /\ Backed(i)
    BY <2>1, <2>2, IssuedFact, IssuedBacked
  <2>4. \/ r = i
        \/ e.dest \notin {"self", "call"} /\ r = Transferred(i, e.account, e.dest, q)
    BY <1>4 DEF Deliver
  <2>5. CASE r = i
    BY <2>3, <2>5
  <2>6. CASE e.dest \notin {"self", "call"} /\ r = Transferred(i, e.account, e.dest, q)
    <3>1. e.dest \in Accounts
      BY <1>4, <2>6 DEF EventType
    <3> HIDE DEF i
    <3> QED BY <2>1, <2>3, <2>6, <3>1, TransferredBacked
  <2> QED BY <2>4, <2>5, <2>6
<1> QED BY <1>1, <1>3, <1>4 DEF EventType

\* HandleEventNoNonceChecking keeps the token sound.
LEMMA HandleBacked ==
  ASSUME TypeOK, Backed(ledger), NEW e \in EventType, NEW late \in BOOLEAN,
         NEW works \in BOOLEAN, NEW l \in HandleEvent(ledger, e, late, works)
  PROVE  Backed(l)
<1> DEFINE r == [ledger EXCEPT !.received = @ + e.amount]
           q == e.amount - transferFee
           f == AddFee(r, transferFee)
           g == RefundLate(f, q, late)
<1>0. e.amount \in Nat /\ transferFee \in Nat /\ ledger \in Ledger
  BY DEF TypeOK, EventType
<1>1. r \in Ledger /\ r.balance = ledger.balance /\ r.supply = ledger.supply
  BY <1>0 DEF Ledger
<1>2. \/ l = Kept(r, e.amount)
      \/ l = AddFee(r, e.amount)
      \/ e.amount > transferFee /\ l \in Deliver(g, e, q, works)
  <2> HIDE DEF r
  <2> QED BY <1>0 DEF HandleEvent, r
<1> HIDE DEF r
<1>3. Backed(r)
  BY <1>1, SameBacked
<1>4. CASE l = Kept(r, e.amount) \/ l = AddFee(r, e.amount)
  BY <1>0, <1>1, <1>3, <1>4, RequestedBacked
<1>5. CASE e.amount > transferFee /\ l \in Deliver(g, e, q, works)
  <2>1. q \in Nat
    BY <1>0, <1>5
  <2>2. f \in Ledger /\ Backed(f)
    BY <1>0, <1>1, <1>3, RequestedBacked DEF AddFee, Ledger
  <2> HIDE DEF f, q
  <2>3. g \in Ledger
    BY <2>1, <2>2, RefundLateFact
  <2>4. g.balance = f.balance /\ g.supply = f.supply
    BY <2>1, <2>2 DEF RefundLate, Refund, Requested, Ledger
  <2> HIDE DEF g
  <2>5. Backed(g)
    BY <2>2, <2>4, SameBacked
  <2> QED BY <1>5, <2>1, <2>3, <2>5, DeliverBacked
<1> QED BY <1>2, <1>4, <1>5

-----------------------------------------------------------------------------
(* The nonces *)

\* CheckNonce takes exactly event n.
LEMMA CheckNonceFact ==
  ASSUME TypeOK, \A m \in submitted : m >= nonce, NEW n \in Nonces, n >= nonce, CheckNonce(n)
  PROVE  /\ nonce' \in 1 .. (MaxNonce + 1)
         /\ submitted' \subseteq Nonces
         /\ \A m \in submitted' : m >= nonce'
         /\ \A m \in Nonces : (m < nonce' \/ m \in submitted') <=> (m < nonce \/ m \in submitted \/ m = n)
<1> USE NumbersAssumption
<1> DEFINE S == submitted \cup {n}
           T == {m \in nonce .. (MaxNonce + 1) : m \notin S}
<1>1. nonce \in 1 .. (MaxNonce + 1) /\ submitted \subseteq Nonces
  BY DEF TypeOK
<1>2. MaxNonce + 1 \in T
  BY <1>1 DEF Nonces
<1>3. T \subseteq Nat
  BY <1>1
<1>4. nonce' = Min(T) /\ submitted' = {m \in S : m >= nonce'}
  BY DEF CheckNonce, NextNonce
<1> HIDE DEF T
<1>5. nonce' \in T /\ \A y \in T : nonce' <= y
  BY <1>2, <1>3, <1>4, MinFact
<1>6. nonce' \in nonce .. (MaxNonce + 1)
  BY <1>5 DEF T
<1>7. \A m \in nonce .. (MaxNonce + 1) : m < nonce' => m \in S
  BY <1>5, <1>6, <1>1 DEF T
<1>8. \A m \in Nonces : (m < nonce' \/ m \in submitted') <=> (m < nonce \/ m \in S)
  <2> TAKE m \in Nonces
  <2>1. m \in 1 .. MaxNonce
    BY DEF Nonces
  <2>2. CASE m < nonce
    BY <1>1, <1>6, <2>1, <2>2
  <2>3. CASE m >= nonce
    BY <1>1, <1>4, <1>6, <1>7, <2>1, <2>3
  <2> QED BY <1>1, <2>1, <2>2, <2>3
<1> QED BY <1>1, <1>4, <1>6, <1>8

\* The executor handles an event of the table.
LEMMA MinErrors == ASSUME TypeOK, errors # {} PROVE Min(errors) \in errors /\ Min(errors) \in Nonces
<1>1. errors \subseteq Nonces /\ Nonces \subseteq Nat
  BY NumbersAssumption DEF TypeOK, Nonces
<1> QED BY <1>1, MinFact

\* The invariant of the nonces needs the types, and the other way round.
LEMMA TypeInit == Init => TypeOK
<1> SUFFICES ASSUME Init PROVE TypeOK
  OBVIOUS
<1> USE NumbersAssumption DEF Init
<1>1. EmptyLedger \in Ledger
  BY DEF EmptyLedger, Ledger
<1>2. event \in [Nonces -> EventType]
  BY EventAssumption
<1>3. queue \in [Publishers -> SUBSET (0 .. MaxNonce)]
  OBVIOUS
<1>4. nonce \in 1 .. (MaxNonce + 1) /\ changes \in 0 .. MaxAdmin /\ transferFee \in Nat /\ createFee \in Nat
  OBVIOUS
<1>5. processAdded \in BOOLEAN /\ listed \in BOOLEAN
  BY Zenon
<1>6. submitted \subseteq Nonces /\ errors \subseteq Nonces /\ handled \subseteq Nonces /\ ledger \in Ledger
        /\ pool \subseteq {"event"} \X (0 .. MaxNonce) \cup {"error"} \X Nonces
  BY <1>1
<1> QED BY <1>2, <1>3, <1>4, <1>5, <1>6, Zenon DEF TypeOK

\* Every step keeps the types.
LEMMA TypeStep ==
  ASSUME TypeOK, TakenExactly, [Next]_vars
  PROVE  TypeOK'
<1> USE NumbersAssumption
<1> USE DEF settings
<1>1. ASSUME NEW p \in Publishers, NEW n \in Nonces, StoreGroupEvent(p, n) PROVE TypeOK'
  BY <1>1 DEF StoreGroupEvent, TypeOK, Nonces
<1>2. ASSUME NEW p \in Publishers, NEW n \in 0 .. MaxNonce, PushEvent(p, n) PROVE TypeOK'
  BY <1>2 DEF PushEvent, EventTransaction, TypeOK
<1>3. ASSUME NEW p \in Publishers, NEW n \in Nonces, PushErrorEvent(p, n) PROVE TypeOK'
  BY <1>3 DEF PushErrorEvent, ErrorEventTransaction, TypeOK
<1>4. CASE AddProcess
  BY <1>4 DEF AddProcess, EventTransaction, TypeOK
<1>5. ASSUME NEW n \in Nonces, OnEvent(n) PROVE TypeOK'
  <2>0. PICK late \in BOOLEAN, works \in BOOLEAN :
          \/ /\ Accepts(n)
             /\ \E l \in HandleEvent(ledger, event[n], late, works) : ledger' = l
             /\ handled' = handled \cup {n}
             /\ CheckNonce(n)
          \/ UNCHANGED <<ledger, handled, nonce, submitted>>
    BY <1>5 DEF OnEvent
  <2>1. pool' \subseteq pool /\ UNCHANGED <<queue, processAdded, errors, settings>>
    BY <1>5 DEF OnEvent
  <2>2. CASE UNCHANGED <<ledger, handled, nonce, submitted>>
    BY <2>1, <2>2 DEF TypeOK
  <2>3. CASE Accepts(n) /\ (\E l \in HandleEvent(ledger, event[n], late, works) : ledger' = l)
               /\ handled' = handled \cup {n} /\ CheckNonce(n)
    <3>1. event[n] \in EventType
      BY DEF TypeOK
    <3>2. ledger' \in Ledger
      BY <2>3, <3>1, HandleFact
    <3>3. nonce' \in 1 .. (MaxNonce + 1) /\ submitted' \subseteq Nonces
      BY <2>3, CheckNonceFact DEF Accepts, TakenExactly
    <3> QED BY <2>1, <2>3, <3>2, <3>3 DEF TypeOK
  <2> QED BY <2>0, <2>2, <2>3
<1>6. ASSUME NEW n \in Nonces, OnErrorEvent(n) PROVE TypeOK'
  BY <1>6 DEF OnErrorEvent, TypeOK
<1>7. CASE Exec
  <2>1. PICK late \in BOOLEAN, works \in BOOLEAN :
          ledger' \in HandleEvent(ledger, event[Min(errors)], late, works)
    BY <1>7 DEF Exec, HandleErrorEvent
  <2>2. Min(errors) \in Nonces
    BY <1>7, MinErrors DEF Exec, HandleErrorEvent
  <2>3. ledger' \in Ledger
    BY <2>1, <2>2, HandleFact DEF TypeOK
  <2> QED BY <1>7, <2>2, <2>3 DEF Exec, HandleErrorEvent, TypeOK
<1>8. CASE DropTransaction
  BY <1>8 DEF DropTransaction, TypeOK
<1>9. ASSUME NEW from \in Senders, NEW to \in Accounts, NEW q \in Transfers, NEW out \in BOOLEAN,
             TokenTransfer(from, to, q, out)
      PROVE  TypeOK'
  <2>1. from \in Accounts /\ q \in Nat /\ ledger.balance[from] >= q
    BY <1>9, AccountAssumption DEF TokenTransfer, CanTransfer, Accounts
  <2>2. ledger' \in Ledger
    BY <1>9, <2>1, TransferredFact DEF TokenTransfer, TypeOK
  <2> QED BY <1>9, <2>2 DEF TokenTransfer, TypeOK
<1>10. CASE (\E f \in Fees : SetTransferFee(f) \/ SetCreateAccountFee(f))
              \/ AddMixinAsset \/ RemoveMixinAsset
  <2>1. Change
    BY <1>10 DEF SetTransferFee, SetCreateAccountFee, AddMixinAsset, RemoveMixinAsset
  <2>2. changes' \in 0 .. MaxAdmin
    BY <2>1 DEF Change, TypeOK
  <2>3. transferFee' \in Nat /\ createFee' \in Nat
    BY <1>10 DEF SetTransferFee, SetCreateAccountFee, AddMixinAsset, RemoveMixinAsset, TypeOK
  <2>4. listed' \in BOOLEAN
    BY <1>10 DEF SetTransferFee, SetCreateAccountFee, AddMixinAsset, RemoveMixinAsset, TypeOK
  <2> QED BY <2>1, <2>2, <2>3, <2>4 DEF Change, TypeOK
<1>11. CASE UNCHANGED vars
  BY <1>11 DEF vars, TypeOK
<1> QED
  BY <1>1, <1>2, <1>3, <1>4, <1>5, <1>6, <1>7, <1>8, <1>9, <1>10, <1>11 DEF Next

-----------------------------------------------------------------------------
\* At the start no event is taken.
LEMMA TakenInit == Init => TakenExactly
BY NumbersAssumption DEF Init, TakenExactly, Taken, Nonces

\* A step that changes neither the nonces nor the sets keeps the invariant.
LEMMA SameTaken ==
  ASSUME TakenExactly, UNCHANGED <<nonce, submitted, handled, errors>>
  PROVE  TakenExactly'
BY DEF TakenExactly, Taken

\* Every step keeps the nonce and the table exact.
LEMMA TakenStep ==
  ASSUME TypeOK, TakenExactly, [Next]_vars
  PROVE  TakenExactly'
<1> USE NumbersAssumption
<1>1. ASSUME NEW n \in Nonces, OnEvent(n) PROVE TakenExactly'
  <2>1. CASE UNCHANGED <<handled, nonce, submitted>>
    BY <1>1, <2>1, SameTaken DEF OnEvent
  <2>2. CASE Accepts(n) /\ handled' = handled \cup {n} /\ CheckNonce(n)
    <3>1. /\ \A m \in submitted' : m >= nonce'
          /\ \A m \in Nonces : (m < nonce' \/ m \in submitted') <=> (m < nonce \/ m \in submitted \/ m = n)
      BY <2>2, CheckNonceFact DEF Accepts, TakenExactly
    <3>2. errors' = errors
      BY <1>1 DEF OnEvent
    <3>3. n \notin handled \cup errors
      BY <2>2 DEF Accepts, TakenExactly, Taken, TypeOK, Nonces
    <3>4. \A m \in Nonces : Taken(m)' <=> m \in handled' \cup errors'
      BY <2>2, <3>1, <3>2 DEF TakenExactly, Taken
    <3> QED BY <2>2, <3>1, <3>2, <3>3, <3>4 DEF TakenExactly
  <2> QED BY <1>1, <2>1, <2>2 DEF OnEvent
<1>2. ASSUME NEW n \in Nonces, OnErrorEvent(n) PROVE TakenExactly'
  <2>1. CASE UNCHANGED <<submitted, errors>>
    BY <1>2, <2>1, SameTaken DEF OnErrorEvent
  <2>2. CASE Accepts(n) /\ submitted' = submitted \cup {n} /\ errors' = errors \cup {n}
    <3>1. UNCHANGED <<nonce, handled>>
      BY <1>2 DEF OnErrorEvent
    <3>2. n \notin handled \cup errors /\ n >= nonce
      BY <2>2 DEF Accepts, TakenExactly, Taken, TypeOK, Nonces
    <3>3. \A m \in Nonces : Taken(m)' <=> m \in handled' \cup errors'
      BY <2>2, <3>1 DEF TakenExactly, Taken
    <3> QED BY <2>2, <3>1, <3>2, <3>3 DEF TakenExactly
  <2> QED BY <1>2, <2>1, <2>2 DEF OnErrorEvent
<1>3. CASE Exec
  <2>1. Min(errors) \in errors
    BY <1>3, MinErrors DEF Exec, HandleErrorEvent
  <2>2. handled' = handled \cup {Min(errors)} /\ errors' = errors \ {Min(errors)}
          /\ UNCHANGED <<nonce, submitted>>
    BY <1>3 DEF Exec, HandleErrorEvent
  <2> QED BY <2>1, <2>2 DEF TakenExactly, Taken
<1>4. CASE ~ (Exec \/ \E n \in Nonces : OnEvent(n) \/ OnErrorEvent(n))
  <2>1. UNCHANGED <<nonce, submitted, handled, errors>>
    BY <1>4 DEF Next, vars, settings, StoreGroupEvent, PushEvent, PushErrorEvent, AddProcess,
      DropTransaction, TokenTransfer, SetTransferFee, SetCreateAccountFee, AddMixinAsset,
      RemoveMixinAsset, Change
  <2> QED BY <2>1, SameTaken
<1> QED BY <1>1, <1>2, <1>3, <1>4

\* Every step keeps what came in equal to what is issued, paid, earned and kept.
LEMMA ConservedStep ==
  ASSUME TypeOK, Conserved, [Next]_vars
  PROVE  Conserved'
<1>0. ledger \in Ledger /\ Diff(ledger) = 0
  BY DEF TypeOK, Conserved, Diff, Ledger
<1>1. ASSUME ledger' \in Ledger, Diff(ledger') = 0 PROVE Conserved'
  BY <1>1 DEF Conserved, Diff, Ledger
<1>2. ASSUME NEW n \in Nonces, OnEvent(n) PROVE Conserved'
  <2>1. CASE ledger' = ledger
    BY <1>0, <1>1, <2>1
  <2>2. CASE \E late, works \in BOOLEAN : ledger' \in HandleEvent(ledger, event[n], late, works)
    <3>1. event[n] \in EventType
      BY DEF TypeOK
    <3> QED BY <1>0, <1>1, <2>2, <3>1, HandleFact
  <2> QED BY <1>2, <2>1, <2>2 DEF OnEvent
<1>3. CASE Exec
  <2>1. event[Min(errors)] \in EventType
    BY <1>3, MinErrors DEF Exec, HandleErrorEvent, TypeOK
  <2>2. PICK late \in BOOLEAN, works \in BOOLEAN :
          ledger' \in HandleEvent(ledger, event[Min(errors)], late, works)
    BY <1>3 DEF Exec, HandleErrorEvent
  <2> QED BY <1>0, <1>1, <2>1, <2>2, HandleFact
<1>4. ASSUME NEW from \in Senders, NEW to \in Accounts, NEW q \in Transfers, NEW out \in BOOLEAN,
             TokenTransfer(from, to, q, out)
      PROVE  Conserved'
  <2>1. from \in Accounts /\ q \in Nat /\ ledger.balance[from] >= q
    BY <1>4, NumbersAssumption, AccountAssumption DEF TokenTransfer, CanTransfer, Accounts
  <2>2. ledger' \in Ledger /\ Diff(ledger') = Diff(ledger)
    BY <1>0, <1>4, <2>1, TransferredFact DEF TokenTransfer
  <2> QED BY <1>0, <1>1, <2>2
<1>5. CASE ledger' = ledger
  BY <1>0, <1>1, <1>5
<1>6. \/ ledger' = ledger \/ Exec \/ (\E n \in Nonces : OnEvent(n))
      \/ \E from \in Senders, to \in Accounts, q \in Transfers, out \in BOOLEAN :
           TokenTransfer(from, to, q, out)
  BY DEF Next, vars, settings, StoreGroupEvent, PushEvent, PushErrorEvent, AddProcess,
    OnErrorEvent, DropTransaction, SetTransferFee, SetCreateAccountFee, AddMixinAsset,
    RemoveMixinAsset, Change
<1> QED BY <1>2, <1>3, <1>4, <1>5, <1>6

\* Every step keeps the token sound.
LEMMA TokensStep ==
  ASSUME TypeOK, TokensAddUp, [Next]_vars
  PROVE  TokensAddUp'
<1>0. ledger \in Ledger /\ Backed(ledger)
  BY DEF TypeOK, TokensAddUp, Backed, Held
<1>1. ASSUME Backed(ledger') PROVE TokensAddUp'
  BY <1>1 DEF TokensAddUp, Backed, Held
<1>2. ASSUME NEW n \in Nonces, OnEvent(n) PROVE TokensAddUp'
  <2>1. CASE ledger' = ledger
    BY <1>0, <1>1, <2>1
  <2>2. CASE \E late, works \in BOOLEAN : ledger' \in HandleEvent(ledger, event[n], late, works)
    <3>1. event[n] \in EventType
      BY DEF TypeOK
    <3> QED BY <1>0, <1>1, <2>2, <3>1, HandleBacked
  <2> QED BY <1>2, <2>1, <2>2 DEF OnEvent
<1>3. CASE Exec
  <2>1. event[Min(errors)] \in EventType
    BY <1>3, MinErrors DEF Exec, HandleErrorEvent, TypeOK
  <2>2. PICK late \in BOOLEAN, works \in BOOLEAN :
          ledger' \in HandleEvent(ledger, event[Min(errors)], late, works)
    BY <1>3 DEF Exec, HandleErrorEvent
  <2> QED BY <1>0, <1>1, <2>1, <2>2, HandleBacked
<1>4. ASSUME NEW from \in Senders, NEW to \in Accounts, NEW q \in Transfers, NEW out \in BOOLEAN,
             TokenTransfer(from, to, q, out)
      PROVE  TokensAddUp'
  <2>1. from \in Accounts /\ q \in Nat /\ ledger.balance[from] >= q
    BY <1>4, NumbersAssumption, AccountAssumption DEF TokenTransfer, CanTransfer, Accounts
  <2>2. Backed(ledger')
    BY <1>0, <1>4, <2>1, TransferredBacked DEF TokenTransfer
  <2> QED BY <1>1, <2>2
<1>5. CASE ledger' = ledger
  BY <1>0, <1>1, <1>5
<1>6. \/ ledger' = ledger \/ Exec \/ (\E n \in Nonces : OnEvent(n))
      \/ \E from \in Senders, to \in Accounts, q \in Transfers, out \in BOOLEAN :
           TokenTransfer(from, to, q, out)
  BY DEF Next, vars, settings, StoreGroupEvent, PushEvent, PushErrorEvent, AddProcess,
    OnErrorEvent, DropTransaction, SetTransferFee, SetCreateAccountFee, AddMixinAsset,
    RemoveMixinAsset, Change
<1> QED BY <1>2, <1>3, <1>4, <1>5, <1>6

-----------------------------------------------------------------------------
ProxyInv == TypeOK /\ TakenExactly /\ Conserved /\ TokensAddUp

\* The invariant of the contract holds in every behaviour.
LEMMA ProxyInvariant == Spec => []ProxyInv
<1>1. Init => ProxyInv
  <2>1. Init => Conserved
    BY DEF Init, EmptyLedger, Conserved
  <2>2. ASSUME Init PROVE TokensAddUp
    <3> DEFINE F == ledger.balance
    <3>1. \A a \in Accounts : F[a] = 0
      BY <2>2 DEF Init, EmptyLedger
    <3>2. ledger.supply = 0
      BY <2>2 DEF Init, EmptyLedger
    <3> HIDE DEF F
    <3>3. SumFunctionOnSet(F, Accounts) = 0
      BY <3>1, FiniteAccounts, SumZero
    <3> QED BY <3>2, <3>3, NumbersAssumption DEF TokensAddUp, F
  <2> QED BY TypeInit, TakenInit, <2>1, <2>2 DEF ProxyInv
<1>2. ProxyInv /\ [Next]_vars => ProxyInv'
  BY TypeStep, TakenStep, ConservedStep, TokensStep DEF ProxyInv
<1> QED BY <1>1, <1>2, PTL DEF Spec

\* No handler of mixinproxy or of its token lets a balance become negative, and the
\* nonces of the tables are those of events.
THEOREM TypeCorrect == Spec => []TypeOK
<1>1. ProxyInv => TypeOK
  BY DEF ProxyInv
<1> QED BY <1>1, ProxyInvariant, PTL

\* CheckNonce and StoreNonce know at every moment exactly which events were handled
\* and which wait for the executor, however often and in whatever order publishers
\* push them.
THEOREM TakenIsExact == Spec => []TakenExactly
<1>1. ProxyInv => TakenExactly
  BY DEF ProxyInv
<1> QED BY <1>1, ProxyInvariant, PTL

\* Whatever events, fees, settings and transfers come, what was issued, paid out,
\* earned and kept is what was received, and the refunds of late events.
THEOREM MoneyConserved == Spec => []Conserved
<1>1. ProxyInv => Conserved
  BY DEF ProxyInv
<1> QED BY <1>1, ProxyInvariant, PTL

\* Issue, transfer, retire and retireex, in every handler that calls them, keep the
\* supply of the token equal to the sum of its balances and within its limit, for
\* every number of accounts.
THEOREM TokensAddUpHolds == Spec => []TokensAddUp
<1>1. ProxyInv => TokensAddUp
  BY DEF ProxyInv
<1> QED BY <1>1, ProxyInvariant, PTL

-----------------------------------------------------------------------------
(* mixinproxy implements EventOnce *)

\* The initial state is one of EventOnce.
LEMMA OnceInit == Init => Once!Init
<1> SUFFICES ASSUME Init PROVE Once!Init
  OBVIOUS
<1>1. event \in [Nonces -> EventType]
  BY EventAssumption DEF Init
<1>2. [n \in Nonces |-> event[n].amount] \in [Nonces -> Nat]
  BY <1>1 DEF EventType
<1>3. Status = [n \in Nonces |-> "new"]
  BY DEF Init, Status
<1>4. ledger.received = 0
  BY DEF Init, EmptyLedger
<1> QED BY <1>2, <1>3, <1>4 DEF Once!Init

\* the variables of EventOnce do not change
SameOnce == UNCHANGED <<[n \in Nonces |-> event[n].amount], Status, ledger.received>>

\* A step that changes neither the sets nor what was received is a stutter.
LEMMA StutterOnce ==
  ASSUME UNCHANGED <<event, handled, errors>>, ledger'.received = ledger.received
  PROVE  SameOnce
BY DEF SameOnce, Status

\* An event that is handled, be it at once or by the executor, is handled once.
LEMMA HandleOnce ==
  ASSUME TypeOK, NEW n \in Nonces, n \notin handled, event' = event,
         handled' = handled \cup {n},
         errors' = errors \/ errors' = errors \ {n},
         ledger'.received = ledger.received + event[n].amount
  PROVE  Once!Handle(n)
<1>1. Status[n] # "handled"
  BY DEF Status
<1>2. Status' = [Status EXCEPT ![n] = "handled"]
  BY DEF Status
<1>3. [m \in Nonces |-> event[m].amount][n] = event[n].amount
  OBVIOUS
<1> QED BY <1>1, <1>2, <1>3 DEF Once!Handle

\* Every step is one of EventOnce or changes nothing it sees.
LEMMA OnceStep ==
  ASSUME TypeOK, TakenExactly, [Next]_vars
  PROVE  SameOnce \/ Once!Next
<1> USE NumbersAssumption
<1>1. ASSUME NEW n \in Nonces, OnEvent(n) PROVE SameOnce \/ Once!Next
  <2>0. event' = event /\ errors' = errors
    BY <1>1 DEF OnEvent, settings
  <2>1. CASE UNCHANGED <<ledger, handled>>
    BY <2>0, <2>1, StutterOnce
  <2>2. CASE Accepts(n) /\ handled' = handled \cup {n}
               /\ \E late, works \in BOOLEAN : ledger' \in HandleEvent(ledger, event[n], late, works)
    <3>1. n \notin handled
      BY <2>2 DEF Accepts, TakenExactly, Taken, TypeOK, Nonces
    <3>2. event[n] \in EventType
      BY DEF TypeOK
    <3>3. ledger'.received = ledger.received + event[n].amount
      BY <2>2, <3>2, HandleFact
    <3>4. Once!Handle(n)
      BY <2>0, <2>2, <3>1, <3>3, HandleOnce
    <3> QED BY <3>4 DEF Once!Next
  <2> QED BY <1>1, <2>1, <2>2 DEF OnEvent
<1>2. ASSUME NEW n \in Nonces, OnErrorEvent(n) PROVE SameOnce \/ Once!Next
  <2>0. UNCHANGED <<event, handled, ledger>>
    BY <1>2 DEF OnErrorEvent, settings
  <2>1. CASE errors' = errors
    BY <2>0, <2>1, StutterOnce
  <2>2. CASE Accepts(n) /\ errors' = errors \cup {n}
    <3>1. n \notin handled \cup errors
      BY <2>2 DEF Accepts, TakenExactly, Taken, TypeOK, Nonces
    <3>2. Status[n] = "new"
      BY <3>1 DEF Status
    <3>3. Status' = [Status EXCEPT ![n] = "accepted"]
      BY <2>0, <2>2, <3>1 DEF Status
    <3>4. Once!Accept(n)
      BY <2>0, <3>2, <3>3 DEF Once!Accept
    <3> QED BY <3>4 DEF Once!Next
  <2> QED BY <1>2, <2>1, <2>2 DEF OnErrorEvent
<1>3. CASE Exec
  <2>1. Min(errors) \in errors /\ Min(errors) \in Nonces
    BY <1>3, MinErrors DEF Exec, HandleErrorEvent
  <2>2. Min(errors) \notin handled
    BY <2>1 DEF TakenExactly
  <2>3. PICK late \in BOOLEAN, works \in BOOLEAN :
          ledger' \in HandleEvent(ledger, event[Min(errors)], late, works)
    BY <1>3 DEF Exec, HandleErrorEvent
  <2>4. ledger'.received = ledger.received + event[Min(errors)].amount
    BY <2>1, <2>3, HandleFact DEF TypeOK
  <2>5. event' = event /\ handled' = handled \cup {Min(errors)} /\ errors' = errors \ {Min(errors)}
    BY <1>3 DEF Exec, HandleErrorEvent, settings
  <2>6. Once!Handle(Min(errors))
    BY <2>1, <2>2, <2>4, <2>5, HandleOnce
  <2> QED BY <2>1, <2>6 DEF Once!Next
<1>4. ASSUME NEW from \in Senders, NEW to \in Accounts, NEW q \in Transfers, NEW out \in BOOLEAN,
             TokenTransfer(from, to, q, out)
      PROVE  SameOnce
  <2>1. from \in Accounts /\ q \in Nat /\ ledger.balance[from] >= q /\ ledger \in Ledger
    BY <1>4, AccountAssumption DEF TokenTransfer, CanTransfer, Accounts, TypeOK
  <2>2. ledger'.received = ledger.received
    BY <1>4, <2>1, TransferredFact DEF TokenTransfer
  <2>3. UNCHANGED <<event, handled, errors>>
    BY <1>4 DEF TokenTransfer, settings
  <2> QED BY <2>2, <2>3, StutterOnce
<1>5. CASE UNCHANGED <<event, handled, errors, ledger>>
  BY <1>5, StutterOnce
<1>6. \/ UNCHANGED <<event, handled, errors, ledger>>
      \/ Exec \/ (\E n \in Nonces : OnEvent(n) \/ OnErrorEvent(n))
      \/ \E from \in Senders, to \in Accounts, q \in Transfers, out \in BOOLEAN :
           TokenTransfer(from, to, q, out)
  BY DEF Next, vars, settings, StoreGroupEvent, PushEvent, PushErrorEvent, AddProcess,
    DropTransaction, SetTransferFee, SetCreateAccountFee, AddMixinAsset, RemoveMixinAsset, Change
<1> QED BY <1>1, <1>2, <1>3, <1>4, <1>5, <1>6

\* mixinproxy handles each event at most once and counts its amount once, whether it
\* comes as an event, as an error event, as both, twice or late: its specification
\* implements EventOnce.
THEOREM ImplementsEventOnce == Spec => HandledAtMostOnce
<1>1. ProxyInv /\ [Next]_vars =>
        [Once!Next]_<<[n \in Nonces |-> event[n].amount], Status, ledger.received>>
  BY OnceStep DEF ProxyInv, SameOnce
<1> QED BY <1>1, OnceInit, ProxyInvariant, PTL DEF Spec, HandledAtMostOnce, Once!Spec
=============================================================================
