--------------------------- MODULE RegistryProofs ---------------------------
(* Proofs about Registry for any users, processes, assets and events.       *)
EXTENDS Registry, SequenceTheorems, SumTheorems

Frames == Runs \cup Writes

\* The tokens of every asset add up to its supply.
Adds(l) == \A a \in Assets : l.supply[a] = SumFunctionOnSet(l.token[a], Holders)

\* What arrived is in issue, about to be sent or sent.
Kept(l) ==
  \A a \in Assets : l.supply[a] + l.building[a] + l.sent[a] = Arrived(l.inbound, a)

\* The balances of the Registry are backed.
Backed(l) == \A a \in Assets \ l.nested : l.custody[a] = l.supply[a] + l.building[a]

\* What was taken was given.
Within(l) ==
  \A a \in Assets, u \in Users, h \in Holders :
    l.taken[a][u][h] + l.allowed[a][u][h] <= l.given[a][u][h]

\* The nonces follow one another.
Numbered(l) == l.crossed \/ l.logged = 0 .. l.outbound - 1

\* What holds of a ledger, also of one that a revert may restore and in the
\* middle of a step.
Sound(l) ==
  l \in Ledgers /\ Adds(l) /\ Kept(l) /\ Backed(l) /\ Within(l) /\ Numbered(l)

\* A user has what is due to it.
Passage(l) ==
  \A a \in Assets, u \in Users :
    l.token[a][u] = l.due[a][u] \/ u \in l.loose[a] \/ a \in l.nested

Good(l) == Sound(l) /\ Passage(l)

\* What is being built and what is due while a frame is the innermost one.
OpenBuilding(f) ==
  IF f.kind = "write" THEN [f.before.building EXCEPT ![f.asset] = @ + f.amount]
  ELSE f.before.building
OpenAssets(f) ==
  IF f.kind = "write" THEN f.before.open \cup {f.asset} ELSE f.before.open
OpenDue(f) ==
  IF f.kind = "write" THEN f.before.due
  ELSE [f.before.due EXCEPT ![f.event.asset][f.event.user] = @ + f.event.amount]

\* From l to m no transaction was left being built, and what changed while one
\* was is marked.
Quiet(l, m) ==
  /\ m.building = l.building /\ m.open = l.open
  /\ l.nested \subseteq m.nested /\ (l.crossed => m.crossed)
  /\ \A a \in l.open : a \in m.nested \/ m.custody[a] = l.custody[a]
  /\ Building(l) => m.crossed \/ m.outbound = l.outbound

\* From l to m a call was made and has returned: no event was left running either.
Steady(l, m) == Quiet(l, m) /\ m.due = l.due

\* The ledger m is reached within the open call f.
Chain(m, f) ==
  /\ m.building = OpenBuilding(f) /\ m.open = OpenAssets(f) /\ m.due = OpenDue(f)
  /\ f.before.nested \subseteq m.nested /\ (f.before.crossed => m.crossed)
  /\ \A a \in m.open : a \in m.nested \/ m.custody[a] = f.before.custody[a]
  /\ Building(m) => m.crossed \/ m.outbound = f.before.outbound
  /\ f.kind = "write" => /\ f.asset \in f.before.open => f.asset \in m.nested
                         /\ Building(f.before) => m.crossed

\* No call is open.
AtRest(l) ==
  \A a \in Assets : l.building[a] = 0 /\ \A u \in Users : l.due[a][u] = 0

\* The ledger l is reached within the first i of the open calls s.
Sits(l, s, i) == IF i = 0 THEN AtRest(l) ELSE Chain(l, s[i])

\* What an open call remembers.
FrameOK(f) ==
  /\ f \in Frames
  /\ Good(f.before)
  /\ f.kind = "run" => /\ Good(f.saved) /\ Chain(f.saved, f)
                       /\ f.stage \in {"process", "own", "done"} => f.rest # <<>>
  /\ f.kind = "write" => /\ f.balance = f.before.custody[f.asset]
                         /\ f.nonce = f.before.outbound

Stacked(s) ==
  /\ s \in Seq(Frames)
  /\ Len(s) <= MaxDepth
  /\ \A i \in 1 .. Len(s) : FrameOK(s[i]) /\ Sits(s[i].before, s, i - 1)

RegistryInv ==
  /\ Good(ledger)
  /\ Stacked(stack)
  /\ Sits(ledger, stack, Len(stack))

-----------------------------------------------------------------------------
(* The open calls.                                                          *)

\* A call that returns leaves the ledger where the calls around it expect it.
LEMMA ChainSteady ==
  ASSUME NEW l, NEW m, NEW f, Chain(l, f), Steady(l, m)
  PROVE  Chain(m, f)
<1>1. Building(m) => Building(l)
  BY DEF Building, Steady, Quiet
<1> QED BY <1>1 DEF Chain, Steady, Quiet

\* One call after the other.
LEMMA QuietTrans ==
  ASSUME NEW l, NEW m, NEW n, Quiet(l, m), Quiet(m, n)
  PROVE  Quiet(l, n)
<1>1. Building(l) => Building(m)
  BY DEF Building, Quiet
<1> QED BY <1>1 DEF Quiet

\* Within an event nothing is being built but what was before it.
LEMMA RunChain ==
  ASSUME NEW f, f.kind = "run", NEW m
  PROVE  Chain(m, f) <=> Quiet(f.before, m) /\ m.due = OpenDue(f)
<1>1. m.open = f.before.open => (Building(m) <=> Building(f.before))
  BY DEF Building
<1> QED BY <1>1 DEF Chain, Quiet, OpenBuilding, OpenAssets

\* The same at any depth.
LEMMA SitsSteady ==
  ASSUME NEW l, NEW m, NEW s, NEW i, Sits(l, s, i), Steady(l, m)
  PROVE  Sits(m, s, i)
<1>1. CASE i = 0
  BY <1>1 DEF Sits, AtRest, Steady, Quiet
<1>2. CASE i # 0
  BY <1>2, ChainSteady DEF Sits
<1> QED BY <1>1, <1>2

\* Opening a call.
LEMMA PushStack ==
  ASSUME NEW s, Stacked(s), Len(s) < MaxDepth, NEW f, FrameOK(f),
         Sits(f.before, s, Len(s)), NEW m, Chain(m, f)
  PROVE  /\ Stacked(Append(s, f))
         /\ Sits(m, Append(s, f), Len(Append(s, f)))
<1> DEFINE t == Append(s, f)
<1>1. s \in Seq(Frames) /\ f \in Frames /\ Len(s) \in Nat /\ MaxDepth \in Nat
  BY RegistryAssumption DEF Stacked, FrameOK
<1>2. /\ t \in Seq(Frames) /\ Len(t) = Len(s) + 1
      /\ t[Len(s) + 1] = f
      /\ \A i \in 1 .. Len(s) : t[i] = s[i]
  BY <1>1
<1> HIDE DEF t
<1>3. ASSUME NEW i \in 1 .. Len(t) PROVE FrameOK(t[i]) /\ Sits(t[i].before, t, i - 1)
  <2>1. CASE i = Len(s) + 1
    <3>1. t[i] = f /\ i - 1 = Len(s)
      BY <1>1, <1>2, <2>1
    <3>2. Len(s) # 0 => t[Len(s)] = s[Len(s)]
      BY <1>1, <1>2
    <3> QED BY <3>1, <3>2 DEF Sits
  <2>2. CASE i # Len(s) + 1
    <3>1. i \in 1 .. Len(s) /\ t[i] = s[i] /\ (i - 1 # 0 => t[i - 1] = s[i - 1])
      BY <1>1, <1>2, <2>2
    <3>2. FrameOK(s[i]) /\ Sits(s[i].before, s, i - 1)
      BY <3>1 DEF Stacked
    <3> QED BY <3>1, <3>2 DEF Sits
  <2> QED BY <2>1, <2>2
<1>4. Stacked(t)
  BY <1>1, <1>2, <1>3 DEF Stacked
<1>5. Sits(m, t, Len(t))
  BY <1>1, <1>2 DEF Sits
<1> QED BY <1>4, <1>5 DEF t

\* Closing a call leaves the calls around it.
LEMMA PopStack ==
  ASSUME NEW s, Stacked(s), s # <<>>
  PROVE  LET t == SubSeq(s, 1, Len(s) - 1)
         IN /\ Stacked(t)
            /\ FrameOK(s[Len(s)])
            /\ Sits(s[Len(s)].before, t, Len(t))
<1> DEFINE t == SubSeq(s, 1, Len(s) - 1)
           n == Len(s)
<1>1. s \in Seq(Frames) /\ n \in Nat /\ n # 0 /\ n <= MaxDepth /\ MaxDepth \in Nat
  BY RegistryAssumption DEF Stacked
<1>2. /\ t \in Seq(Frames) /\ Len(t) = n - 1
      /\ \A i \in 1 .. (n - 1) : t[i] = s[i]
  <2> DEFINE k == n - 1
  <2>1. k \in Nat /\ 1 \in Int /\ k \in Int /\ \A i \in 1 .. k : s[i] \in Frames
    BY <1>1
  <2> HIDE DEF n, k
  <2>2. /\ SubSeq(s, 1, k) \in Seq(Frames)
        /\ Len(SubSeq(s, 1, k)) = IF 1 <= k THEN k - 1 + 1 ELSE 0
        /\ \A i \in 1 .. (k - 1 + 1) : SubSeq(s, 1, k)[i] = s[1 + i - 1]
    BY <2>1, SubSeqProperties
  <2>3. Len(SubSeq(s, 1, k)) = k /\ \A i \in 1 .. k : SubSeq(s, 1, k)[i] = s[i]
    BY <2>1, <2>2
  <2> QED BY <2>2, <2>3 DEF k, n
<1> HIDE DEF t
<1>3. ASSUME NEW i \in 1 .. Len(t) PROVE FrameOK(t[i]) /\ Sits(t[i].before, t, i - 1)
  <2>1. i \in 1 .. Len(s) /\ t[i] = s[i] /\ (i - 1 # 0 => t[i - 1] = s[i - 1])
    BY <1>1, <1>2
  <2>2. FrameOK(s[i]) /\ Sits(s[i].before, s, i - 1)
    BY <2>1 DEF Stacked
  <2> QED BY <2>1, <2>2 DEF Sits
<1>4. Stacked(t)
  BY <1>1, <1>2, <1>3 DEF Stacked
<1>5. FrameOK(s[n]) /\ Sits(s[n].before, s, n - 1)
  BY <1>1 DEF Stacked
<1>6. Sits(s[n].before, t, Len(t))
  <2>1. n - 1 # 0 => t[n - 1] = s[n - 1]
    BY <1>1, <1>2
  <2> QED BY <1>2, <1>5, <2>1 DEF Sits
<1> QED BY <1>4, <1>5, <1>6 DEF t

\* A step within the innermost call.
LEMMA TopStack ==
  ASSUME NEW s, Stacked(s), s # <<>>, NEW f, FrameOK(f),
         f.before = s[Len(s)].before, NEW m, Chain(m, f)
  PROVE  LET t == [s EXCEPT ![Len(s)] = f]
         IN Stacked(t) /\ Sits(m, t, Len(t))
<1> DEFINE t == [s EXCEPT ![Len(s)] = f]
           n == Len(s)
<1>1. s \in Seq(Frames) /\ n \in Nat /\ n # 0 /\ f \in Frames
  BY DEF Stacked, FrameOK
<1>2. /\ t \in Seq(Frames) /\ Len(t) = n /\ t[n] = f
      /\ \A i \in 1 .. n : i # n => t[i] = s[i]
  BY <1>1
<1> HIDE DEF t
<1>3. ASSUME NEW i \in 1 .. Len(t) PROVE FrameOK(t[i]) /\ Sits(t[i].before, t, i - 1)
  <2>1. i \in 1 .. n /\ t[i].before = s[i].before /\ (i - 1 # 0 => t[i - 1] = s[i - 1])
    BY <1>1, <1>2
  <2>2. FrameOK(s[i]) /\ Sits(s[i].before, s, i - 1)
    BY <2>1 DEF Stacked
  <2>3. FrameOK(t[i])
    BY <1>2, <2>1, <2>2
  <2> QED BY <2>1, <2>2, <2>3 DEF Sits
<1>4. Stacked(t) /\ Sits(m, t, Len(t))
  BY <1>1, <1>2, <1>3 DEF Stacked, Sits
<1> QED BY <1>4 DEF t

\* The innermost call goes on to another stage.
LEMMA StageOK ==
  ASSUME NEW f, FrameOK(f), f.kind = "run", NEW g \in Runs,
         g.before = f.before, g.saved = f.saved, g.event = f.event,
         g.stage \in {"process", "own", "done"} => g.rest # <<>>
  PROVE  FrameOK(g) /\ \A m : Chain(m, f) => Chain(m, g)
<1>1. g.kind = "run" /\ g \in Frames
  BY DEF Runs, Frames
<1>2. /\ OpenBuilding(g) = OpenBuilding(f) /\ OpenAssets(g) = OpenAssets(f)
      /\ OpenDue(g) = OpenDue(f)
  BY <1>1 DEF OpenBuilding, OpenAssets, OpenDue
<1>3. \A m : Chain(m, f) => Chain(m, g)
  BY <1>1, <1>2 DEF Chain
<1> QED BY <1>1, <1>3 DEF FrameOK

\* The calls that a returning call goes back to.
LEMMA ReturnedStack ==
  ASSUME NEW s, Stacked(s), NEW m, Sits(m, s, Len(s))
  PROVE  Stacked(Returned(s)) /\ Sits(m, Returned(s), Len(Returned(s)))
<1> DEFINE n == Len(s)
           g == [s[n] EXCEPT !.stage = "done"]
<1>1. s \in Seq(Frames) /\ n \in Nat
  BY DEF Stacked
<1>2. CASE n > 0 /\ s[n].kind = "run" /\ s[n].stage = "own"
  <2>1. FrameOK(s[n]) /\ s # <<>> /\ Chain(m, s[n])
    BY <1>1, <1>2 DEF Stacked, Sits
  <2>2. s[n] \in Runs
    BY <1>2, <2>1 DEF FrameOK, Frames, Writes
  <2>3. /\ g \in Runs /\ g.before = s[n].before /\ g.saved = s[n].saved
        /\ g.event = s[n].event /\ g.rest = s[n].rest
    BY <2>2 DEF Runs
  <2>4. g.rest # <<>>
    BY <1>2, <2>1, <2>3 DEF FrameOK
  <2>5. Returned(s) = [s EXCEPT ![n] = g]
    BY <1>2 DEF Returned
  <2> HIDE DEF g
  <2>6. FrameOK(g) /\ Chain(m, g)
    BY <1>2, <2>1, <2>3, <2>4, StageOK
  <2>7. Stacked([s EXCEPT ![n] = g]) /\ Sits(m, [s EXCEPT ![n] = g], Len([s EXCEPT ![n] = g]))
    BY <2>1, <2>3, <2>6, TopStack
  <2> QED BY <2>5, <2>7
<1>3. CASE ~ (n > 0 /\ s[n].kind = "run" /\ s[n].stage = "own")
  BY <1>3 DEF Returned
<1> QED BY <1>2, <1>3

-----------------------------------------------------------------------------
(* Sums of tokens and of events.                                            *)

\* A function of two arguments stays one when a value is replaced.
LEMMA Replace2 ==
  ASSUME NEW D, NEW E, NEW f \in [D -> [E -> Nat]], NEW d \in D, NEW e \in E, NEW v \in Nat
  PROVE  [f EXCEPT ![d][e] = v] \in [D -> [E -> Nat]]
OBVIOUS

\* The holders of tokens are finitely many.
LEMMA FiniteHolders == IsFiniteSet(Holders)
BY RegistryAssumption, FS_Union DEF Holders

\* When the tokens of one holder change, their sum changes as much.
LEMMA HolderChange ==
  ASSUME NEW F \in [Holders -> Nat], NEW G \in [Holders -> Nat], NEW h \in Holders,
         \A x \in Holders \ {h} : F[x] = G[x]
  PROVE  SumFunctionOnSet(G, Holders) = SumFunctionOnSet(F, Holders) + G[h] - F[h]
<1>1. \A x \in Holders : F[x] \in Int /\ G[x] \in Int
  OBVIOUS
<1> QED BY <1>1, FiniteHolders, SumChange

\* The sum of the tokens of an asset is a number.
LEMMA TokenSum ==
  ASSUME NEW f \in [Assets -> [Holders -> Nat]], NEW a \in Assets
  PROVE  SumFunctionOnSet(f[a], Holders) \in Nat
<1>1. \A x \in Holders : f[a][x] \in Nat
  OBVIOUS
<1> DEFINE F == f[a]
<1>2. SumFunctionOnSet(F, Holders) \in Nat
  <2>1. \A x \in Holders : F[x] \in Nat
    BY <1>1
  <2> HIDE DEF F
  <2> QED BY <2>1, FiniteHolders, SumNat
<1> QED BY <1>2

\* The set of the group events.
EventSet ==
  [user : Users, asset : Assets, amount : Nat, ref : BOOLEAN, lists : SUBSET Lists]

\* The next event is one of the group events.
LEMMA NextEvent ==
  ASSUME NEW i \in Nat, i < Len(Events)
  PROVE  /\ Events[i + 1] \in EventSet
         /\ Events[i + 1] \in {Events[j] : j \in DOMAIN Events}
<1>1. Events \in Seq(EventSet)
  BY RegistryAssumption DEF EventSet
<1>2. i + 1 \in 1 .. Len(Events) /\ DOMAIN Events = 1 .. Len(Events)
  BY <1>1
<1> QED BY <1>1, <1>2

\* The events that bring an asset, and what they bring.
LEMMA ArrivedNat ==
  ASSUME NEW n \in 0 .. Len(Events), NEW a
  PROVE  /\ IsFiniteSet({i \in 1 .. n : Events[i].asset = a})
         /\ \A i \in 1 .. n : EventAmounts[i] \in Nat
         /\ Arrived(n, a) \in Nat
<1> DEFINE S == {i \in 1 .. n : Events[i].asset = a}
<1>1. Events \in Seq(EventSet) /\ Len(Events) \in Nat /\ DOMAIN Events = 1 .. Len(Events)
  BY RegistryAssumption DEF EventSet
<1>2. IsFiniteSet(S)
  <2>1. IsFiniteSet(1 .. n)
    BY <1>1, FS_Interval
  <2> QED BY <2>1, FS_Subset
<1>3. \A i \in 1 .. n : EventAmounts[i] \in Nat
  <2> SUFFICES ASSUME NEW i \in 1 .. n PROVE EventAmounts[i] \in Nat
    OBVIOUS
  <2>1. i \in DOMAIN Events /\ Events[i] \in EventSet
    BY <1>1
  <2> QED BY <2>1 DEF EventAmounts, EventSet
<1>4. \A i \in S : EventAmounts[i] \in Nat
  BY <1>3
<1> HIDE DEF S
<1>5. SumFunctionOnSet(EventAmounts, S) \in Nat
  BY <1>2, <1>4, SumNat
<1> QED BY <1>2, <1>3, <1>5 DEF Arrived, S

\* Before the first event nothing has arrived.
LEMMA ArrivedNone == \A a : Arrived(0, a) = 0
<1> TAKE a
<1>1. {i \in 1 .. 0 : Events[i].asset = a} = {}
  OBVIOUS
<1> QED BY <1>1, SumEmpty DEF Arrived

\* The next event brings its amount of its asset.
LEMMA ArrivedNext ==
  ASSUME NEW n \in Nat, n < Len(Events), NEW a
  PROVE  Arrived(n + 1, a) =
           Arrived(n, a) + (IF Events[n + 1].asset = a THEN Events[n + 1].amount ELSE 0)
<1> DEFINE S == {i \in 1 .. n : Events[i].asset = a}
           T == {i \in 1 .. (n + 1) : Events[i].asset = a}
<1>1. Len(Events) \in Nat /\ DOMAIN Events = 1 .. Len(Events)
  BY RegistryAssumption
<1>2. n \in 0 .. Len(Events) /\ n + 1 \in 0 .. Len(Events) /\ n + 1 \in DOMAIN Events
  BY <1>1
<1>3. /\ IsFiniteSet(S) /\ Arrived(n, a) \in Nat
      /\ \A i \in 1 .. (n + 1) : EventAmounts[i] \in Nat
  BY <1>2, ArrivedNat
<1>6. /\ Arrived(n, a) = SumFunctionOnSet(EventAmounts, S)
      /\ Arrived(n + 1, a) = SumFunctionOnSet(EventAmounts, T)
  BY DEF Arrived
<1>7. EventAmounts[n + 1] = Events[n + 1].amount
  BY <1>2 DEF EventAmounts
<1>8. EventAmounts[n + 1] \in Nat
  BY <1>3
<1>4. CASE Events[n + 1].asset = a
  <2>1. T = S \cup {n + 1} /\ n + 1 \notin S
    BY <1>4
  <2>2. \A i \in S \cup {n + 1} : EventAmounts[i] \in Int
    BY <1>3
  <2> HIDE DEF S, T
  <2>3. SumFunctionOnSet(EventAmounts, S \cup {n + 1})
          = EventAmounts[n + 1] + SumFunctionOnSet(EventAmounts, S)
    BY <1>3, <2>1, <2>2, SumAdd
  <2> QED BY <1>3, <1>4, <1>6, <1>7, <1>8, <2>1, <2>3
<1>5. CASE Events[n + 1].asset # a
  <2>1. T = S
    BY <1>5
  <2> HIDE DEF S, T
  <2> QED BY <1>3, <1>5, <1>6, <2>1
<1> QED BY <1>4, <1>5

-----------------------------------------------------------------------------
(* What the calls between the contracts do to a ledger.                     *)

\* The types of the parts of a ledger.
LEMMA LedgerTypes ==
  ASSUME NEW l \in Ledgers
  PROVE  /\ l.inbound \in 0 .. Len(Events) /\ l.outbound \in Nat /\ l.users \in SUBSET Users
         /\ l.custody \in Amounts /\ l.supply \in Amounts /\ l.sent \in Amounts
         /\ l.building \in Amounts /\ l.open \in SUBSET Assets
         /\ l.token \in [Assets -> [Holders -> Nat]]
         /\ l.due \in [Assets -> [Users -> Nat]]
         /\ l.allowed \in Pairs /\ l.given \in Pairs /\ l.taken \in Pairs
         /\ l.logged \in SUBSET Nat /\ l.nested \in SUBSET Assets /\ l.crossed \in BOOLEAN
         /\ l.loose \in [Assets -> SUBSET Users]
BY DEF Ledgers

\* Asset.burn takes the amount from the tokens of a user and from the supply.
LEMMA BurnedFacts ==
  ASSUME NEW l \in Ledgers, Adds(l), NEW a \in Assets, NEW u \in Users, NEW v \in Nat,
         l.token[a][u] >= v, l.supply[a] >= v, NEW b, b = Burned(l, a, u, v)
  PROVE  /\ b \in Ledgers /\ Adds(b)
         /\ b.supply[a] = l.supply[a] - v
         /\ \A c \in Assets \ {a} : b.supply[c] = l.supply[c]
         /\ b.token[a][u] = l.token[a][u] - v
         /\ \A c \in Assets, h \in Holders : c # a \/ h # u => b.token[c][h] = l.token[c][h]
         /\ b.custody = l.custody /\ b.outbound = l.outbound /\ b.sent = l.sent
         /\ b.logged = l.logged /\ b.crossed = l.crossed /\ b.building = l.building
         /\ b.inbound = l.inbound /\ b.due = l.due /\ b.loose = l.loose
         /\ b.given = l.given /\ b.taken = l.taken /\ b.allowed = l.allowed
         /\ b.nested = l.nested /\ b.open = l.open
<1> DEFINE token == [l.token EXCEPT ![a][u] = @ - v]
           supply == [l.supply EXCEPT ![a] = @ - v]
<1>1. /\ l.token \in [Assets -> [Holders -> Nat]] /\ l.supply \in Amounts /\ u \in Holders
  BY LedgerTypes DEF Holders
<1>2. l.token[a][u] - v \in Nat /\ l.supply[a] - v \in Nat
  BY <1>1 DEF Amounts
<1>3. token \in [Assets -> [Holders -> Nat]]
  BY <1>1, <1>2, Replace2
<1>4. /\ supply \in Amounts
      /\ supply[a] = l.supply[a] - v
      /\ \A c \in Assets \ {a} : supply[c] = l.supply[c]
  BY <1>1, <1>2 DEF Amounts
<1>5. /\ token[a][u] = l.token[a][u] - v
      /\ \A c \in Assets \ {a} : token[c] = l.token[c]
      /\ \A h \in Holders \ {u} : token[a][h] = l.token[a][h]
  BY <1>1
<1>6. b = [l EXCEPT !.token = token, !.supply = supply]
  BY <1>1 DEF Burned, Ledgers
<1> HIDE DEF token, supply
<1>7. SumFunctionOnSet(token[a], Holders) = SumFunctionOnSet(l.token[a], Holders) - v
  <2>1. l.token[a] \in [Holders -> Nat] /\ token[a] \in [Holders -> Nat]
    BY <1>1, <1>3
  <2>2. SumFunctionOnSet(token[a], Holders)
          = SumFunctionOnSet(l.token[a], Holders) + token[a][u] - l.token[a][u]
    BY <1>1, <1>5, <2>1, HolderChange
  <2>3. SumFunctionOnSet(l.token[a], Holders) \in Nat /\ l.token[a][u] \in Nat
    BY <1>1, TokenSum
  <2> QED BY <1>5, <2>2, <2>3
<1>8. /\ b \in Ledgers /\ b.token = token /\ b.supply = supply
      /\ b.custody = l.custody /\ b.outbound = l.outbound /\ b.sent = l.sent
      /\ b.logged = l.logged /\ b.crossed = l.crossed /\ b.building = l.building
      /\ b.inbound = l.inbound /\ b.due = l.due /\ b.loose = l.loose
      /\ b.given = l.given /\ b.taken = l.taken /\ b.allowed = l.allowed
      /\ b.nested = l.nested /\ b.open = l.open
  BY <1>3, <1>4, <1>6 DEF Ledgers
<1>9. Adds(b)
  BY <1>4, <1>5, <1>7, <1>8 DEF Adds
<1>10. \A c \in Assets, h \in Holders : c # a \/ h # u => token[c][h] = l.token[c][h]
  BY <1>5
<1> QED BY <1>4, <1>5, <1>8, <1>9, <1>10

\* Burning and sending keeps a ledger sound and leaves nothing open.
LEMMA BurnSendSound ==
  ASSUME NEW l, Sound(l), NEW a \in Assets, NEW u \in Users, NEW v \in Nat,
         CanSend(l, a, u, v), NEW s, s = BurnAndSend(l, a, u, v)
  PROVE  /\ Sound(s) /\ Steady(l, s)
         /\ s.token[a][u] = l.token[a][u] - v
         /\ \A c \in Assets, h \in Holders : c # a \/ h # u => s.token[c][h] = l.token[c][h]
         /\ s.loose = l.loose /\ l.nested \subseteq s.nested
<1> DEFINE b == Burned(l, a, u, v)
           custody == [l.custody EXCEPT ![a] = @ - v]
           sent == [l.sent EXCEPT ![a] = @ + v]
           logged == l.logged \cup {l.outbound}
           nested == Touched(l, a)
           crossed == l.crossed \/ Building(l)
           outbound == l.outbound + 1
<1>1. l \in Ledgers /\ l.token[a][u] >= v /\ l.supply[a] >= v /\ l.custody[a] >= v
  BY DEF Sound, CanSend
<1>2. /\ l.custody \in Amounts /\ l.supply \in Amounts /\ l.sent \in Amounts
      /\ l.building \in Amounts /\ l.outbound \in Nat /\ l.logged \in SUBSET Nat
      /\ l.nested \in SUBSET Assets /\ l.crossed \in BOOLEAN
  BY <1>1, LedgerTypes
<1>4. s = [b EXCEPT !.custody[a] = @ - v, !.outbound = @ + 1, !.sent[a] = @ + v,
                    !.logged = @ \cup {l.outbound}, !.nested = nested,
                    !.crossed = @ \/ Building(l)]
  BY DEF BurnAndSend
<1>16. b = Burned(l, a, u, v) /\ Adds(l)
  BY DEF Sound
<1> HIDE DEF b
<1>3. /\ b \in Ledgers /\ Adds(b)
      /\ b.supply[a] = l.supply[a] - v
      /\ \A c \in Assets \ {a} : b.supply[c] = l.supply[c]
      /\ b.token[a][u] = l.token[a][u] - v
      /\ \A c \in Assets, h \in Holders : c # a \/ h # u => b.token[c][h] = l.token[c][h]
  BY <1>1, <1>16, BurnedFacts
<1>5. /\ b.custody = l.custody /\ b.outbound = l.outbound /\ b.sent = l.sent
      /\ b.logged = l.logged /\ b.crossed = l.crossed /\ b.building = l.building
      /\ b.inbound = l.inbound /\ b.due = l.due /\ b.loose = l.loose
      /\ b.given = l.given /\ b.taken = l.taken /\ b.allowed = l.allowed
      /\ b.open = l.open
  BY <1>1, <1>16, BurnedFacts
<1>6. s = [b EXCEPT !.custody = custody, !.outbound = outbound, !.sent = sent,
                    !.logged = logged, !.nested = nested, !.crossed = crossed]
  BY <1>3, <1>4, <1>5 DEF Ledgers
<1>7. /\ custody \in Amounts /\ custody[a] = l.custody[a] - v
      /\ \A c \in Assets \ {a} : custody[c] = l.custody[c]
      /\ sent \in Amounts /\ sent[a] = l.sent[a] + v
      /\ \A c \in Assets \ {a} : sent[c] = l.sent[c]
  BY <1>1, <1>2 DEF Amounts
<1>8. /\ logged \in SUBSET Nat /\ crossed \in BOOLEAN /\ outbound \in Nat
      /\ nested \in SUBSET Assets /\ l.nested \subseteq nested
      /\ a \in l.open => a \in nested
      /\ (l.crossed => crossed) /\ (Building(l) => crossed)
  BY <1>2 DEF Touched
<1>9. ~ crossed => logged = 0 .. outbound - 1
  BY <1>2 DEF Sound, Numbered
<1> HIDE DEF custody, sent, logged, nested, crossed, outbound
<1>10. /\ s \in Ledgers
       /\ s.custody = custody /\ s.outbound = outbound /\ s.sent = sent
       /\ s.logged = logged /\ s.nested = nested /\ s.crossed = crossed
       /\ s.token = b.token /\ s.supply = b.supply
       /\ s.building = l.building /\ s.inbound = l.inbound /\ s.due = l.due
       /\ s.loose = l.loose /\ s.open = l.open
       /\ s.given = l.given /\ s.taken = l.taken /\ s.allowed = l.allowed
  <2>1. /\ b \in Ledgers
        /\ custody \in Amounts /\ outbound \in Nat /\ sent \in Amounts
        /\ logged \in SUBSET Nat /\ nested \in SUBSET Assets /\ crossed \in BOOLEAN
    BY <1>3, <1>7, <1>8
  <2>2. s \in Ledgers
    <3> DEFINE t == [b EXCEPT !.custody = custody, !.outbound = outbound, !.sent = sent,
                              !.logged = logged, !.nested = nested]
    <3>1. t \in Ledgers
      BY <2>1 DEF Ledgers
    <3>2. s = [t EXCEPT !.crossed = crossed]
      BY <1>6, <2>1 DEF Ledgers
    <3> HIDE DEF t
    <3> QED BY <2>1, <3>1, <3>2 DEF Ledgers
  <2>3. /\ s.custody = custody /\ s.outbound = outbound /\ s.sent = sent
        /\ s.logged = logged /\ s.nested = nested /\ s.crossed = crossed
    BY <1>6, <2>1 DEF Ledgers
  <2>4. /\ s.token = b.token /\ s.supply = b.supply
        /\ s.building = b.building /\ s.inbound = b.inbound /\ s.due = b.due
        /\ s.loose = b.loose /\ s.open = b.open
        /\ s.given = b.given /\ s.taken = b.taken /\ s.allowed = b.allowed
    BY <1>6, <2>1 DEF Ledgers
  <2> QED BY <1>5, <2>2, <2>3, <2>4
<1>11. Adds(s) /\ Within(s) /\ Numbered(s)
  BY <1>3, <1>9, <1>10 DEF Adds, Within, Numbered, Sound
<1>12. Kept(s)
  <2> SUFFICES ASSUME NEW c \in Assets
               PROVE  s.supply[c] + s.building[c] + s.sent[c] = Arrived(s.inbound, c)
    BY DEF Kept
  <2>1. l.supply[c] + l.building[c] + l.sent[c] = Arrived(l.inbound, c)
    BY DEF Sound, Kept
  <2>2. l.supply[c] \in Nat /\ l.building[c] \in Nat /\ l.sent[c] \in Nat
    BY <1>2 DEF Amounts
  <2> QED BY <1>3, <1>7, <1>10, <2>1, <2>2
<1>13. Backed(s)
  <2> SUFFICES ASSUME NEW c \in Assets \ s.nested
               PROVE  s.custody[c] = s.supply[c] + s.building[c]
    BY DEF Backed
  <2>1. l.custody[c] = l.supply[c] + l.building[c]
    BY <1>8, <1>10 DEF Sound, Backed
  <2>2. l.supply[c] \in Nat /\ l.building[c] \in Nat
    BY <1>2 DEF Amounts
  <2> QED BY <1>3, <1>7, <1>10, <2>1, <2>2
<1>17. l.open \in SUBSET Assets
  BY <1>1, LedgerTypes
<1>14. Steady(l, s)
  BY <1>7, <1>8, <1>10, <1>17 DEF Steady, Quiet
<1>15. Sound(s)
  BY <1>10, <1>11, <1>12, <1>13 DEF Sound
<1> QED BY <1>3, <1>8, <1>10, <1>14, <1>15

\* Burning and starting to build a transaction keeps a ledger sound.
LEMMA BurnBuildSound ==
  ASSUME NEW l, Sound(l), NEW a \in Assets, NEW u \in Users, NEW v \in Nat,
         l.token[a][u] >= v, l.supply[a] >= v, NEW s, s = BurnAndBuild(l, a, u, v)
  PROVE  /\ Sound(s)
         /\ s.token[a][u] = l.token[a][u] - v
         /\ \A c \in Assets, h \in Holders : c # a \/ h # u => s.token[c][h] = l.token[c][h]
         /\ s.loose = l.loose /\ s.due = l.due
         /\ s.building = [l.building EXCEPT ![a] = @ + v]
         /\ s.custody = l.custody /\ s.outbound = l.outbound
         /\ l.nested \subseteq s.nested /\ (a \in l.open => a \in s.nested)
         /\ s.open = l.open \cup {a}
         /\ (l.crossed => s.crossed) /\ (Building(l) => s.crossed)
<1> DEFINE b == Burned(l, a, u, v)
           building == [l.building EXCEPT ![a] = @ + v]
           nested == Touched(l, a)
           crossed == l.crossed \/ Building(l)
           open == l.open \cup {a}
<1>1. l \in Ledgers /\ Adds(l)
  BY DEF Sound
<1>2. /\ l.custody \in Amounts /\ l.supply \in Amounts /\ l.sent \in Amounts
      /\ l.building \in Amounts /\ l.outbound \in Nat
      /\ l.nested \in SUBSET Assets /\ l.crossed \in BOOLEAN
      /\ l.open \in SUBSET Assets
  BY <1>1, LedgerTypes
<1>3. s = [b EXCEPT !.building[a] = @ + v, !.open = @ \cup {a}, !.nested = nested,
                    !.crossed = @ \/ Building(l)]
  BY DEF BurnAndBuild
<1>4. b = Burned(l, a, u, v)
  OBVIOUS
<1> HIDE DEF b
<1>5. /\ b \in Ledgers /\ Adds(b)
      /\ b.supply[a] = l.supply[a] - v
      /\ \A c \in Assets \ {a} : b.supply[c] = l.supply[c]
      /\ b.token[a][u] = l.token[a][u] - v
      /\ \A c \in Assets, h \in Holders : c # a \/ h # u => b.token[c][h] = l.token[c][h]
  BY <1>1, <1>4, BurnedFacts
<1>6. /\ b.custody = l.custody /\ b.outbound = l.outbound /\ b.sent = l.sent
      /\ b.logged = l.logged /\ b.crossed = l.crossed /\ b.building = l.building
      /\ b.inbound = l.inbound /\ b.due = l.due /\ b.loose = l.loose
      /\ b.given = l.given /\ b.taken = l.taken /\ b.allowed = l.allowed
      /\ b.open = l.open
  BY <1>1, <1>4, BurnedFacts
<1>7. s = [b EXCEPT !.building = building, !.open = open, !.nested = nested,
                    !.crossed = crossed]
  BY <1>3, <1>5, <1>6 DEF Ledgers
<1>8. /\ building \in Amounts /\ building[a] = l.building[a] + v
      /\ \A c \in Assets \ {a} : building[c] = l.building[c]
  BY <1>2 DEF Amounts
<1>9. /\ nested \in SUBSET Assets /\ l.nested \subseteq nested /\ crossed \in BOOLEAN
      /\ a \in l.open => a \in nested
      /\ open \in SUBSET Assets
      /\ (l.crossed => crossed) /\ (Building(l) => crossed)
  BY <1>2 DEF Touched
<1>14. ~ crossed => ~ l.crossed
  OBVIOUS
<1>17. open = l.open \cup {a}
  OBVIOUS
<1> HIDE DEF nested, crossed, open
<1>10. /\ s \in Ledgers
       /\ s.building = building /\ s.open = open /\ s.nested = nested /\ s.crossed = crossed
       /\ s.custody = l.custody /\ s.outbound = l.outbound /\ s.sent = l.sent
       /\ s.logged = l.logged /\ s.token = b.token /\ s.supply = b.supply
       /\ s.inbound = l.inbound /\ s.due = l.due /\ s.loose = l.loose
       /\ s.given = l.given /\ s.taken = l.taken /\ s.allowed = l.allowed
  <2> HIDE DEF building
  <2>1. b \in Ledgers /\ building \in Amounts /\ nested \in SUBSET Assets
        /\ crossed \in BOOLEAN /\ open \in SUBSET Assets
    BY <1>5, <1>8, <1>9
  <2>2. s \in Ledgers
    <3> DEFINE t == [b EXCEPT !.building = building, !.open = open, !.nested = nested]
    <3>1. t \in Ledgers
      BY <2>1 DEF Ledgers
    <3>2. s = [t EXCEPT !.crossed = crossed]
      BY <1>7, <2>1 DEF Ledgers
    <3> HIDE DEF t
    <3> QED BY <2>1, <3>1, <3>2 DEF Ledgers
  <2>3. /\ s.building = building /\ s.open = open /\ s.nested = nested /\ s.crossed = crossed
        /\ s.custody = b.custody /\ s.outbound = b.outbound /\ s.sent = b.sent
        /\ s.logged = b.logged /\ s.token = b.token /\ s.supply = b.supply
        /\ s.inbound = b.inbound /\ s.due = b.due /\ s.loose = b.loose
        /\ s.given = b.given /\ s.taken = b.taken /\ s.allowed = b.allowed
    BY <1>7, <2>1 DEF Ledgers
  <2> QED BY <1>6, <2>2, <2>3
<1>11. Adds(s) /\ Within(s) /\ Numbered(s)
  BY <1>5, <1>9, <1>10, <1>14 DEF Adds, Within, Numbered, Sound
<1>15. s.building = [l.building EXCEPT ![a] = @ + v]
  BY <1>10
<1> HIDE DEF building
<1>12. Kept(s)
  <2> SUFFICES ASSUME NEW c \in Assets
               PROVE  s.supply[c] + s.building[c] + s.sent[c] = Arrived(s.inbound, c)
    BY DEF Kept
  <2>1. l.supply[c] + l.building[c] + l.sent[c] = Arrived(l.inbound, c)
    BY DEF Sound, Kept
  <2>2. l.supply[c] \in Nat /\ l.building[c] \in Nat /\ l.sent[c] \in Nat
    BY <1>2 DEF Amounts
  <2> QED BY <1>5, <1>8, <1>10, <2>1, <2>2
<1>13. Backed(s)
  <2> SUFFICES ASSUME NEW c \in Assets \ s.nested
               PROVE  s.custody[c] = s.supply[c] + s.building[c]
    BY DEF Backed
  <2>1. l.custody[c] = l.supply[c] + l.building[c]
    BY <1>9, <1>10 DEF Sound, Backed
  <2>2. l.supply[c] \in Nat /\ l.building[c] \in Nat
    BY <1>2 DEF Amounts
  <2> QED BY <1>5, <1>8, <1>10, <2>1, <2>2
<1>16. Sound(s)
  BY <1>10, <1>11, <1>12, <1>13 DEF Sound
<1> QED BY <1>5, <1>9, <1>10, <1>15, <1>16, <1>17

\* Moving tokens from one holder to another keeps a ledger sound.
LEMMA MoveSound ==
  ASSUME NEW l, Sound(l), NEW a \in Assets, NEW from \in Holders, NEW to \in Holders,
         NEW v \in Nat, l.token[a][from] >= v, NEW m, m = Moved(l, a, from, to, v)
  PROVE  /\ Sound(m) /\ Steady(l, m)
         /\ m.token[a][to] >= v
         /\ m.token[a][to] = IF to = from THEN l.token[a][to] ELSE l.token[a][to] + v
         /\ \A c \in Assets, h \in Holders :
              c # a \/ (h # from /\ h # to) => m.token[c][h] = l.token[c][h]
         /\ m.supply = l.supply /\ m.custody = l.custody /\ m.users = l.users
         /\ m.nested = l.nested /\ m.building = l.building /\ m.due = l.due
         /\ m.crossed = l.crossed /\ m.outbound = l.outbound /\ m.open = l.open
         /\ \A c \in Assets : l.loose[c] \subseteq m.loose[c]
         /\ from \in Users => v = 0 \/ from \in m.loose[a]
         /\ to \in Users \ l.users => v = 0 \/ to \in m.loose[a]
         /\ v = 0 => \A h \in Holders : m.token[a][h] = l.token[a][h]
<1> DEFINE less == [l.token[a] EXCEPT ![from] = @ - v]
           row == [less EXCEPT ![to] = @ + v]
           token == [l.token EXCEPT ![a] = row]
           ends == {from} \cup ({to} \ l.users)
           marked == IF v > 0 THEN ends \cap Users ELSE {}
           loose == [l.loose EXCEPT ![a] = @ \cup marked]
<1>1. /\ l \in Ledgers /\ l.token \in [Assets -> [Holders -> Nat]]
      /\ l.loose \in [Assets -> SUBSET Users]
  BY LedgerTypes DEF Sound
<1>2. l.token[a] \in [Holders -> Nat] /\ l.token[a][from] - v \in Nat
  BY <1>1
<1>3. /\ less \in [Holders -> Nat] /\ less[from] = l.token[a][from] - v
      /\ \A h \in Holders \ {from} : less[h] = l.token[a][h]
  BY <1>2
<1>4. /\ row \in [Holders -> Nat] /\ row[to] = less[to] + v
      /\ \A h \in Holders \ {to} : row[h] = less[h]
  <2> HIDE DEF less
  <2> QED BY <1>3
<1>5. m = [l EXCEPT !.token = token, !.loose = loose]
  BY <1>1 DEF Ledgers, Moved
<1>6. /\ loose \in [Assets -> SUBSET Users]
      /\ \A c \in Assets : l.loose[c] \subseteq loose[c]
      /\ from \in Users => v = 0 \/ from \in loose[a]
      /\ to \in Users \ l.users => v = 0 \/ to \in loose[a]
  <2>1. /\ marked \in SUBSET Users
        /\ from \in Users => v = 0 \/ from \in marked
        /\ to \in Users \ l.users => v = 0 \/ to \in marked
    OBVIOUS
  <2> HIDE DEF marked
  <2> QED BY <1>1, <2>1
<1> HIDE DEF less, row, loose
<1>7. SumFunctionOnSet(row, Holders) = SumFunctionOnSet(l.token[a], Holders)
  <2> DEFINE old == l.token[a]
  <2>1. SumFunctionOnSet(less, Holders) = SumFunctionOnSet(old, Holders) + less[from] - old[from]
    BY <1>2, <1>3, HolderChange
  <2>2. SumFunctionOnSet(row, Holders) = SumFunctionOnSet(less, Holders) + row[to] - less[to]
    BY <1>3, <1>4, HolderChange
  <2>3. SumFunctionOnSet(old, Holders) \in Nat /\ old[from] \in Nat /\ less[to] \in Nat
    BY <1>1, <1>2, <1>3, TokenSum
  <2>4. old[from] = l.token[a][from]
    OBVIOUS
  <2> HIDE DEF old
  <2>5. SumFunctionOnSet(row, Holders) = SumFunctionOnSet(old, Holders)
    BY <1>3, <1>4, <2>1, <2>2, <2>3, <2>4
  <2> QED BY <2>5 DEF old
<1>8. /\ token \in [Assets -> [Holders -> Nat]]
      /\ token[a] = row /\ \A c \in Assets \ {a} : token[c] = l.token[c]
  BY <1>1, <1>4
<1> HIDE DEF token
<1>9. /\ m \in Ledgers /\ m.token = token /\ m.loose = loose
      /\ m.supply = l.supply /\ m.custody = l.custody /\ m.users = l.users
      /\ m.taken = l.taken /\ m.allowed = l.allowed /\ m.given = l.given
      /\ m.sent = l.sent /\ m.inbound = l.inbound /\ m.building = l.building
      /\ m.due = l.due /\ m.nested = l.nested /\ m.crossed = l.crossed
      /\ m.outbound = l.outbound /\ m.logged = l.logged /\ m.open = l.open
  BY <1>1, <1>5, <1>6, <1>8 DEF Ledgers
<1>10. Adds(m)
  BY <1>7, <1>8, <1>9 DEF Adds, Sound
<1>11. Sound(m)
  BY <1>9, <1>10 DEF Sound, Kept, Backed, Within, Numbered
<1>12. Steady(l, m)
  BY <1>9 DEF Steady, Quiet
<1>13. /\ m.token[a][to] = IF to = from THEN l.token[a][to] ELSE l.token[a][to] + v
       /\ m.token[a][to] >= v
       /\ l.token[a][to] \in Nat
  BY <1>2, <1>3, <1>4, <1>8, <1>9
<1>14. \A c \in Assets, h \in Holders :
         c # a \/ (h # from /\ h # to) => m.token[c][h] = l.token[c][h]
  BY <1>3, <1>4, <1>8, <1>9
<1>15. v = 0 => \A h \in Holders : m.token[a][h] = l.token[a][h]
  <2> SUFFICES ASSUME v = 0, NEW h \in Holders PROVE row[h] = l.token[a][h]
    BY <1>8, <1>9
  <2>1. l.token[a][h] \in Nat /\ less[h] = l.token[a][h]
    BY <1>2, <1>3
  <2> QED BY <1>4, <2>1
<1> QED BY <1>6, <1>9, <1>11, <1>12, <1>13, <1>14, <1>15

\* A transfer that is not refused keeps a ledger good, also when the receiver
\* is a user and the tokens are burned at once.
LEMMA TransferGood ==
  ASSUME NEW l, Good(l), NEW a \in Assets, NEW from \in Holders, NEW to \in Holders,
         NEW v \in Nat, CanTransfer(l, a, from, to, v),
         NEW t, t = Transferred(l, a, from, to, v)
  PROVE  Good(t) /\ Steady(l, t)
<1> DEFINE m == Moved(l, a, from, to, v)
<1>1. /\ l.token[a][from] >= v /\ l.users \in SUBSET Users /\ Sound(l) /\ Passage(l)
      /\ l.token \in [Assets -> [Holders -> Nat]] /\ Users \subseteq Holders
  BY LedgerTypes DEF CanTransfer, Good, Sound, Holders
<1>2. m = Moved(l, a, from, to, v)
  OBVIOUS
<1> HIDE DEF m
<1>6. /\ Sound(m) /\ Steady(l, m)
      /\ m.token[a][to] >= v
      /\ m.token[a][to] = IF to = from THEN l.token[a][to] ELSE l.token[a][to] + v
      /\ \A c \in Assets, h \in Holders :
           c # a \/ (h # from /\ h # to) => m.token[c][h] = l.token[c][h]
  <2>1. Sound(m) /\ Steady(l, m)
    BY <1>1, <1>2, MoveSound
  <2>2. /\ m.token[a][to] >= v
        /\ m.token[a][to] = IF to = from THEN l.token[a][to] ELSE l.token[a][to] + v
    BY <1>1, <1>2, MoveSound
  <2>3. \A c \in Assets, h \in Holders :
          c # a \/ (h # from /\ h # to) => m.token[c][h] = l.token[c][h]
    <3>1. Sound(l) /\ l.token[a][from] >= v
      BY <1>1
    <3> SUFFICES ASSUME NEW c \in Assets, NEW h \in Holders,
                        c # a \/ (h # from /\ h # to)
                 PROVE  m.token[c][h] = l.token[c][h]
      OBVIOUS
    <3> QED BY <1>2, <3>1, MoveSound
  <2> QED BY <2>1, <2>2, <2>3
<1>7. /\ m.supply = l.supply /\ m.custody = l.custody /\ m.users = l.users
      /\ m.nested = l.nested /\ m.due = l.due
  BY <1>1, <1>2, MoveSound
<1>8. /\ \A c \in Assets : l.loose[c] \subseteq m.loose[c]
      /\ from \in Users => v = 0 \/ from \in m.loose[a]
      /\ to \in Users \ l.users => v = 0 \/ to \in m.loose[a]
  BY <1>1, <1>2, MoveSound
<1>9. v = 0 => \A h \in Holders : m.token[a][h] = l.token[a][h]
  <2>1. Sound(l) /\ l.token[a][from] >= v
    BY <1>1
  <2> QED BY <1>2, <2>1, MoveSound
<1>4. CASE to \in l.users
  <2>1. CanSend(m, a, to, v) /\ to \in Users
    BY <1>1, <1>6, <1>7, <1>8, <1>4 DEF CanSend, CanTransfer
  <2>2. t = BurnAndSend(m, a, to, v)
    BY <1>4 DEF Transferred, m
  <2>3. /\ Sound(t) /\ Steady(m, t)
        /\ t.token[a][to] = m.token[a][to] - v
        /\ \A c \in Assets, h \in Holders : c # a \/ h # to => t.token[c][h] = m.token[c][h]
        /\ t.loose = m.loose /\ m.nested \subseteq t.nested
    BY <1>6, <1>7, <1>8, <2>1, <2>2, BurnSendSound
  <2>4. Steady(l, t)
    BY <1>6, <1>7, <1>8, <2>3, QuietTrans DEF Steady
  <2>5. Passage(t)
    <3> SUFFICES ASSUME NEW c \in Assets, NEW w \in Users,
                        w \notin t.loose[c], c \notin t.nested
                 PROVE  t.token[c][w] = t.due[c][w]
      BY DEF Passage
    <3>1. w \notin l.loose[c] /\ c \notin l.nested /\ (c = a => v = 0 \/ w # from)
      BY <1>6, <1>7, <1>8, <2>3
    <3>2. l.token[c][w] = l.due[c][w]
      BY <1>1, <3>1 DEF Passage
    <3>3. w \in Holders /\ l.token[a][to] \in Nat /\ l.token[a][w] \in Nat
      BY <1>1
    <3>4. t.token[c][w] = l.token[c][w]
      <4>1. CASE v = 0
        BY <1>6, <1>9, <2>3, <3>3, <4>1
      <4>2. CASE v # 0
        BY <1>6, <1>7, <1>8, <2>3, <3>1, <3>3, <4>2
      <4> QED BY <4>1, <4>2
    <3>5. t.due = l.due
      BY <2>4 DEF Steady
    <3> QED BY <3>2, <3>4, <3>5
  <2> QED BY <2>3, <2>4, <2>5 DEF Good
<1>5. CASE to \notin l.users
  <2>1. t = m
    BY <1>5 DEF Transferred, m
  <2>2. Passage(m)
    <3> SUFFICES ASSUME NEW c \in Assets, NEW w \in Users,
                        w \notin m.loose[c], c \notin m.nested
                 PROVE  m.token[c][w] = m.due[c][w]
      BY DEF Passage
    <3>1. w \notin l.loose[c] /\ c \notin l.nested /\ (c = a => v = 0 \/ (w # from /\ w # to))
      BY <1>6, <1>7, <1>8, <1>5
    <3>2. w \in Holders /\ l.token[c][w] = l.due[c][w]
      BY <1>1, <3>1 DEF Passage
    <3> QED BY <1>6, <1>7, <1>8, <1>9, <3>1, <3>2
  <2> QED BY <1>6, <1>7, <1>8, <2>1, <2>2 DEF Good
<1> QED BY <1>4, <1>5

\* A transfer to a user up to the call of a Storage.
LEMMA BuildGood ==
  ASSUME NEW l, Good(l), NEW a \in Assets, NEW from \in Holders, NEW to \in Users,
         NEW v \in Nat, to \in l.users,
         l.token[a][from] >= v, l.supply[a] >= v,
         NEW t, t = BurnAndBuild(Moved(l, a, from, to, v), a, to, v)
  PROVE  /\ Good(t) /\ t.due = l.due
         /\ t.building = [l.building EXCEPT ![a] = @ + v]
         /\ t.custody = l.custody /\ t.outbound = l.outbound
         /\ l.nested \subseteq t.nested /\ (a \in l.open => a \in t.nested)
         /\ t.open = l.open \cup {a}
         /\ (l.crossed => t.crossed) /\ (Building(l) => t.crossed)
<1> DEFINE m == Moved(l, a, from, to, v)
<1>1. /\ Sound(l) /\ Passage(l) /\ to \in Holders /\ Users \subseteq Holders
      /\ l.token \in [Assets -> [Holders -> Nat]]
  BY LedgerTypes DEF Good, Sound, Holders
<1>2. m = Moved(l, a, from, to, v) /\ t = BurnAndBuild(m, a, to, v)
  OBVIOUS
<1> HIDE DEF m
<1>7. /\ Sound(m)
      /\ m.token[a][to] >= v
      /\ m.token[a][to] = IF to = from THEN l.token[a][to] ELSE l.token[a][to] + v
      /\ \A c \in Assets, h \in Holders :
           c # a \/ (h # from /\ h # to) => m.token[c][h] = l.token[c][h]
  <2>1. Sound(m)
    BY <1>1, <1>2, MoveSound
  <2>2. /\ m.token[a][to] >= v
        /\ m.token[a][to] = IF to = from THEN l.token[a][to] ELSE l.token[a][to] + v
    BY <1>1, <1>2, MoveSound
  <2>3. \A c \in Assets, h \in Holders :
          c # a \/ (h # from /\ h # to) => m.token[c][h] = l.token[c][h]
    <3>1. Sound(l) /\ l.token[a][from] >= v /\ to \in Holders
      BY <1>1
    <3> SUFFICES ASSUME NEW c \in Assets, NEW h \in Holders,
                        c # a \/ (h # from /\ h # to)
                 PROVE  m.token[c][h] = l.token[c][h]
      OBVIOUS
    <3> QED BY <1>2, <3>1, MoveSound
  <2> QED BY <2>1, <2>2, <2>3
<1>8. /\ m.supply = l.supply /\ m.custody = l.custody
      /\ m.nested = l.nested /\ m.building = l.building /\ m.due = l.due
      /\ m.crossed = l.crossed /\ m.outbound = l.outbound /\ m.open = l.open
  BY <1>1, <1>2, MoveSound
<1>9. /\ \A c \in Assets : l.loose[c] \subseteq m.loose[c]
      /\ from \in Users => v = 0 \/ from \in m.loose[a]
  BY <1>1, <1>2, MoveSound
<1>3. v = 0 => \A h \in Holders : m.token[a][h] = l.token[a][h]
  <2>1. Sound(l) /\ l.token[a][from] >= v /\ to \in Holders
    BY <1>1
  <2> QED BY <1>2, <2>1, MoveSound
<1>4. Building(m) <=> Building(l)
  BY <1>7, <1>8, <1>9 DEF Building
<1>5. /\ Sound(t)
      /\ t.token[a][to] = m.token[a][to] - v
      /\ \A c \in Assets, h \in Holders : c # a \/ h # to => t.token[c][h] = m.token[c][h]
      /\ t.loose = m.loose /\ t.due = m.due
      /\ t.building = [m.building EXCEPT ![a] = @ + v]
      /\ t.custody = m.custody /\ t.outbound = m.outbound
      /\ m.nested \subseteq t.nested /\ (a \in m.open => a \in t.nested)
      /\ t.open = m.open \cup {a}
      /\ (m.crossed => t.crossed) /\ (Building(m) => t.crossed)
  BY <1>1, <1>2, <1>7, <1>8, <1>9, BurnBuildSound
<1>6. Passage(t)
  <2> SUFFICES ASSUME NEW c \in Assets, NEW w \in Users,
                      w \notin t.loose[c], c \notin t.nested
               PROVE  t.token[c][w] = t.due[c][w]
    BY DEF Passage
  <2>1. w \notin l.loose[c] /\ c \notin l.nested /\ (c = a => v = 0 \/ w # from)
    BY <1>7, <1>8, <1>9, <1>5
  <2>2. l.token[c][w] = l.due[c][w]
    BY <1>1, <2>1 DEF Passage
  <2>3. w \in Holders /\ l.token[a][to] \in Nat /\ l.token[a][w] \in Nat
    BY <1>1
  <2>4. t.token[c][w] = l.token[c][w]
    <3>1. CASE v = 0
      BY <1>3, <1>5, <1>7, <2>3, <3>1
    <3>2. CASE v # 0
      BY <1>7, <1>8, <1>9, <1>5, <2>1, <2>3, <3>2
    <3> QED BY <3>1, <3>2
  <2> QED BY <1>7, <1>8, <1>9, <1>5, <2>2, <2>4
<1> QED BY <1>7, <1>8, <1>9, <1>4, <1>5, <1>6 DEF Good

\* A user approves a spender: the allowance that was left is replaced.
LEMMA ApprovedGood ==
  ASSUME NEW l, Good(l), NEW a \in Assets, NEW u \in Users, NEW p \in Holders,
         NEW v \in Nat, NEW n, n = Approved(l, a, u, p, v)
  PROVE  Good(n) /\ Steady(l, n)
<1> DEFINE allowed == [l.allowed EXCEPT ![a][u][p] = v]
           given == [l.given EXCEPT ![a][u][p] = @ + v]
<1>1. /\ l \in Ledgers /\ Sound(l) /\ Passage(l)
      /\ l.taken \in Pairs /\ l.allowed \in Pairs /\ l.given \in Pairs
  BY LedgerTypes DEF Good, Sound
<1>3. n = [l EXCEPT !.allowed = allowed, !.given = given]
  BY <1>1 DEF Approved, Ledgers
<1>4. l.given[a][u][p] + v \in Nat
  BY <1>1 DEF Pairs
<1>5. /\ allowed \in Pairs
      /\ \A b \in Assets, w \in Users, q \in Holders :
           allowed[b][w][q] = IF b = a /\ w = u /\ q = p THEN v ELSE l.allowed[b][w][q]
  BY <1>1 DEF Pairs
<1>6. /\ given \in Pairs
      /\ \A b \in Assets, w \in Users, q \in Holders :
           given[b][w][q] = IF b = a /\ w = u /\ q = p THEN l.given[a][u][p] + v
                                                      ELSE l.given[b][w][q]
  BY <1>1, <1>4 DEF Pairs
<1> HIDE DEF allowed, given
<1>7. ASSUME NEW b \in Assets, NEW w \in Users, NEW q \in Holders
      PROVE  l.taken[b][w][q] + allowed[b][w][q] <= given[b][w][q]
  <2>1. /\ l.taken[b][w][q] \in Nat /\ l.allowed[b][w][q] \in Nat
        /\ l.given[b][w][q] \in Nat
        /\ l.taken[b][w][q] + l.allowed[b][w][q] <= l.given[b][w][q]
    BY <1>1 DEF Sound, Within, Pairs
  <2> QED BY <1>5, <1>6, <2>1
<1>8. /\ n \in Ledgers
      /\ n.taken = l.taken /\ n.allowed = allowed /\ n.given = given
      /\ n.supply = l.supply /\ n.custody = l.custody /\ n.users = l.users
      /\ n.sent = l.sent /\ n.inbound = l.inbound /\ n.building = l.building
      /\ n.due = l.due /\ n.nested = l.nested /\ n.crossed = l.crossed
      /\ n.outbound = l.outbound /\ n.logged = l.logged
      /\ n.token = l.token /\ n.loose = l.loose /\ n.open = l.open
  BY <1>1, <1>3, <1>5, <1>6 DEF Ledgers
<1>9. Within(n)
  BY <1>7, <1>8 DEF Within
<1>10. Sound(n) /\ Passage(n)
  BY <1>1, <1>8, <1>9 DEF Sound, Adds, Kept, Backed, Numbered, Passage
<1>11. Steady(l, n)
  BY <1>8 DEF Steady, Quiet
<1> QED BY <1>10, <1>11 DEF Good

\* A spender uses up a part of its allowance.
LEMMA SpentGood ==
  ASSUME NEW l, Good(l), NEW a \in Assets, NEW u \in Users, NEW p \in Holders,
         NEW v \in Nat, l.allowed[a][u][p] >= v, NEW n, n = Spent(l, a, u, p, v)
  PROVE  /\ Good(n) /\ Steady(l, n)
         /\ n.token = l.token /\ n.users = l.users
         /\ n.supply = l.supply /\ n.custody = l.custody
<1> DEFINE allowed == [l.allowed EXCEPT ![a][u][p] = @ - v]
           taken == [l.taken EXCEPT ![a][u][p] = @ + v]
<1>1. /\ l \in Ledgers /\ Sound(l) /\ Passage(l)
      /\ l.taken \in Pairs /\ l.allowed \in Pairs /\ l.given \in Pairs
  BY LedgerTypes DEF Good, Sound
<1>2. n = [l EXCEPT !.allowed = allowed, !.taken = taken]
  BY <1>1 DEF Ledgers, Spent
<1>3. l.allowed[a][u][p] - v \in Nat /\ l.taken[a][u][p] + v \in Nat
  BY <1>1 DEF Pairs
<1>4. /\ allowed \in Pairs
      /\ \A b \in Assets, w \in Users, q \in Holders :
           allowed[b][w][q] = IF b = a /\ w = u /\ q = p THEN l.allowed[a][u][p] - v
                                                        ELSE l.allowed[b][w][q]
  BY <1>1, <1>3 DEF Pairs
<1>5. /\ taken \in Pairs
      /\ \A b \in Assets, w \in Users, q \in Holders :
           taken[b][w][q] = IF b = a /\ w = u /\ q = p THEN l.taken[a][u][p] + v
                                                      ELSE l.taken[b][w][q]
  BY <1>1, <1>3 DEF Pairs
<1> HIDE DEF allowed, taken
<1>6. ASSUME NEW b \in Assets, NEW w \in Users, NEW q \in Holders
      PROVE  taken[b][w][q] + allowed[b][w][q] <= l.given[b][w][q]
  <2>1. /\ l.taken[b][w][q] \in Nat /\ l.allowed[b][w][q] \in Nat
        /\ l.given[b][w][q] \in Nat
        /\ l.taken[b][w][q] + l.allowed[b][w][q] <= l.given[b][w][q]
    BY <1>1 DEF Sound, Within, Pairs
  <2> QED BY <1>4, <1>5, <2>1
<1>7. /\ n \in Ledgers
      /\ n.taken = taken /\ n.allowed = allowed /\ n.given = l.given
      /\ n.supply = l.supply /\ n.custody = l.custody /\ n.users = l.users
      /\ n.sent = l.sent /\ n.inbound = l.inbound /\ n.building = l.building
      /\ n.due = l.due /\ n.nested = l.nested /\ n.crossed = l.crossed
      /\ n.outbound = l.outbound /\ n.logged = l.logged
      /\ n.token = l.token /\ n.loose = l.loose /\ n.open = l.open
  BY <1>1, <1>2, <1>4, <1>5 DEF Ledgers
<1>8. Within(n)
  BY <1>6, <1>7 DEF Within
<1>9. Sound(n) /\ Passage(n)
  BY <1>1, <1>7, <1>8 DEF Sound, Adds, Kept, Backed, Numbered, Passage
<1>10. Steady(l, n)
  BY <1>7 DEF Steady, Quiet
<1> QED BY <1>7, <1>9, <1>10 DEF Good

\* Taking an event of the list and minting its amount.
LEMMA CreditedGood ==
  ASSUME NEW l, Good(l), l.inbound < Len(Events), NEW e \in EventSet,
         e = Events[l.inbound + 1], NEW c, c = Credited(l, e)
  PROVE  /\ Good(c) /\ Quiet(l, c)
         /\ c.due = [l.due EXCEPT ![e.asset][e.user] = @ + e.amount]
<1> DEFINE a == e.asset
           u == e.user
           v == e.amount
           inbound == l.inbound + 1
           users == l.users \cup {u}
           custody == [l.custody EXCEPT ![a] = @ + v]
           supply == [l.supply EXCEPT ![a] = @ + v]
           token == [l.token EXCEPT ![a][u] = @ + v]
           due == [l.due EXCEPT ![a][u] = @ + v]
           nested == Touched(l, a)
<1>1. /\ l \in Ledgers /\ Sound(l) /\ Passage(l)
      /\ l.token \in [Assets -> [Holders -> Nat]] /\ l.due \in [Assets -> [Users -> Nat]]
      /\ l.supply \in Amounts /\ l.custody \in Amounts
      /\ l.building \in Amounts /\ l.sent \in Amounts
      /\ l.inbound \in 0 .. Len(Events) /\ l.users \in SUBSET Users
      /\ l.nested \in SUBSET Assets
  BY LedgerTypes DEF Good, Sound
<1>2. a \in Assets /\ u \in Users /\ u \in Holders /\ v \in Nat /\ Users \subseteq Holders
  BY DEF EventSet, Holders
<1>3. Len(Events) \in Nat
  BY RegistryAssumption
<1>4. c = [l EXCEPT !.inbound = inbound, !.users = users, !.custody = custody,
                    !.supply = supply, !.token = token, !.due = due, !.nested = nested]
  BY <1>1 DEF Credited, Ledgers
<1>25. Events[l.inbound + 1].asset = a /\ Events[l.inbound + 1].amount = v
  OBVIOUS
<1>26. due = [l.due EXCEPT ![e.asset][e.user] = @ + e.amount]
  OBVIOUS
<1> HIDE DEF a, u, v
<1>5. inbound \in 0 .. Len(Events) /\ users \in SUBSET Users
  BY <1>1, <1>2, <1>3
<1>6. /\ supply \in Amounts /\ supply[a] = l.supply[a] + v
      /\ \A b \in Assets \ {a} : supply[b] = l.supply[b]
      /\ custody \in Amounts /\ custody[a] = l.custody[a] + v
      /\ \A b \in Assets \ {a} : custody[b] = l.custody[b]
  <2>1. /\ supply \in Amounts /\ supply[a] = l.supply[a] + v
        /\ \A b \in Assets \ {a} : supply[b] = l.supply[b]
    BY <1>1, <1>2 DEF Amounts
  <2>2. /\ custody \in Amounts /\ custody[a] = l.custody[a] + v
        /\ \A b \in Assets \ {a} : custody[b] = l.custody[b]
    BY <1>1, <1>2 DEF Amounts
  <2> QED BY <2>1, <2>2
<1>7. l.token[a][u] + v \in Nat /\ l.due[a][u] + v \in Nat
  BY <1>1, <1>2
<1>8. /\ token \in [Assets -> [Holders -> Nat]]
      /\ due \in [Assets -> [Users -> Nat]]
  BY <1>1, <1>2, <1>7, Replace2
<1>9. /\ token[a][u] = l.token[a][u] + v /\ due[a][u] = l.due[a][u] + v
      /\ \A b \in Assets, x \in Holders : b # a \/ x # u => token[b][x] = l.token[b][x]
      /\ \A b \in Assets, x \in Users : b # a \/ x # u => due[b][x] = l.due[b][x]
      /\ \A b \in Assets \ {a} : token[b] = l.token[b]
  BY <1>1, <1>2
<1>10. /\ nested \in SUBSET Assets /\ l.nested \subseteq nested
       /\ a \in l.open => a \in nested
  BY <1>1, <1>2 DEF Touched
<1> HIDE DEF users, custody, supply, token, due, nested
<1>11. /\ c \in Ledgers
       /\ c.supply = supply /\ c.custody = custody /\ c.token = token
       /\ c.inbound = inbound /\ c.due = due /\ c.nested = nested
       /\ c.taken = l.taken /\ c.allowed = l.allowed /\ c.given = l.given
       /\ c.sent = l.sent /\ c.building = l.building /\ c.crossed = l.crossed
       /\ c.outbound = l.outbound /\ c.logged = l.logged /\ c.loose = l.loose /\ c.open = l.open
  <2> HIDE DEF inbound
  <2>1. c \in Ledgers
    <3>1. /\ l \in Ledgers /\ inbound \in 0 .. Len(Events) /\ users \in SUBSET Users
          /\ custody \in Amounts /\ supply \in Amounts /\ nested \in SUBSET Assets
          /\ token \in [Assets -> [Holders -> Nat]] /\ due \in [Assets -> [Users -> Nat]]
      BY <1>1, <1>5, <1>6, <1>8, <1>10
    <3> DEFINE t == [l EXCEPT !.inbound = inbound, !.users = users, !.custody = custody]
    <3>2. t \in Ledgers
      BY <3>1 DEF Ledgers
    <3>3. c = [t EXCEPT !.supply = supply, !.token = token, !.due = due, !.nested = nested]
      BY <1>4, <3>1 DEF Ledgers
    <3> HIDE DEF t
    <3> QED BY <3>1, <3>2, <3>3 DEF Ledgers
  <2>2. /\ c.supply = supply /\ c.custody = custody /\ c.token = token
        /\ c.inbound = inbound /\ c.due = due /\ c.nested = nested
    BY <1>1, <1>4 DEF Ledgers
  <2>3. /\ c.taken = l.taken /\ c.allowed = l.allowed /\ c.given = l.given
        /\ c.sent = l.sent /\ c.building = l.building /\ c.crossed = l.crossed
        /\ c.outbound = l.outbound /\ c.logged = l.logged /\ c.loose = l.loose /\ c.open = l.open
    BY <1>1, <1>4 DEF Ledgers
  <2> QED BY <2>1, <2>2, <2>3
<1>12. Adds(c)
  <2> SUFFICES ASSUME NEW b \in Assets
               PROVE  supply[b] = SumFunctionOnSet(token[b], Holders)
    BY <1>11 DEF Adds
  <2>1. l.supply[b] = SumFunctionOnSet(l.token[b], Holders)
    BY <1>1 DEF Sound, Adds
  <2>2. l.token[a] \in [Holders -> Nat] /\ token[a] \in [Holders -> Nat]
    BY <1>1, <1>2, <1>8
  <2>3. \A x \in Holders \ {u} : l.token[a][x] = token[a][x]
    BY <1>2, <1>9
  <2>4. SumFunctionOnSet(l.token[a], Holders) \in Nat /\ l.token[a][u] \in Nat
    BY <1>1, <1>2, TokenSum
  <2>5. SumFunctionOnSet(token[a], Holders)
          = SumFunctionOnSet(l.token[a], Holders) + token[a][u] - l.token[a][u]
    BY <1>2, <2>2, <2>3, HolderChange
  <2>6. CASE b = a
    BY <1>2, <1>6, <1>9, <2>1, <2>4, <2>5, <2>6
  <2>7. CASE b # a
    BY <1>6, <1>9, <2>1, <2>7
  <2> QED BY <2>6, <2>7
<1>13. Kept(c)
  <2> SUFFICES ASSUME NEW b \in Assets
               PROVE  supply[b] + l.building[b] + l.sent[b] = Arrived(inbound, b)
    BY <1>11 DEF Kept
  <2>1. l.supply[b] + l.building[b] + l.sent[b] = Arrived(l.inbound, b)
    BY <1>1 DEF Sound, Kept
  <2>2. l.supply[b] \in Nat /\ l.building[b] \in Nat /\ l.sent[b] \in Nat
    BY <1>1 DEF Amounts
  <2>3. Arrived(l.inbound + 1, b) =
          Arrived(l.inbound, b) + (IF Events[l.inbound + 1].asset = b
                                   THEN Events[l.inbound + 1].amount ELSE 0)
    BY <1>1, ArrivedNext
  <2>4. CASE b = a
    <3>1. supply[b] = l.supply[b] + v /\ v \in Nat
      BY <1>2, <1>6, <2>4
    <3>2. Arrived(inbound, b) = Arrived(l.inbound, b) + v
      BY <1>25, <2>3, <2>4
    <3> QED BY <2>1, <2>2, <3>1, <3>2
  <2>5. CASE b # a
    <3>1. supply[b] = l.supply[b]
      BY <1>6, <2>5
    <3>2. Arrived(l.inbound, b) \in Nat
      BY <2>1, <2>2
    <3>3. Arrived(inbound, b) = Arrived(l.inbound, b)
      BY <1>25, <2>3, <2>5, <3>2
    <3> QED BY <2>1, <3>1, <3>3
  <2> QED BY <2>4, <2>5
<1>14. Backed(c)
  <2> SUFFICES ASSUME NEW b \in Assets \ c.nested
               PROVE  c.custody[b] = c.supply[b] + c.building[b]
    BY DEF Backed
  <2>1. l.custody[b] = l.supply[b] + l.building[b]
    BY <1>1, <1>10, <1>11 DEF Sound, Backed
  <2>2. l.supply[b] \in Nat /\ l.building[b] \in Nat
    BY <1>1 DEF Amounts
  <2> QED BY <1>2, <1>6, <1>11, <2>1, <2>2
<1>15. Within(c) /\ Numbered(c)
  BY <1>1, <1>11 DEF Sound, Within, Numbered
<1>16. Passage(c)
  <2> SUFFICES ASSUME NEW b \in Assets, NEW w \in Users,
                      w \notin c.loose[b], b \notin c.nested
               PROVE  c.token[b][w] = c.due[b][w]
    BY DEF Passage
  <2>1. l.token[b][w] = l.due[b][w] /\ w \in Holders
    BY <1>1, <1>2, <1>10, <1>11 DEF Passage
  <2> QED BY <1>9, <1>11, <2>1
<1>17. Quiet(l, c)
  <2>1. l.open \in SUBSET Assets
    BY <1>1, LedgerTypes
  <2> QED BY <1>6, <1>10, <1>11, <2>1 DEF Quiet
<1>18. Sound(c)
  BY <1>11, <1>12, <1>13, <1>14, <1>15 DEF Sound
<1> QED BY <1>11, <1>16, <1>17, <1>18, <1>26 DEF Good

\* The amount of an event is no longer due.
LEMMA SettledDue ==
  ASSUME NEW d \in [Assets -> [Users -> Nat]], NEW a \in Assets, NEW u \in Users,
         NEW v \in Nat, d[a][u] >= v,
         NEW s, s = [d EXCEPT ![a][u] = @ - v]
  PROVE  /\ s \in [Assets -> [Users -> Nat]]
         /\ s[a][u] = d[a][u] - v
         /\ \A b \in Assets, w \in Users : b # a \/ w # u => s[b][w] = d[b][w]
<1>1. d[a][u] - v \in Nat
  OBVIOUS
<1>2. s \in [Assets -> [Users -> Nat]]
  BY <1>1, Replace2
<1> QED BY <1>2

\* The claim of an event.
LEMMA ClaimedGood ==
  ASSUME NEW l, Good(l), NEW e \in EventSet, l.due[e.asset][e.user] >= e.amount,
         CanSend(l, e.asset, e.user, e.amount), NEW c, c = Claimed(l, e)
  PROVE  /\ Good(c) /\ Quiet(l, c)
         /\ c.due = [l.due EXCEPT ![e.asset][e.user] = @ - e.amount]
<1> DEFINE a == e.asset
           u == e.user
           v == e.amount
           s == BurnAndSend(l, a, u, v)
           due == [l.due EXCEPT ![a][u] = @ - v]
<1>1. /\ l \in Ledgers /\ Sound(l) /\ Passage(l)
      /\ l.token \in [Assets -> [Holders -> Nat]] /\ l.due \in [Assets -> [Users -> Nat]]
  BY LedgerTypes DEF Good, Sound
<1>2. a \in Assets /\ u \in Users /\ v \in Nat /\ Users \subseteq Holders
  BY DEF EventSet, Holders
<1>3. c = [s EXCEPT !.due[a][u] = @ - v] /\ s = BurnAndSend(l, a, u, v)
  BY DEF Claimed
<1>4. l.due[a][u] >= v /\ CanSend(l, a, u, v)
  OBVIOUS
<1>5. due = [l.due EXCEPT ![e.asset][e.user] = @ - e.amount]
  OBVIOUS
<1> HIDE DEF a, u, v, s
<1>6. /\ Sound(s) /\ Steady(l, s)
      /\ s.token[a][u] = l.token[a][u] - v
      /\ \A b \in Assets, h \in Holders : b # a \/ h # u => s.token[b][h] = l.token[b][h]
      /\ s.loose = l.loose /\ l.nested \subseteq s.nested
  BY <1>1, <1>2, <1>3, <1>4, BurnSendSound
<1>7. /\ due \in [Assets -> [Users -> Nat]]
      /\ due[a][u] = l.due[a][u] - v
      /\ \A b \in Assets, w \in Users : b # a \/ w # u => due[b][w] = l.due[b][w]
  BY <1>1, <1>2, <1>4, SettledDue
<1>8. s \in Ledgers /\ s.due = l.due
  BY <1>6 DEF Sound, Steady
<1>9. c = [s EXCEPT !.due = due]
  BY <1>3, <1>8 DEF Ledgers
<1> HIDE DEF due
<1>10. /\ c \in Ledgers /\ c.due = due
       /\ c.taken = s.taken /\ c.allowed = s.allowed /\ c.given = s.given
       /\ c.supply = s.supply /\ c.custody = s.custody
       /\ c.sent = s.sent /\ c.inbound = s.inbound /\ c.building = s.building
       /\ c.nested = s.nested /\ c.crossed = s.crossed
       /\ c.outbound = s.outbound /\ c.logged = s.logged
       /\ c.token = s.token /\ c.loose = s.loose /\ c.open = s.open
  BY <1>7, <1>8, <1>9 DEF Ledgers
<1>11. Sound(c)
  BY <1>6, <1>10 DEF Sound, Adds, Kept, Backed, Within, Numbered
<1>12. Quiet(l, c)
  BY <1>6, <1>10 DEF Steady, Quiet
<1>13. Passage(c)
  <2> SUFFICES ASSUME NEW b \in Assets, NEW w \in Users,
                      w \notin c.loose[b], b \notin c.nested
               PROVE  c.token[b][w] = c.due[b][w]
    BY DEF Passage
  <2>1. l.token[b][w] = l.due[b][w] /\ w \in Holders
    BY <1>1, <1>2, <1>6, <1>10 DEF Passage
  <2> QED BY <1>6, <1>7, <1>10, <2>1
<1> QED BY <1>5, <1>10, <1>11, <1>12, <1>13 DEF Good

\* What a user has can be paid out, unless the balance of the Registry is not what
\* was issued.
LEMMA HeldCanBeSent ==
  ASSUME NEW l, Sound(l), NEW a \in Assets, a \notin l.nested, NEW u \in Users,
         NEW v \in Nat, l.token[a][u] >= v
  PROVE  CanSend(l, a, u, v)
<1> DEFINE F == l.token[a]
<1>0. /\ l.custody \in Amounts /\ l.supply \in Amounts /\ l.building \in Amounts
      /\ l.token \in [Assets -> [Holders -> Nat]]
  BY LedgerTypes DEF Sound
<1>1. /\ F \in [Holders -> Nat] /\ u \in Holders
      /\ l.supply[a] = SumFunctionOnSet(F, Holders)
      /\ l.custody[a] = l.supply[a] + l.building[a]
      /\ l.supply[a] \in Nat /\ l.building[a] \in Nat
  BY <1>0 DEF Sound, Adds, Backed, Holders, Amounts
<1>2. /\ \A x \in Holders : F[x] \in Int
      /\ \A x \in Holders \ {u} : F[x] \in Nat
  BY <1>1
<1>3. IsFiniteSet(Holders \ {u})
  BY FiniteHolders, FS_RemoveElement
<1>6. F[u] \in Nat /\ F[u] >= v
  BY <1>1
<1> HIDE DEF F
<1>4. SumFunctionOnSet(F, Holders) = F[u] + SumFunctionOnSet(F, Holders \ {u})
  BY <1>1, <1>2, FiniteHolders, SumRemove
<1>5. SumFunctionOnSet(F, Holders \ {u}) \in Nat
  BY <1>2, <1>3, SumNat
<1>7. l.supply[a] >= v
  BY <1>1, <1>4, <1>5, <1>6
<1>8. l.custody[a] >= v
  BY <1>1, <1>7
<1> QED BY <1>7, <1>8 DEF CanSend

\* The claim of an event fails: the tokens were moved, or are marked.
LEMMA UnclaimedGood ==
  ASSUME NEW l, Good(l), NEW e \in EventSet, l.due[e.asset][e.user] >= e.amount,
         NEW c, c = Unclaimed(l, e)
  PROVE  /\ Good(c) /\ Quiet(l, c)
         /\ c.due = [l.due EXCEPT ![e.asset][e.user] = @ - e.amount]
<1> DEFINE a == e.asset
           u == e.user
           v == e.amount
           can == CanSend(l, a, u, v)
           due == [l.due EXCEPT ![a][u] = @ - v]
           loose == [l.loose EXCEPT ![a] = IF can THEN @ \cup {u} ELSE @]
<1>1. /\ l \in Ledgers /\ Sound(l) /\ Passage(l)
      /\ l.token \in [Assets -> [Holders -> Nat]] /\ l.due \in [Assets -> [Users -> Nat]]
      /\ l.loose \in [Assets -> SUBSET Users]
  BY LedgerTypes DEF Good, Sound
<1>2. a \in Assets /\ u \in Users /\ v \in Nat /\ Users \subseteq Holders
  BY DEF EventSet, Holders
<1>3. c = [l EXCEPT !.due = due, !.loose = loose]
  BY <1>1 DEF Unclaimed, Ledgers
<1>4. l.due[a][u] >= v
  OBVIOUS
<1>5. due = [l.due EXCEPT ![e.asset][e.user] = @ - e.amount]
  OBVIOUS
<1>14. can = CanSend(l, a, u, v)
  OBVIOUS
<1> HIDE DEF a, u, v, can
<1>6. /\ loose \in [Assets -> SUBSET Users]
      /\ \A b \in Assets : l.loose[b] \subseteq loose[b]
      /\ can => u \in loose[a]
  BY <1>1, <1>2
<1>7. /\ due \in [Assets -> [Users -> Nat]]
      /\ due[a][u] = l.due[a][u] - v
      /\ \A b \in Assets, w \in Users : b # a \/ w # u => due[b][w] = l.due[b][w]
  BY <1>1, <1>2, <1>4, SettledDue
<1> HIDE DEF due, loose
<1>10. /\ c \in Ledgers /\ c.due = due /\ c.loose = loose
       /\ c.taken = l.taken /\ c.allowed = l.allowed /\ c.given = l.given
       /\ c.supply = l.supply /\ c.custody = l.custody
       /\ c.sent = l.sent /\ c.inbound = l.inbound /\ c.building = l.building
       /\ c.nested = l.nested /\ c.crossed = l.crossed
       /\ c.outbound = l.outbound /\ c.logged = l.logged
       /\ c.token = l.token /\ c.open = l.open
  BY <1>1, <1>3, <1>6, <1>7 DEF Ledgers
<1>11. Sound(c)
  BY <1>1, <1>10 DEF Sound, Adds, Kept, Backed, Within, Numbered
<1>12. Quiet(l, c)
  BY <1>10 DEF Quiet
<1>13. Passage(c)
  <2> SUFFICES ASSUME NEW b \in Assets, NEW w \in Users,
                      w \notin c.loose[b], b \notin c.nested
               PROVE  c.token[b][w] = c.due[b][w]
    BY DEF Passage
  <2>1. l.token[b][w] = l.due[b][w] /\ w \in Holders
    BY <1>1, <1>2, <1>6, <1>10 DEF Passage
  <2>2. CASE b = a /\ w = u
    <3>1. l.token[a][u] >= v /\ a \notin l.nested
      BY <1>4, <1>10, <2>1, <2>2
    <3>2. can
      BY <1>1, <1>2, <1>14, <3>1, HeldCanBeSent
    <3> QED BY <1>6, <1>10, <2>2, <3>2
  <2>3. CASE b # a \/ w # u
    BY <1>7, <1>10, <2>1, <2>3
  <2> QED BY <2>2, <2>3
<1> QED BY <1>5, <1>10, <1>11, <1>12, <1>13 DEF Good

\* A user claims tokens by its list.
LEMMA OwnClaimGood ==
  ASSUME NEW l, Good(l), NEW a \in Assets, NEW u \in Users, NEW v \in Nat,
         CanSend(l, a, u, v),
         NEW c, c = [BurnAndSend(l, a, u, v) EXCEPT
                       !.loose[a] = IF v > 0 THEN @ \cup {u} ELSE @]
  PROVE  Good(c) /\ Steady(l, c)
<1> DEFINE s == BurnAndSend(l, a, u, v)
           loose == [l.loose EXCEPT ![a] = IF v > 0 THEN @ \cup {u} ELSE @]
<1>1. /\ l \in Ledgers /\ Sound(l) /\ Passage(l)
      /\ l.loose \in [Assets -> SUBSET Users] /\ Users \subseteq Holders
      /\ l.token \in [Assets -> [Holders -> Nat]]
  BY LedgerTypes DEF Good, Sound, Holders
<1>2. c = [s EXCEPT !.loose[a] = IF v > 0 THEN @ \cup {u} ELSE @] /\ s = BurnAndSend(l, a, u, v)
  OBVIOUS
<1> HIDE DEF s
<1>3. /\ Sound(s) /\ Steady(l, s)
      /\ s.token[a][u] = l.token[a][u] - v
      /\ \A b \in Assets, h \in Holders : b # a \/ h # u => s.token[b][h] = l.token[b][h]
      /\ s.loose = l.loose /\ l.nested \subseteq s.nested
  BY <1>1, <1>2, BurnSendSound
<1>4. s \in Ledgers /\ s.due = l.due
  BY <1>3 DEF Sound, Steady
<1>5. c = [s EXCEPT !.loose = loose]
  BY <1>2, <1>3, <1>4 DEF Ledgers
<1>6. /\ loose \in [Assets -> SUBSET Users] /\ (v = 0 \/ u \in loose[a])
      /\ \A b \in Assets : l.loose[b] \subseteq loose[b]
  BY <1>1
<1> HIDE DEF loose
<1>7. /\ c \in Ledgers /\ c.due = s.due
      /\ c.taken = s.taken /\ c.allowed = s.allowed /\ c.given = s.given
      /\ c.supply = s.supply /\ c.custody = s.custody
      /\ c.sent = s.sent /\ c.inbound = s.inbound /\ c.building = s.building
      /\ c.nested = s.nested /\ c.crossed = s.crossed
      /\ c.outbound = s.outbound /\ c.logged = s.logged
      /\ c.token = s.token /\ c.loose = loose /\ c.open = s.open
  BY <1>4, <1>5, <1>6 DEF Ledgers
<1>8. Sound(c)
  BY <1>3, <1>7 DEF Sound, Adds, Kept, Backed, Within, Numbered
<1>9. Steady(l, c)
  BY <1>3, <1>7 DEF Steady, Quiet
<1>10. Passage(c)
  <2> SUFFICES ASSUME NEW b \in Assets, NEW w \in Users,
                      w \notin c.loose[b], b \notin c.nested
               PROVE  c.token[b][w] = c.due[b][w]
    BY DEF Passage
  <2>1. /\ l.token[b][w] = l.due[b][w] /\ w \in Holders
        /\ v = 0 \/ b # a \/ w # u
    BY <1>1, <1>3, <1>6, <1>7 DEF Passage
  <2>2. s.token[b][w] = l.token[b][w]
    <3>1. l.token[a][u] \in Nat
      BY <1>1
    <3> QED BY <1>3, <2>1, <3>1
  <2> QED BY <1>4, <1>7, <2>1, <2>2
<1> QED BY <1>8, <1>9, <1>10 DEF Good

\* Halting touches no balance.
LEMMA HaltGood ==
  ASSUME NEW l, Good(l), l.halts < MaxHalts,
         NEW c, c = [l EXCEPT !.halts = @ + 1, !.halted = ~ @]
  PROVE  Good(c) /\ Steady(l, c)
<1> DEFINE s == [l EXCEPT !.halts = @ + 1]
<1>1. l \in Ledgers /\ Sound(l) /\ Passage(l) /\ MaxHalts \in Nat
  BY RegistryAssumption DEF Good, Sound
<1>2. l.halts \in 0 .. MaxHalts /\ l.halted \in BOOLEAN
  BY <1>1 DEF Ledgers
<1>3. l.halts + 1 \in 0 .. MaxHalts /\ (~ l.halted) \in BOOLEAN
  BY <1>1, <1>2
<1>4. s \in Ledgers
  BY <1>1, <1>3 DEF Ledgers
<1>5. c = [s EXCEPT !.halted = ~ l.halted]
  BY <1>1 DEF Ledgers
<1>6. c \in Ledgers
  <2> DEFINE b == ~ l.halted
  <2>1. c = [s EXCEPT !.halted = b] /\ b \in BOOLEAN
    BY <1>5
  <2> HIDE DEF b, s
  <2> QED BY <1>4, <2>1 DEF Ledgers
<1>7. /\ c.due = l.due
      /\ c.taken = l.taken /\ c.allowed = l.allowed /\ c.given = l.given
      /\ c.supply = l.supply /\ c.custody = l.custody
      /\ c.sent = l.sent /\ c.inbound = l.inbound /\ c.building = l.building
      /\ c.nested = l.nested /\ c.crossed = l.crossed
      /\ c.outbound = l.outbound /\ c.logged = l.logged
      /\ c.token = l.token /\ c.loose = l.loose /\ c.open = l.open
  BY <1>1 DEF Ledgers
<1>8. Sound(c)
  BY <1>1, <1>6, <1>7 DEF Sound, Adds, Kept, Backed, Within, Numbered
<1>9. Steady(l, c) /\ Passage(c)
  BY <1>1, <1>7 DEF Steady, Quiet, Passage
<1> QED BY <1>8, <1>9 DEF Good

\* A Storage was written: what was burned is sent, and the call that asked for it
\* returns.
LEMMA WrittenGood ==
  ASSUME NEW l, Good(l), NEW f \in Writes, FrameOK(f), Chain(l, f),
         f.balance >= f.amount,
         NEW c, c = [l EXCEPT !.custody[f.asset] = f.balance - f.amount,
                              !.outbound = @ + 1,
                              !.sent[f.asset] = @ + f.amount,
                              !.logged = @ \cup {f.nonce},
                              !.building[f.asset] = @ - f.amount,
                              !.open = f.before.open]
  PROVE  Good(c) /\ Steady(f.before, c)
<1> DEFINE a == f.asset
           v == f.amount
           k == f.before
           custody == [l.custody EXCEPT ![a] = f.balance - v]
           sent == [l.sent EXCEPT ![a] = @ + v]
           building == [l.building EXCEPT ![a] = @ - v]
           logged == l.logged \cup {f.nonce}
           outbound == l.outbound + 1
<1>1. /\ l \in Ledgers /\ Sound(l) /\ Passage(l)
      /\ l.custody \in Amounts /\ l.supply \in Amounts /\ l.sent \in Amounts
      /\ l.building \in Amounts /\ l.outbound \in Nat /\ l.logged \in SUBSET Nat
  BY LedgerTypes DEF Good, Sound
<1>2. /\ f.kind = "write" /\ a \in Assets /\ v \in Nat /\ k \in Ledgers
      /\ f.balance \in Nat /\ f.nonce \in Nat
      /\ f.balance = k.custody[a] /\ f.nonce = k.outbound
  BY DEF Writes, FrameOK
<1>3. k.custody \in Amounts /\ k.building \in Amounts /\ k.open \in SUBSET Assets
  BY <1>2, LedgerTypes
<1>4. /\ l.building = [k.building EXCEPT ![a] = @ + v] /\ l.due = k.due
      /\ l.open = k.open \cup {a}
  BY <1>2 DEF Chain, OpenBuilding, OpenAssets, OpenDue
<1>5. /\ k.nested \subseteq l.nested /\ (k.crossed => l.crossed)
      /\ \A b \in l.open : b \in l.nested \/ l.custody[b] = k.custody[b]
      /\ Building(l) => l.crossed \/ l.outbound = k.outbound
      /\ a \in k.open => a \in l.nested
      /\ Building(k) => l.crossed
  BY <1>2 DEF Chain
<1>6. c = [l EXCEPT !.custody = custody, !.outbound = outbound, !.sent = sent,
                    !.logged = logged, !.building = building, !.open = k.open]
  BY <1>1 DEF Ledgers
<1>7. f.balance - v \in Nat /\ f.balance >= v
  BY <1>2
<1>8. /\ l.building[a] = k.building[a] + v /\ k.building[a] \in Nat
      /\ \A b \in Assets \ {a} : l.building[b] = k.building[b]
  BY <1>2, <1>3, <1>4 DEF Amounts
<1>9. building \in Amounts /\ building = k.building
  BY <1>2, <1>3, <1>4, <1>8 DEF Amounts
<1>10. /\ custody \in Amounts /\ custody[a] = f.balance - v
       /\ \A b \in Assets \ {a} : custody[b] = l.custody[b]
  BY <1>1, <1>2, <1>7 DEF Amounts
<1>11. /\ sent \in Amounts /\ sent[a] = l.sent[a] + v
       /\ \A b \in Assets \ {a} : sent[b] = l.sent[b]
  BY <1>1, <1>2 DEF Amounts
<1>12. Building(l)
  BY <1>4 DEF Building
<1>13. ~ l.crossed => logged = 0 .. outbound - 1
  <2> SUFFICES ASSUME ~ l.crossed PROVE logged = 0 .. outbound - 1
    OBVIOUS
  <2>1. l.logged = 0 .. l.outbound - 1 /\ f.nonce = l.outbound
    BY <1>1, <1>2, <1>5, <1>12 DEF Sound, Numbered
  <2> QED BY <1>1, <2>1
<1>14. logged \in SUBSET Nat /\ outbound \in Nat
  BY <1>1, <1>2
<1> HIDE DEF a, v, k, custody, sent, building, logged, outbound
<1>15. /\ c \in Ledgers
       /\ c.custody = custody /\ c.outbound = outbound /\ c.sent = sent
       /\ c.logged = logged /\ c.building = building /\ c.open = k.open
       /\ c.nested = l.nested /\ c.crossed = l.crossed
       /\ c.token = l.token /\ c.supply = l.supply /\ c.inbound = l.inbound
  <2>1. /\ l \in Ledgers
        /\ custody \in Amounts /\ outbound \in Nat /\ sent \in Amounts
        /\ logged \in SUBSET Nat /\ building \in Amounts /\ k.open \in SUBSET Assets
    BY <1>1, <1>3, <1>9, <1>10, <1>11, <1>14
  <2>2. c \in Ledgers
    <3> DEFINE t == [l EXCEPT !.custody = custody, !.outbound = outbound, !.sent = sent]
               w == [t EXCEPT !.building = building, !.open = k.open]
    <3>1. t \in Ledgers
      BY <2>1 DEF Ledgers
    <3>2. c = [w EXCEPT !.logged = logged]
      BY <1>6, <2>1 DEF Ledgers
    <3> HIDE DEF t
    <3>3. w \in Ledgers
      BY <2>1, <3>1 DEF Ledgers
    <3> HIDE DEF w
    <3> QED BY <2>1, <3>2, <3>3 DEF Ledgers
  <2>3. /\ c.custody = custody /\ c.outbound = outbound /\ c.sent = sent
        /\ c.logged = logged /\ c.building = building /\ c.open = k.open
    BY <1>6, <2>1 DEF Ledgers
  <2>4. /\ c.nested = l.nested /\ c.crossed = l.crossed
        /\ c.token = l.token /\ c.supply = l.supply /\ c.inbound = l.inbound
    BY <1>6, <2>1 DEF Ledgers
  <2> QED BY <2>2, <2>3, <2>4
<1>16. /\ c.due = l.due /\ c.loose = l.loose
       /\ c.given = l.given /\ c.taken = l.taken /\ c.allowed = l.allowed
  BY <1>1, <1>6 DEF Ledgers
<1>17. Adds(c) /\ Within(c) /\ Numbered(c)
  BY <1>1, <1>13, <1>15, <1>16 DEF Sound, Adds, Within, Numbered
<1>18. Kept(c)
  <2> SUFFICES ASSUME NEW b \in Assets
               PROVE  l.supply[b] + k.building[b] + sent[b] = Arrived(l.inbound, b)
    BY <1>9, <1>15 DEF Kept
  <2>1. l.supply[b] + l.building[b] + l.sent[b] = Arrived(l.inbound, b)
    BY <1>1 DEF Sound, Kept
  <2>2. l.supply[b] \in Nat /\ k.building[b] \in Nat /\ l.sent[b] \in Nat
    BY <1>1, <1>3 DEF Amounts
  <2>3. CASE b = a
    BY <1>2, <1>8, <1>11, <2>1, <2>2, <2>3
  <2>4. CASE b # a
    BY <1>8, <1>11, <2>1, <2>4
  <2> QED BY <2>3, <2>4
<1>19. Backed(c)
  <2> SUFFICES ASSUME NEW b \in Assets \ l.nested
               PROVE  custody[b] = l.supply[b] + k.building[b]
    BY <1>9, <1>15 DEF Backed
  <2>1. l.custody[b] = l.supply[b] + l.building[b]
    BY <1>1 DEF Sound, Backed
  <2>2. l.supply[b] \in Nat /\ k.building[b] \in Nat /\ l.custody[b] \in Nat
    BY <1>1, <1>3 DEF Amounts
  <2>3. CASE b = a
    <3>1. l.custody[a] = f.balance
      BY <1>2, <1>4, <1>5, <2>3
    <3> QED BY <1>2, <1>8, <1>10, <2>1, <2>2, <2>3, <3>1
  <2>4. CASE b # a
    BY <1>8, <1>10, <2>1, <2>4
  <2> QED BY <2>3, <2>4
<1>20. Passage(c)
  BY <1>1, <1>15, <1>16 DEF Passage
<1>21. Steady(k, c)
  <2>1. \A b \in k.open : b \in c.nested \/ c.custody[b] = k.custody[b]
    <3> SUFFICES ASSUME NEW b \in Assets, b \in k.open
                 PROVE  b \in l.nested \/ custody[b] = k.custody[b]
      BY <1>3, <1>15
    <3>1. CASE b = a
      BY <1>5, <3>1
    <3>2. CASE b # a
      BY <1>4, <1>5, <1>10, <3>2
    <3> QED BY <3>1, <3>2
  <2> QED BY <1>4, <1>5, <1>9, <1>15, <1>16, <2>1 DEF Steady, Quiet
<1>22. Sound(c)
  BY <1>15, <1>17, <1>18, <1>19 DEF Sound
<1> QED BY <1>20, <1>21, <1>22 DEF Good, k

\* What an event brought is due and then no longer.
LEMMA DueBack ==
  ASSUME NEW d \in [Assets -> [Users -> Nat]], NEW a \in Assets, NEW u \in Users,
         NEW v \in Nat, NEW m, m = [d EXCEPT ![a][u] = @ + v],
         NEW r, r = [m EXCEPT ![a][u] = @ - v]
  PROVE  m[a][u] >= v /\ r = d
<1>1. d[a][u] \in Nat /\ m[a][u] = d[a][u] + v
  OBVIOUS
<1>2. m[a][u] - v = d[a][u]
  BY <1>1
<1>3. [m EXCEPT ![a][u] = d[a][u]] = d
  OBVIOUS
<1> QED BY <1>1, <1>2, <1>3

-----------------------------------------------------------------------------
(* The actions.                                                             *)

\* The innermost open call.
LEMMA TopFrame ==
  ASSUME RegistryInv, stack # <<>>
  PROVE  /\ Top = stack[Len(stack)] /\ Stacked(stack)
         /\ FrameOK(Top) /\ Chain(ledger, Top) /\ Good(ledger)
         /\ Top.kind = "run" => /\ Top \in Runs /\ Top.event \in EventSet
                                /\ Top.count \in Nat /\ Top.rest \in Seq(Entries)
                                /\ Top.before \in Ledgers
         /\ Top.kind = "write" => Top \in Writes
<1>1. Stacked(stack) /\ Good(ledger) /\ Sits(ledger, stack, Len(stack))
  BY DEF RegistryInv
<1>2. stack \in Seq(Frames) /\ Len(stack) \in Nat /\ Len(stack) # 0
  BY <1>1 DEF Stacked
<1>3. FrameOK(Top) /\ Chain(ledger, Top)
  BY <1>1, <1>2 DEF Top, Stacked, Sits
<1>4. Top \in Frames
  BY <1>3 DEF FrameOK
<1>5. (Top.kind = "run" => Top \in Runs) /\ (Top.kind = "write" => Top \in Writes)
  BY <1>4 DEF Frames, Runs, Writes
<1>6. ASSUME Top \in Runs
      PROVE  /\ Top.event \in {Events[i] : i \in DOMAIN Events} /\ Top.count \in Nat
             /\ Top.rest \in Seq(Entries) /\ Top.before \in Ledgers
  BY <1>6 DEF Runs
<1>7. {Events[i] : i \in DOMAIN Events} \subseteq EventSet
  <2>1. Events \in Seq(EventSet)
    BY RegistryAssumption DEF EventSet
  <2> QED BY <2>1
<1> QED BY <1>1, <1>3, <1>5, <1>6, <1>7 DEF Top

\* A call into the contracts was made and has returned.
LEMMA CallReturns ==
  ASSUME RegistryInv, Good(ledger'), Steady(ledger, ledger'), stack' = Returned(stack)
  PROVE  RegistryInv'
<1>1. Sits(ledger', stack, Len(stack)) /\ Stacked(stack)
  BY SitsSteady DEF RegistryInv
<1>2. Stacked(Returned(stack)) /\ Sits(ledger', Returned(stack), Len(Returned(stack)))
  BY <1>1, ReturnedStack
<1> QED BY <1>2 DEF RegistryInv

\* The innermost open call returns.
LEMMA CallCloses ==
  ASSUME RegistryInv, stack # <<>>, Good(ledger'), Steady(Top.before, ledger'),
         stack' = Returned(Below)
  PROVE  RegistryInv'
<1>1. Stacked(Below) /\ Sits(Top.before, Below, Len(Below))
  BY PopStack DEF RegistryInv, Below, Top
<1>2. Sits(ledger', Below, Len(Below))
  BY <1>1, SitsSteady
<1>3. Stacked(Returned(Below)) /\ Sits(ledger', Returned(Below), Len(Returned(Below)))
  BY <1>1, <1>2, ReturnedStack
<1> QED BY <1>3 DEF RegistryInv

\* The innermost open call reverts.
LEMMA CallReverts ==
  ASSUME RegistryInv, stack # <<>>, ledger' = Top.before, stack' = Below
  PROVE  RegistryInv'
<1>1. Stacked(Below) /\ Sits(Top.before, Below, Len(Below)) /\ FrameOK(Top)
  BY PopStack DEF RegistryInv, Below, Top
<1> QED BY <1>1 DEF RegistryInv, FrameOK

\* The innermost open call goes on.
LEMMA CallGoesOn ==
  ASSUME RegistryInv, stack # <<>>, NEW f, FrameOK(f), f.before = Top.before,
         Good(ledger'), Chain(ledger', f), stack' = [stack EXCEPT ![Len(stack)] = f]
  PROVE  RegistryInv'
<1>1. Stacked(stack) /\ f.before = stack[Len(stack)].before
  BY DEF RegistryInv, Top
<1>2. Stacked(stack') /\ Sits(ledger', stack', Len(stack'))
  BY <1>1, TopStack
<1> QED BY <1>2 DEF RegistryInv

\* The invariant holds before the first transaction.
LEMMA InitInv == Init => RegistryInv
<1> SUFFICES ASSUME Init PROVE RegistryInv
  OBVIOUS
<1>1. ledger = EmptyLedger /\ stack = <<>> /\ Len(Events) \in Nat
  BY RegistryAssumption DEF Init
<1>2. /\ NoTokens \in Amounts /\ NoPairs \in Pairs
      /\ \A a \in Assets : NoTokens[a] = 0
      /\ \A a \in Assets, u \in Users, h \in Holders : NoPairs[a][u][h] = 0
  BY DEF NoTokens, Amounts, NoPairs, Pairs
<1>3. ledger \in Ledgers
  BY <1>1, <1>2, RegistryAssumption DEF Ledgers, EmptyLedger
<1>4. /\ ledger.inbound = 0 /\ ledger.outbound = 0 /\ ledger.supply = NoTokens
      /\ ledger.custody = NoTokens /\ ledger.building = NoTokens /\ ledger.sent = NoTokens
      /\ ledger.token = [a \in Assets |-> [h \in Holders |-> 0]]
      /\ ledger.due = [a \in Assets |-> [u \in Users |-> 0]]
      /\ ledger.given = NoPairs /\ ledger.taken = NoPairs /\ ledger.allowed = NoPairs
      /\ ledger.logged = {}
  BY <1>1 DEF EmptyLedger
<1>5. Adds(ledger)
  <2> SUFFICES ASSUME NEW a \in Assets
               PROVE  SumFunctionOnSet(ledger.token[a], Holders) = 0
    BY <1>2, <1>4 DEF Adds
  <2> DEFINE F == ledger.token[a]
  <2>1. \A x \in Holders : F[x] = 0
    BY <1>4
  <2> HIDE DEF F
  <2>2. SumFunctionOnSet(F, Holders) = 0
    BY <2>1, FiniteHolders, SumZero
  <2> QED BY <2>2 DEF F
<1>6. Kept(ledger) /\ Backed(ledger)
  BY <1>2, <1>4, ArrivedNone DEF Kept, Backed
<1>7. Within(ledger) /\ Numbered(ledger)
  <2>1. {} = 0 .. 0 - 1
    OBVIOUS
  <2> QED BY <1>2, <1>4, <2>1 DEF Within, Numbered
<1>8. Passage(ledger) /\ AtRest(ledger)
  BY <1>2, <1>4 DEF Passage, AtRest, Holders
<1>9. Stacked(stack) /\ Len(stack) = 0
  BY <1>1, RegistryAssumption DEF Stacked
<1> QED BY <1>3, <1>5, <1>6, <1>7, <1>8, <1>9 DEF RegistryInv, Good, Sound, Sits

\* An event is taken.
LEMMA MixinInv == RegistryInv /\ Mixin => RegistryInv'
<1> SUFFICES ASSUME RegistryInv, Mixin PROVE RegistryInv'
  OBVIOUS
<1> DEFINE e == Events[ledger.inbound + 1]
           l == Credited(ledger, e)
<1>1. /\ Good(ledger) /\ Stacked(stack) /\ Sits(ledger, stack, Len(stack))
      /\ ledger \in Ledgers /\ ledger.inbound \in Nat /\ ledger.inbound < Len(Events)
      /\ ledger.due \in [Assets -> [Users -> Nat]]
  <2>1. ledger \in Ledgers /\ Len(Events) \in Nat
    BY RegistryAssumption DEF RegistryInv, Good, Sound
  <2> QED BY <2>1, LedgerTypes DEF RegistryInv, Mixin
<1>2. e \in EventSet /\ e \in {Events[j] : j \in DOMAIN Events}
  BY <1>1, NextEvent
<1>3. /\ Good(l) /\ Quiet(ledger, l)
      /\ l.due = [ledger.due EXCEPT ![e.asset][e.user] = @ + e.amount]
  BY <1>1, <1>2, CreditedGood
<1>4. PICK list \in e.lists :
        IF list.count \in 1 .. MaxProcesses
        THEN /\ Len(stack) < MaxDepth
             /\ ledger' = l
             /\ stack' = Append(stack,
                  [kind |-> "run", event |-> e, count |-> list.count,
                   rest |-> list.calls, first |-> TRUE, greedy |-> FALSE,
                   stage |-> "loop", before |-> ledger, saved |-> l])
        ELSE /\ CanSend(l, e.asset, e.user, e.amount)
             /\ ledger' = Claimed(l, e)
             /\ stack' = Returned(stack)
  BY DEF Mixin
<1>5. l \in Ledgers
  BY <1>3 DEF Good, Sound
<1>6. list.count \in Nat /\ list.calls \in Seq(Entries)
  BY <1>2 DEF EventSet, Lists
<1> HIDE DEF e, l
<1>7. CASE list.count \in 1 .. MaxProcesses
  <2> DEFINE f == [kind |-> "run", event |-> e, count |-> list.count,
                   rest |-> list.calls, first |-> TRUE, greedy |-> FALSE,
                   stage |-> "loop", before |-> ledger, saved |-> l]
  <2>1. Len(stack) < MaxDepth /\ ledger' = l /\ stack' = Append(stack, f)
    BY <1>4, <1>7
  <2>2. f \in Runs
    BY <1>1, <1>2, <1>5, <1>6 DEF Runs
  <2>3. /\ f.kind = "run" /\ f.before = ledger /\ f.saved = l /\ f.event = e
        /\ f.stage = "loop"
    OBVIOUS
  <2> HIDE DEF f
  <2>4. l.due = OpenDue(f)
    BY <1>3, <2>3 DEF OpenDue
  <2>5. Chain(l, f)
    BY <1>3, <2>3, <2>4, RunChain
  <2>6. FrameOK(f)
    BY <1>1, <1>3, <2>2, <2>3, <2>5 DEF FrameOK, Frames
  <2>7. Stacked(Append(stack, f)) /\ Sits(l, Append(stack, f), Len(Append(stack, f)))
    BY <1>1, <2>1, <2>3, <2>5, <2>6, PushStack
  <2> QED BY <1>3, <2>1, <2>7 DEF RegistryInv
<1>8. CASE list.count \notin 1 .. MaxProcesses
  <2>1. /\ CanSend(l, e.asset, e.user, e.amount) /\ ledger' = Claimed(l, e)
        /\ stack' = Returned(stack)
    BY <1>4, <1>8
  <2>2. e.asset \in Assets /\ e.user \in Users /\ e.amount \in Nat
    BY <1>2 DEF EventSet
  <2>3. /\ l.due[e.asset][e.user] >= e.amount
        /\ [l.due EXCEPT ![e.asset][e.user] = @ - e.amount] = ledger.due
    <3> DEFINE a == e.asset
               u == e.user
               v == e.amount
               d == ledger.due
               m == l.due
               r == [m EXCEPT ![a][u] = @ - v]
    <3>1. /\ a \in Assets /\ u \in Users /\ v \in Nat /\ d \in [Assets -> [Users -> Nat]]
          /\ m = [d EXCEPT ![a][u] = @ + v] /\ r = [m EXCEPT ![a][u] = @ - v]
      BY <1>1, <1>3, <2>2
    <3> HIDE DEF a, u, v, d, m, r
    <3>2. m[a][u] >= v /\ r = d
      BY <3>1, DueBack
    <3> QED BY <3>2 DEF a, u, v, d, m, r
  <2>4. /\ Good(ledger') /\ Quiet(l, ledger')
        /\ ledger'.due = [l.due EXCEPT ![e.asset][e.user] = @ - e.amount]
    BY <1>2, <1>3, <2>1, <2>3, ClaimedGood
  <2>5. Steady(ledger, ledger')
    BY <1>3, <2>3, <2>4, QuietTrans DEF Steady
  <2> QED BY <2>1, <2>4, <2>5, CallReturns
<1> QED BY <1>7, <1>8

\* An entry of a list is called.
LEMMA HandleInv == RegistryInv /\ Handle => RegistryInv'
<1> SUFFICES ASSUME RegistryInv, Handle PROVE RegistryInv'
  OBVIOUS
<1> DEFINE entry == Head(Top.rest)
           e == Top.event
<1>1. stack # <<>> /\ Top.kind = "run" /\ Top.rest # <<>>
  BY DEF Handle, InStage
<1>2. /\ FrameOK(Top) /\ Chain(ledger, Top) /\ Good(ledger) /\ Top \in Runs
      /\ e \in EventSet /\ Top = stack[Len(stack)]
  BY <1>1, TopFrame
<1>3. /\ ledger' = IF Top.first /\ entry.to \in Holders
                   THEN Approved(ledger, e.asset, e.user, entry.to, e.amount)
                   ELSE ledger
      /\ \E stage \in Target(entry) :
           stack' = [stack EXCEPT ![Len(stack)] =
                       [Top EXCEPT !.stage = stage, !.saved = ledger',
                                   !.greedy = @ \/ entry.to \in Greedy \cup {System}]]
  BY DEF Handle, Top
<1>4. e.asset \in Assets /\ e.user \in Users /\ e.amount \in Nat
  BY <1>2 DEF EventSet
<1>5. PICK stage \in {"process", "own", "done", "claim"} :
           stack' = [stack EXCEPT ![Len(stack)] =
                       [Top EXCEPT !.stage = stage, !.saved = ledger',
                                   !.greedy = @ \/ entry.to \in Greedy \cup {System}]]
  BY <1>3 DEF Target
<1> HIDE DEF entry, e
<1>6. Good(ledger') /\ Steady(ledger, ledger')
  <2>1. CASE Top.first /\ entry.to \in Holders
    BY <1>2, <1>3, <1>4, <2>1, ApprovedGood
  <2>2. CASE ~ (Top.first /\ entry.to \in Holders)
    BY <1>2, <1>3, <2>2 DEF Steady, Quiet
  <2> QED BY <2>1, <2>2
<1> DEFINE greedy == Top.greedy \/ entry.to \in Greedy \cup {System}
           g == [Top EXCEPT !.stage = stage, !.saved = ledger']
           f == [g EXCEPT !.greedy = greedy]
<1>7. stack' = [stack EXCEPT ![Len(stack)] = f]
  <2>1. f = [Top EXCEPT !.stage = stage, !.saved = ledger',
                        !.greedy = @ \/ entry.to \in Greedy \cup {System}]
    BY <1>2 DEF Runs
  <2> HIDE DEF f
  <2> QED BY <1>2, <1>5, <2>1
<1>8. ledger' \in Ledgers /\ greedy \in BOOLEAN
  BY <1>2, <1>6 DEF Good, Sound, Runs
<1> HIDE DEF greedy
<1>9. g \in Runs
  BY <1>2, <1>8 DEF Runs
<1>10. /\ f.before = Top.before /\ f.saved = ledger' /\ f.event = Top.event
       /\ f.rest = Top.rest /\ f.kind = "run"
  BY <1>2 DEF Runs
<1>11. f \in Runs
  <2> HIDE DEF g
  <2> QED BY <1>8, <1>9 DEF Runs
<1> HIDE DEF f, g
<1>12. Chain(ledger', Top)
  BY <1>2, <1>6, ChainSteady
<1>13. OpenDue(f) = OpenDue(Top)
  BY <1>1, <1>10 DEF OpenDue
<1>14. Chain(ledger', f)
  BY <1>1, <1>10, <1>12, <1>13, RunChain
<1>15. FrameOK(f)
  BY <1>1, <1>2, <1>6, <1>10, <1>11, <1>14 DEF FrameOK, Frames
<1> QED BY <1>1, <1>6, <1>7, <1>10, <1>14, <1>15, CallGoesOn

\* A call of a list succeeds.
LEMMA ProcessReturnsInv == RegistryInv /\ ProcessReturns => RegistryInv'
<1> SUFFICES ASSUME RegistryInv, ProcessReturns PROVE RegistryInv'
  OBVIOUS
<1>1. stack # <<>> /\ Top.kind = "run" /\ Top.stage \in {"process", "own", "done"}
  BY DEF ProcessReturns, InStage
<1>2. /\ FrameOK(Top) /\ Chain(ledger, Top) /\ Good(ledger) /\ Top \in Runs
      /\ Top.count \in Nat /\ Top.rest \in Seq(Entries)
  BY <1>1, TopFrame
<1>3. CASE Top.count = 0
  BY <1>1, <1>3, CallReverts DEF ProcessReturns
<1>4. CASE Top.count # 0
  <2> DEFINE f == Advanced(Top)
  <2>1. ledger' = ledger /\ stack' = [stack EXCEPT ![Len(stack)] = f]
    BY <1>4 DEF ProcessReturns
  <2>2. Top.rest # <<>>
    BY <1>1, <1>2 DEF FrameOK
  <2>3. Top.count - 1 \in Nat /\ Tail(Top.rest) \in Seq(Entries)
    BY <1>2, <1>4, <2>2
  <2>4. /\ f \in Runs /\ f.before = Top.before /\ f.saved = Top.saved
        /\ f.event = Top.event /\ f.stage = "loop"
    BY <1>2, <2>3 DEF Advanced, Runs
  <2> HIDE DEF f
  <2>5. FrameOK(f) /\ Chain(ledger', f)
    BY <1>1, <1>2, <2>1, <2>4, StageOK
  <2> QED BY <1>1, <1>2, <2>1, <2>4, <2>5, CallGoesOn
<1> QED BY <1>3, <1>4

\* A call of a list fails.
LEMMA ProcessRevertsInv == RegistryInv /\ ProcessReverts => RegistryInv'
<1> SUFFICES ASSUME RegistryInv, ProcessReverts PROVE RegistryInv'
  OBVIOUS
<1> DEFINE f == [Top EXCEPT !.stage = "claim"]
<1>1. /\ stack # <<>> /\ Top.kind = "run" /\ ledger' = Top.saved
      /\ stack' = [stack EXCEPT ![Len(stack)] = f]
  BY DEF ProcessReverts, InStage
<1>2. FrameOK(Top) /\ Top \in Runs
  BY <1>1, TopFrame
<1>3. /\ f \in Runs /\ f.before = Top.before /\ f.saved = Top.saved
      /\ f.event = Top.event /\ f.stage = "claim"
  BY <1>2 DEF Runs
<1> HIDE DEF f
<1>4. Good(ledger') /\ Chain(ledger', Top)
  BY <1>1, <1>2 DEF FrameOK
<1>5. FrameOK(f) /\ Chain(ledger', f)
  BY <1>1, <1>2, <1>3, <1>4, StageOK
<1> QED BY <1>1, <1>3, <1>4, <1>5, CallGoesOn

\* The event ends with its claim, which may fail.
LEMMA FinishInv == RegistryInv /\ Finish => RegistryInv'
<1> SUFFICES ASSUME RegistryInv, Finish PROVE RegistryInv'
  OBVIOUS
<1> DEFINE e == Top.event
           a == e.asset
           u == e.user
           v == e.amount
           d == Top.before.due
           m == ledger.due
           r == [m EXCEPT ![a][u] = @ - v]
<1>1. stack # <<>> /\ Top.kind = "run" /\ stack' = Returned(Below)
  BY DEF Finish, InStage
<1>2. /\ Chain(ledger, Top) /\ Good(ledger) /\ e \in EventSet /\ Top.before \in Ledgers
  BY <1>1, TopFrame
<1>3. \/ CanSend(ledger, a, u, v) /\ ledger' = Claimed(ledger, e)
      \/ ledger' = Unclaimed(ledger, e)
  BY DEF Finish
<1>4. Quiet(Top.before, ledger) /\ m = OpenDue(Top)
  BY <1>1, <1>2, RunChain
<1>5. /\ a \in Assets /\ u \in Users /\ v \in Nat /\ d \in [Assets -> [Users -> Nat]]
      /\ m = [d EXCEPT ![a][u] = @ + v] /\ r = [m EXCEPT ![a][u] = @ - v]
  BY <1>1, <1>2, <1>4, LedgerTypes DEF EventSet, OpenDue
<1>6. m[a][u] >= v /\ r = d
  <2> HIDE DEF a, u, v, d, m, r
  <2> QED BY <1>5, DueBack
<1>7. /\ Good(ledger') /\ Quiet(ledger, ledger')
      /\ ledger'.due = [ledger.due EXCEPT ![e.asset][e.user] = @ - e.amount]
  <2> HIDE DEF e
  <2>1. CASE CanSend(ledger, a, u, v) /\ ledger' = Claimed(ledger, e)
    BY <1>2, <1>6, <2>1, ClaimedGood
  <2>2. CASE ledger' = Unclaimed(ledger, e)
    BY <1>2, <1>6, <2>2, UnclaimedGood
  <2> QED BY <1>3, <2>1, <2>2
<1>8. ledger'.due = Top.before.due
  BY <1>6, <1>7
<1>9. Steady(Top.before, ledger')
  BY <1>4, <1>7, <1>8, QuietTrans DEF Steady
<1> QED BY <1>1, <1>7, <1>9, CallCloses

\* A call or a transaction reverts as a whole.
LEMMA RevertsInv == RegistryInv /\ (OutOfGas \/ WriteReverts) => RegistryInv'
BY CallReverts DEF OutOfGas, WriteReverts, InStage, InWrite

\* A Storage was written.
LEMMA WriteReturnsInv == RegistryInv /\ WriteReturns => RegistryInv'
<1> SUFFICES ASSUME RegistryInv, WriteReturns PROVE RegistryInv'
  OBVIOUS
<1>1. /\ stack # <<>> /\ Top.kind = "write" /\ Top.balance >= Top.amount
      /\ stack' = Returned(Below)
      /\ ledger' = [ledger EXCEPT !.custody[Top.asset] = Top.balance - Top.amount,
                                  !.outbound = @ + 1,
                                  !.sent[Top.asset] = @ + Top.amount,
                                  !.logged = @ \cup {Top.nonce},
                                  !.building[Top.asset] = @ - Top.amount,
                                  !.open = Top.before.open]
  BY DEF WriteReturns, InWrite
<1>2. FrameOK(Top) /\ Chain(ledger, Top) /\ Good(ledger) /\ Top \in Writes
  BY <1>1, TopFrame
<1>3. Good(ledger') /\ Steady(Top.before, ledger')
  BY <1>1, <1>2, WrittenGood
<1> QED BY <1>1, <1>3, CallCloses

\* A transfer, also with an allowance.
LEMMA TransferInv ==
  ASSUME RegistryInv, NEW h \in Holders, NEW a \in Assets, NEW to \in Holders,
         NEW v \in Nat, Transfer(h, a, to, v) \/ \E u \in Users : TransferFrom(h, a, u, to, v)
  PROVE  RegistryInv'
<1>1. Good(ledger) /\ Users \subseteq Holders
  BY DEF RegistryInv, Holders
<1>2. CASE Transfer(h, a, to, v)
  <2>1. /\ CanTransfer(ledger, a, h, to, v) /\ stack' = Returned(stack)
        /\ ledger' = Transferred(ledger, a, h, to, v)
    BY <1>2 DEF Transfer
  <2>2. Good(ledger') /\ Steady(ledger, ledger')
    BY <1>1, <2>1, TransferGood
  <2> QED BY <2>1, <2>2, CallReturns
<1>3. CASE \E u \in Users : TransferFrom(h, a, u, to, v)
  <2>1. PICK u \in Users : TransferFrom(h, a, u, to, v)
    BY <1>3
  <2> DEFINE n == Spent(ledger, a, u, h, v)
  <2>2. /\ ledger.allowed[a][u][h] >= v /\ CanTransfer(ledger, a, u, to, v)
        /\ ledger' = Transferred(n, a, u, to, v) /\ stack' = Returned(stack)
    BY <2>1 DEF TransferFrom
  <2>3. /\ Good(n) /\ Steady(ledger, n)
        /\ n.token = ledger.token /\ n.users = ledger.users
        /\ n.supply = ledger.supply /\ n.custody = ledger.custody
    BY <1>1, <2>2, SpentGood
  <2> HIDE DEF n
  <2>4. CanTransfer(n, a, u, to, v) /\ u \in Holders
    BY <1>1, <2>2, <2>3 DEF CanTransfer
  <2>5. Good(ledger') /\ Steady(n, ledger')
    BY <2>2, <2>3, <2>4, TransferGood
  <2>6. Steady(ledger, ledger')
    BY <2>3, <2>5, QuietTrans DEF Steady
  <2> QED BY <2>2, <2>5, <2>6, CallReturns
<1> QED BY <1>2, <1>3

\* A transfer with an extra that names a Storage.
LEMMA TransferWithExtraInv ==
  ASSUME RegistryInv, NEW h \in Holders, NEW a \in Assets, NEW to \in Holders,
         NEW v \in Nat, TransferWithExtra(h, a, to, v)
  PROVE  RegistryInv'
<1> DEFINE f == [kind |-> "write", asset |-> a, amount |-> v,
                 balance |-> ledger.custody[a],
                 nonce |-> ledger.outbound, before |-> ledger]
           k == ledger'
<1>1. /\ Good(ledger) /\ Stacked(stack) /\ Sits(ledger, stack, Len(stack))
      /\ ledger \in Ledgers
  BY DEF RegistryInv, Good, Sound
<1>2. /\ to \in ledger.users /\ ledger.token[a][h] >= v /\ ledger.supply[a] >= v
      /\ Len(stack) < MaxDepth /\ stack' = Append(stack, f)
      /\ ledger' = BurnAndBuild(Moved(ledger, a, h, to, v), a, to, v)
  BY DEF TransferWithExtra
<1>3. /\ ledger.users \in SUBSET Users /\ ledger.custody \in Amounts
      /\ ledger.outbound \in Nat /\ ledger.building \in Amounts
  BY <1>1, LedgerTypes
<1>4. to \in Users
  BY <1>2, <1>3
<1>5. /\ Good(k) /\ k.due = ledger.due
      /\ k.building = [ledger.building EXCEPT ![a] = @ + v]
      /\ k.custody = ledger.custody /\ k.outbound = ledger.outbound
      /\ ledger.nested \subseteq k.nested /\ (a \in ledger.open => a \in k.nested)
      /\ k.open = ledger.open \cup {a}
      /\ (ledger.crossed => k.crossed) /\ (Building(ledger) => k.crossed)
  BY <1>1, <1>2, <1>4, BuildGood
<1>6. f \in Writes
  BY <1>1, <1>3 DEF Writes, Amounts
<1>7. /\ f.kind = "write" /\ f.asset = a /\ f.amount = v /\ f.before = ledger
      /\ f.balance = ledger.custody[a] /\ f.nonce = ledger.outbound
  OBVIOUS
<1> HIDE DEF f
<1>8. FrameOK(f)
  BY <1>1, <1>6, <1>7 DEF FrameOK, Frames
<1>9. k.building = OpenBuilding(f) /\ k.open = OpenAssets(f) /\ k.due = OpenDue(f)
  BY <1>5, <1>7 DEF OpenBuilding, OpenAssets, OpenDue
<1>10. Chain(k, f)
  BY <1>5, <1>7, <1>9 DEF Chain
<1>11. Stacked(Append(stack, f)) /\ Sits(k, Append(stack, f), Len(Append(stack, f)))
  <2> HIDE DEF k
  <2> QED BY <1>1, <1>2, <1>7, <1>8, <1>10, PushStack
<1> QED BY <1>2, <1>5, <1>11 DEF RegistryInv

\* Any call of an Asset.
LEMMA TokenCallInv == RegistryInv /\ TokenCall => RegistryInv'
<1> SUFFICES ASSUME RegistryInv, TokenCall PROVE RegistryInv'
  OBVIOUS
<1>1. PICK h \in Holders, a \in Assets, to \in Holders, v \in CallAmounts :
        \/ Transfer(h, a, to, v)
        \/ TransferWithExtra(h, a, to, v)
        \/ \E u \in Users : TransferFrom(h, a, u, to, v)
  BY DEF TokenCall
<1>2. v \in Nat
  BY RegistryAssumption DEF CallAmounts
<1> QED BY <1>1, <1>2, TransferInv, TransferWithExtraInv

\* A user that its list makes call the contracts.
LEMMA UserCallInv == RegistryInv /\ UserCall => RegistryInv'
<1> SUFFICES ASSUME RegistryInv, UserCall PROVE RegistryInv'
  OBVIOUS
<1>0. Good(ledger) /\ Users \subseteq Holders /\ Processes \subseteq Holders
  BY DEF RegistryInv, Holders
<1>1. PICK u \in Users, a \in Assets, v \in 0 .. MaxAmount :
        \/ \E h \in Holders : Approve(u, a, h, v)
        \/ Claim(u, a, v)
        \/ \E p \in Processes, to \in Holders : TransferFromProcess(u, a, p, to, v)
  <2>1. CallAmounts \subseteq 0 .. MaxAmount
    BY RegistryAssumption DEF CallAmounts
  <2> QED BY <2>1 DEF UserCall
<1>2. v \in Nat
  BY RegistryAssumption
<1>3. CASE \E h \in Holders : Approve(u, a, h, v)
  <2>1. PICK h \in Holders : Approve(u, a, h, v)
    BY <1>3
  <2>2. ledger' = Approved(ledger, a, u, h, v) /\ stack' = Returned(stack)
    BY <2>1 DEF Approve
  <2>3. Good(ledger') /\ Steady(ledger, ledger')
    BY <1>0, <1>2, <2>2, ApprovedGood
  <2> QED BY <2>2, <2>3, CallReturns
<1>4. CASE Claim(u, a, v)
  <2>1. /\ CanSend(ledger, a, u, v) /\ stack' = Returned(stack)
        /\ ledger' = [BurnAndSend(ledger, a, u, v) EXCEPT
                        !.loose[a] = IF v > 0 THEN @ \cup {u} ELSE @]
    BY <1>4 DEF Claim
  <2>2. Good(ledger') /\ Steady(ledger, ledger')
    BY <1>0, <1>2, <2>1, OwnClaimGood
  <2> QED BY <2>1, <2>2, CallReturns
<1>5. CASE \E p \in Processes, to \in Holders : TransferFromProcess(u, a, p, to, v)
  <2>1. PICK p \in Processes, to \in Holders : TransferFromProcess(u, a, p, to, v)
    BY <1>5
  <2>2. /\ CanTransfer(ledger, a, p, to, v) /\ stack' = Returned(stack)
        /\ ledger' = Transferred(ledger, a, p, to, v)
    BY <2>1 DEF TransferFromProcess
  <2>3. Good(ledger') /\ Steady(ledger, ledger')
    BY <1>0, <1>2, <2>2, TransferGood
  <2> QED BY <2>2, <2>3, CallReturns
<1> QED BY <1>1, <1>3, <1>4, <1>5

\* The Registry is halted, or goes on.
LEMMA HaltInv == RegistryInv /\ Halt => RegistryInv'
<1> SUFFICES ASSUME RegistryInv, Halt PROVE RegistryInv'
  OBVIOUS
<1>1. /\ Good(ledger) /\ ledger.halts < MaxHalts /\ stack' = Returned(stack)
      /\ ledger' = [ledger EXCEPT !.halts = @ + 1, !.halted = ~ @]
  BY DEF RegistryInv, Halt
<1>2. Good(ledger') /\ Steady(ledger, ledger')
  BY <1>1, HaltGood
<1> QED BY <1>1, <1>2, CallReturns

\* Every step keeps the invariant.
LEMMA NextInv == RegistryInv /\ [Next]_vars => RegistryInv'
<1> SUFFICES ASSUME RegistryInv, [Next]_vars PROVE RegistryInv'
  OBVIOUS
<1>1. CASE UNCHANGED vars
  BY <1>1 DEF vars, RegistryInv
<1>2. CASE ExternalEnds
  BY <1>2, ProcessReturnsInv, ProcessRevertsInv, WriteReturnsInv, RevertsInv DEF ExternalEnds
<1> QED BY <1>1, <1>2, MixinInv, HandleInv, FinishInv, RevertsInv, TokenCallInv,
           UserCallInv, HaltInv DEF Next

\* The invariant always holds.
LEMMA InvHolds == Spec => []RegistryInv
BY InitInv, NextInv, PTL DEF Spec

-----------------------------------------------------------------------------
\* No balance, allowance or counter of the contracts ever goes below zero, and
\* every open call remembers ledgers it can go back to.
THEOREM TypeCorrect == Spec => []TypeOK
<1>1. RegistryInv => TypeOK
  BY DEF RegistryInv, Good, Sound, Stacked, Frames, TypeOK
<1> QED BY <1>1, InvHolds, PTL

\* What the Registry holds is what the Assets have issued and what is about to be
\* sent, at any depth of calls and after any revert, unless an asset came or went
\* while a Storage was being written for it.
THEOREM SupplyInCustodyHolds == Spec => []SupplyInCustody
<1>1. RegistryInv => SupplyInCustody
  BY DEF RegistryInv, Good, Sound, Backed, SupplyInCustody
<1> QED BY <1>1, InvHolds, PTL

\* Everything that came with the events taken has one holder, is about to be sent
\* or was sent, whatever the processes, the lists and the Storages call.
THEOREM NothingLostHolds == Spec => []NothingLost
<1>1. RegistryInv => NothingLost
  BY DEF RegistryInv, Good, Sound, Adds, Kept, NothingLost
<1> QED BY <1>1, InvHolds, PTL

\* Every MixinTransaction has a nonce of its own and none is left out, unless one
\* was built while a Storage was being written for another.
THEOREM NoncesOnceHolds == Spec => []NoncesOnce
<1>1. RegistryInv => NoncesOnce
  BY DEF RegistryInv, Good, Sound, Numbered, NoncesOnce
<1> QED BY <1>1, InvHolds, PTL

\* A spender takes no more of the tokens of a user than was approved for it.
THEOREM TakenWithinGivenHolds == Spec => []TakenWithinGiven
<1>1. RegistryInv => TakenWithinGiven
  BY DEF RegistryInv, Good, Sound, Within, TakenWithinGiven
<1> QED BY <1>1, InvHolds, PTL

\* Between transactions a User has no tokens, with the exceptions the property
\* names.
THEOREM UserKeepsNothingHolds == Spec => []UserKeepsNothing
<1>1. RegistryInv => UserKeepsNothing
  <2> SUFFICES ASSUME RegistryInv, stack = <<>>, NEW a \in Assets, NEW u \in Users
               PROVE  ledger.token[a][u] = 0 \/ u \in ledger.loose[a] \/ a \in ledger.nested
    BY DEF UserKeepsNothing
  <2>1. ledger.due[a][u] = 0
    BY DEF RegistryInv, Sits, AtRest
  <2> QED BY <2>1 DEF RegistryInv, Good, Passage
<1> QED BY <1>1, InvHolds, PTL

=============================================================================
