------------------------- MODULE GroupSignerProofs -------------------------
(* Proofs that GroupSigner keeps its safety properties for any group, any   *)
(* number of outputs and any order in which the members are given them.     *)
EXTENDS GroupSigner, FiniteSetTheorems, TLAPS

\* e is the output that member n consumed at that nonce.
Consumed(n, e) == e.nonce < nonce[n] /\ e.content = Order[n][e.nonce]

\* A correct member queues and signs only outputs it has consumed.
OwnOutputs ==
  \A n \in Honest, e \in Event :
    e \in pending[n] \/ e \in broadcasts[n] => Consumed(n, e)

\* The partial the signing loop is about to store has been broadcast.
SigningBroadcast ==
  \A n \in Honest : signing[n] # NoEvent => signing[n] \in broadcasts[n]

\* Every stored partial was released by its signer.
PartialsReleased ==
  \A n \in Honest, k \in Nonces, s \in Nodes, c \in Contents :
    <<s, c>> \in partials[n][k] => [nonce |-> k, content |-> c] \in broadcasts[s]

\* Every full signature was recovered from released partials.
FullRecoverable ==
  \A n \in Honest, k \in Nonces :
    CheckSigned(n, k) => Recoverable([nonce |-> k, content |-> full[n][k]])

\* The signed queue, the batch being sent and the engine's store hold the
\* event of the full signature.
QueuesMatch ==
  \A n \in Honest :
    /\ \A e \in signed[n] : full[n][e.nonce] = e.content
    /\ \A e \in sending[n] : engine[n][e.nonce] = full[n][e.nonce] /\ CheckSigned(n, e.nonce)
    /\ \A k \in Nonces : engine[n][k] # NoContent => engine[n][k] = full[n][k]

SignerInv ==
  /\ OwnOutputs
  /\ SigningBroadcast
  /\ PartialsReleased
  /\ FullRecoverable

-----------------------------------------------------------------------------
\* The events are the pairs of a nonce and a content.
LEMMA EventType ==
  /\ \A k \in Nonces, c \in Contents : [nonce |-> k, content |-> c] \in Event
  /\ \A e \in Event : /\ e.nonce \in Nonces
                      /\ e.content \in Contents
                      /\ e = [nonce |-> e.nonce, content |-> e.content]
BY DEF Event

\* The store update of a full signature keeps the types of its tables.
LEMMA WriteSignedType ==
  ASSUME TypeOK, NEW n \in Honest, NEW e \in Event,
         WriteSignedGroupEventAndExpirePending(n, e)
  PROVE  /\ pending' \in [Honest -> SUBSET Event]
         /\ partials' \in [Honest -> [Nonces -> SUBSET (Nodes \X Contents)]]
         /\ full' \in [Honest -> [Nonces -> Contents \cup {NoContent}]]
         /\ signed' \in [Honest -> SUBSET Event]
<1>1. CASE CheckSigned(n, e.nonce)
  BY <1>1 DEF TypeOK, WriteSignedGroupEventAndExpirePending
<1>2. CASE ~ CheckSigned(n, e.nonce)
  <2>1. e.nonce \in Nonces /\ e.content \in Contents
    BY EventType
  <2>2. /\ pending' = [pending EXCEPT ![n] = {d \in @ : ~ SameTimedKey(d, e)}]
        /\ partials' = [partials EXCEPT ![n][e.nonce] = {}]
        /\ full' = [full EXCEPT ![n][e.nonce] = e.content]
        /\ signed' = [signed EXCEPT ![n] = @ \cup {e}]
    BY <1>2, Zenon DEF WriteSignedGroupEventAndExpirePending
  <2>3. pending' \in [Honest -> SUBSET Event]
    BY <2>2 DEF TypeOK
  <2>4. partials' \in [Honest -> [Nonces -> SUBSET (Nodes \X Contents)]]
    BY <2>1, <2>2 DEF TypeOK
  <2>5. full' \in [Honest -> [Nonces -> Contents \cup {NoContent}]]
    BY <2>1, <2>2 DEF TypeOK
  <2>6. signed' \in [Honest -> SUBSET Event]
    BY <2>2 DEF TypeOK
  <2> QED BY <2>3, <2>4, <2>5, <2>6
<1> QED BY <1>1, <1>2

\* The same of storing one more partial.
LEMMA AppendType ==
  ASSUME TypeOK, NEW n \in Honest, NEW e \in Event, NEW s \in Nodes,
         AppendPendingGroupEventSignature(n, e, s)
  PROVE  /\ pending' \in [Honest -> SUBSET Event]
         /\ partials' \in [Honest -> [Nonces -> SUBSET (Nodes \X Contents)]]
         /\ full' \in [Honest -> [Nonces -> Contents \cup {NoContent}]]
         /\ signed' \in [Honest -> SUBSET Event]
<1>1. CASE UNCHANGED <<pending, partials, full, signed>>
  BY <1>1 DEF TypeOK
<1>2. CASE /\ partials' = [partials EXCEPT ![n][e.nonce] =
                             (ValidPartials(n, e) \cup {s}) \X {e.content}]
           /\ UNCHANGED <<pending, full, signed>>
  <2>1. (ValidPartials(n, e) \cup {s}) \X {e.content} \in SUBSET (Nodes \X Contents)
    BY EventType DEF ValidPartials
  <2> QED BY <1>2, <2>1, EventType DEF TypeOK
<1>3. CASE WriteSignedGroupEventAndExpirePending(n, e)
  BY <1>3, WriteSignedType
<1> QED BY <1>1, <1>2, <1>3 DEF AppendPendingGroupEventSignature

\* The type invariant holds in every reachable state.
THEOREM TypeCorrect == Spec => []TypeOK
<1>1. Init => TypeOK
  BY NumberAssumption DEF Init, TypeOK, Honest, Nonces, Event
<1>2. TypeOK /\ [Next]_vars => TypeOK'
  <2> SUFFICES ASSUME TypeOK, [Next]_vars PROVE TypeOK'
    OBVIOUS
  <2> USE EventType
  <2>0. CASE UNCHANGED vars
    BY <2>0 DEF TypeOK, vars, durable, volatile, network
  <2> SUFFICES ASSUME NEW n \in Honest, 
        \/ AddProcess(n)
        \/ WriteGroupEvent(n)
        \/ \E e \in Event : SignGroupEvent(n, e)
        \/ AppendOwnPartial(n)
        \/ \E s \in Nodes, e \in Event : ReceivePartial(n, s, e)
        \/ \E s \in Nodes, e \in Event : ReplyFullSignature(n, s, e)
        \/ \E r \in Reply : ReceiveFullSignature(n, r)
        \/ ReplyPeriodElapses(n)
        \/ SendEvents(n)
        \/ ExpireGroupEvents(n)
        \/ Restart(n)
      PROVE TypeOK'
    BY <2>0 DEF Next, Works
  <2>1. CASE AddProcess(n)
    BY <2>1 DEF AddProcess, TypeOK, volatile, network
  <2>2. CASE WriteGroupEvent(n)
    <3>1. nonce[n] \in Nonces /\ Order[n][nonce[n]] \in Contents
      <4>1. nonce[n] \in 0 .. OutputCount /\ nonce[n] < OutputCount
        BY <2>2 DEF WriteGroupEvent, TypeOK
      <4>2. nonce[n] \in Nonces
        BY <4>1, NumberAssumption DEF Nonces
      <4> QED BY <4>2, OrderAssumption
    <3>2. nonce' \in [Honest -> 0 .. OutputCount]
      BY <2>2, NumberAssumption DEF WriteGroupEvent, TypeOK
    <3>3. pending' \in [Honest -> SUBSET Event]
      BY <2>2, <3>1 DEF WriteGroupEvent, QueuePending, TypeOK
    <3> QED BY <2>2, <3>2, <3>3 DEF WriteGroupEvent, TypeOK, volatile, network
  <2>3. CASE \E e \in Event : SignGroupEvent(n, e)
    BY <2>3 DEF SignGroupEvent, TypeOK, durable, Honest
  <2>4. CASE AppendOwnPartial(n)
    <3>1. signing[n] \in Event /\ n \in Nodes
      BY <2>4 DEF AppendOwnPartial, TypeOK, Honest
    <3>2. AppendPendingGroupEventSignature(n, signing[n], n)
      BY <2>4 DEF AppendOwnPartial
    <3>3. signing' \in [Honest -> Event \cup {NoEvent}]
      BY <2>4 DEF AppendOwnPartial, TypeOK
    <3> QED BY <2>4, <3>1, <3>2, <3>3, AppendType DEF AppendOwnPartial, TypeOK, network
  <2>5. CASE \E s \in Nodes, e \in Event : ReceivePartial(n, s, e)
    <3>1. PICK s \in Nodes, e \in Event : ReceivePartial(n, s, e)
      BY <2>5
    <3>2. AppendPendingGroupEventSignature(n, e, s)
      BY <3>1 DEF ReceivePartial
    <3> QED BY <3>1, <3>2, AppendType DEF ReceivePartial, TypeOK, volatile, network
  <2>6. CASE \E s \in Nodes, e \in Event : ReplyFullSignature(n, s, e)
    <3>1. PICK s \in Nodes, e \in Event : ReplyFullSignature(n, s, e)
      BY <2>6
    <3>2. [event |-> e, over |-> full[n][e.nonce]] \in Reply
      BY <3>1 DEF ReplyFullSignature, CheckSigned, TypeOK, Reply
    <3>3. replies' \in [Honest -> SUBSET Reply]
      BY <3>1, <3>2 DEF ReplyFullSignature, TypeOK
    <3>4. replied' \in [Honest -> SUBSET Nonces]
      BY <3>1 DEF ReplyFullSignature, TypeOK
    <3> QED BY <3>1, <3>3, <3>4 DEF ReplyFullSignature, TypeOK, durable
  <2>7. CASE \E r \in Reply : ReceiveFullSignature(n, r)
    <3>1. PICK r \in Reply : ReceiveFullSignature(n, r)
      BY <2>7
    <3>2. r.event \in Event /\ WriteSignedGroupEventAndExpirePending(n, r.event)
      BY <3>1 DEF ReceiveFullSignature, Reply
    <3> QED BY <3>1, <3>2, WriteSignedType
            DEF ReceiveFullSignature, TypeOK, volatile, network
  <2>8. CASE ReplyPeriodElapses(n)
    BY <2>8 DEF ReplyPeriodElapses, TypeOK, durable, network
  <2>9. CASE SendEvents(n)
    <3>1. ListSigned(n) \in SUBSET Event
      BY DEF ListSigned, TypeOK
    <3>2. \A k \in Nonces : (\E e \in ListSigned(n) : e.nonce = k) =>
            (CHOOSE e \in ListSigned(n) : e.nonce = k).content \in Contents
      BY <3>1
    <3>3. engine' \in [Honest -> [Nonces -> Contents \cup {NoContent}]]
      BY <2>9, <3>2 DEF SendEvents, TypeOK
    <3>4. sending' \in [Honest -> SUBSET Event]
      BY <2>9, <3>1 DEF SendEvents, TypeOK
    <3> QED BY <2>9, <3>3, <3>4 DEF SendEvents, TypeOK, network
  <2>10. CASE ExpireGroupEvents(n)
    BY <2>10 DEF ExpireGroupEvents, TypeOK, network
  <2>11. CASE Restart(n)
    BY <2>11 DEF Restart, TypeOK, durable, network
  <2> QED BY <2>1, <2>2, <2>3, <2>4, <2>5, <2>6, <2>7, <2>8, <2>9, <2>10, <2>11
<1> QED BY <1>1, <1>2, PTL DEF Spec
-----------------------------------------------------------------------------
\* A signature that can be recovered stays recoverable as partials are released.
LEMMA RecoverableGrows ==
  ASSUME NEW e, \A s \in Nodes : broadcasts[s] \subseteq broadcasts'[s], Recoverable(e)
  PROVE  Recoverable(e)'
BY DEF Recoverable, Quorums

\* Storing a full signature that can be recovered keeps the tables sound, and
\* adds nothing to the pending queue.
LEMMA WriteSignedSound ==
  ASSUME TypeOK, PartialsReleased, FullRecoverable, UNCHANGED broadcasts,
         NEW n \in Honest, NEW e \in Event, Recoverable(e),
         WriteSignedGroupEventAndExpirePending(n, e)
  PROVE  /\ PartialsReleased'
         /\ FullRecoverable'
         /\ \A m \in Honest : pending'[m] \subseteq pending[m]
<1>1. CASE CheckSigned(n, e.nonce)
  BY <1>1 DEF WriteSignedGroupEventAndExpirePending, PartialsReleased, FullRecoverable,
              CheckSigned, Recoverable
<1>2. CASE ~ CheckSigned(n, e.nonce)
  <2>1. /\ pending' = [pending EXCEPT ![n] = {d \in @ : ~ SameTimedKey(d, e)}]
        /\ partials' = [partials EXCEPT ![n][e.nonce] = {}]
        /\ full' = [full EXCEPT ![n][e.nonce] = e.content]
    BY <1>2, Zenon DEF WriteSignedGroupEventAndExpirePending
  <2>2. PartialsReleased'
    <3> SUFFICES ASSUME NEW m \in Honest, NEW k \in Nonces, NEW s \in Nodes,
                        NEW c \in Contents, <<s, c>> \in partials'[m][k]
                 PROVE  [nonce |-> k, content |-> c] \in broadcasts[s]
      BY DEF PartialsReleased
    <3>1. <<s, c>> \in partials[m][k]
      BY <2>1 DEF TypeOK
    <3> QED BY <3>1 DEF PartialsReleased
  <2>3. FullRecoverable'
    <3> SUFFICES ASSUME NEW m \in Honest, NEW k \in Nonces, full'[m][k] # NoContent
                 PROVE  Recoverable([nonce |-> k, content |-> full'[m][k]])
      BY DEF FullRecoverable, CheckSigned, Recoverable
    <3>1. CASE m = n /\ k = e.nonce
      <4>1. full'[m][k] = e.content
        BY <2>1, <3>1, EventType DEF TypeOK
      <4>2. e = [nonce |-> k, content |-> full'[m][k]]
        BY <3>1, <4>1, EventType
      <4> QED BY <4>2
    <3>2. CASE ~ (m = n /\ k = e.nonce)
      <4>1. full'[m][k] = full[m][k]
        BY <2>1, <3>2 DEF TypeOK
      <4> QED BY <4>1 DEF FullRecoverable, CheckSigned
    <3> QED BY <3>1, <3>2
  <2>4. \A m \in Honest : pending'[m] \subseteq pending[m]
    BY <2>1 DEF TypeOK
  <2> QED BY <2>2, <2>3, <2>4
<1> QED BY <1>1, <1>2

\* The partials that are counted for an event were released by their signers.
LEMMA ValidReleased ==
  ASSUME PartialsReleased, NEW n \in Honest, NEW s \in Nodes, NEW e \in Event,
         e \in broadcasts[s]
  PROVE  /\ ValidPartials(n, e) \cup {s} \subseteq Nodes
         /\ \A x \in ValidPartials(n, e) \cup {s} : e \in broadcasts[x]
<1>1. SUFFICES ASSUME NEW x \in ValidPartials(n, e) PROVE x \in Nodes /\ e \in broadcasts[x]
  OBVIOUS
<1>2. x \in Nodes /\ <<x, e.content>> \in partials[n][e.nonce]
  BY DEF ValidPartials
<1> QED BY <1>2, EventType DEF PartialsReleased

\* Threshold of them are enough to recover the signature.
LEMMA EnoughRecoverable ==
  ASSUME PartialsReleased, NEW n \in Honest, NEW s \in Nodes, NEW e \in Event,
         e \in broadcasts[s], ~ (Cardinality(ValidPartials(n, e) \cup {s}) < Threshold)
  PROVE  Recoverable(e)
<1> DEFINE appended == ValidPartials(n, e) \cup {s}
<1>1. appended \subseteq Nodes /\ \A x \in appended : e \in broadcasts[x]
  BY ValidReleased
<1>2. Cardinality(appended) \in Nat
  BY <1>1, NodesAssumption, FS_Subset, FS_CardinalityType
<1>3. appended \in Quorums
  BY <1>1, <1>2, NumberAssumption DEF Quorums
<1> QED BY <1>1, <1>3 DEF Recoverable

\* Storing a partial that its signer has released does too.
LEMMA AppendSound ==
  ASSUME TypeOK, PartialsReleased, FullRecoverable, UNCHANGED broadcasts,
         NEW n \in Honest, NEW s \in Nodes, NEW e \in Event, e \in broadcasts[s],
         AppendPendingGroupEventSignature(n, e, s)
  PROVE  /\ PartialsReleased'
         /\ FullRecoverable'
         /\ \A m \in Honest : pending'[m] \subseteq pending[m]
<1> DEFINE appended == ValidPartials(n, e) \cup {s}
<1>1. appended \subseteq Nodes /\ \A x \in appended : e \in broadcasts[x]
  BY ValidReleased
<1>2. CASE UNCHANGED <<pending, partials, full, signed>>
  BY <1>2 DEF PartialsReleased, FullRecoverable, CheckSigned, Recoverable
<1>3. CASE /\ partials' = [partials EXCEPT ![n][e.nonce] = appended \X {e.content}]
           /\ UNCHANGED <<pending, full, signed>>
  <2>1. PartialsReleased'
    <3> SUFFICES ASSUME NEW m \in Honest, NEW k \in Nonces, NEW x \in Nodes,
                        NEW c \in Contents, <<x, c>> \in partials'[m][k]
                 PROVE  [nonce |-> k, content |-> c] \in broadcasts[x]
      BY DEF PartialsReleased
    <3>1. CASE m = n /\ k = e.nonce
      <4>1. partials'[m][k] = appended \X {e.content}
        BY <1>3, <3>1, EventType DEF TypeOK
      <4>2. x \in appended /\ c = e.content
        BY <4>1
      <4> QED BY <1>1, <3>1, <4>2, EventType
    <3>2. CASE ~ (m = n /\ k = e.nonce)
      <4>1. partials'[m][k] = partials[m][k]
        BY <1>3, <3>2 DEF TypeOK
      <4> QED BY <4>1 DEF PartialsReleased
    <3> QED BY <3>1, <3>2
  <2>2. FullRecoverable'
    BY <1>3 DEF FullRecoverable, CheckSigned, Recoverable
  <2> QED BY <1>3, <2>1, <2>2
<1>4. CASE /\ ~ (Cardinality(appended) < Threshold)
           /\ WriteSignedGroupEventAndExpirePending(n, e)
  BY <1>4, EnoughRecoverable, WriteSignedSound
<1> QED BY <1>2, <1>3, <1>4 DEF AppendPendingGroupEventSignature

\* The inductive invariant behind agreement: correct members sign only what
\* they consumed, and signatures come only from released partials.
LEMMA SignerInvariant == Spec => []SignerInv
<1>1. Init => SignerInv
  <2> SUFFICES ASSUME Init PROVE SignerInv
    OBVIOUS
  <2>1. \A n \in Honest : broadcasts[n] = {}
    BY DEF Init, Honest
  <2> QED BY <2>1 DEF Init, SignerInv, OwnOutputs, SigningBroadcast, PartialsReleased,
                      FullRecoverable, CheckSigned
<1>2. TypeOK /\ SignerInv /\ [Next]_vars => SignerInv'
  <2> SUFFICES ASSUME TypeOK, SignerInv, [Next]_vars PROVE SignerInv'
    OBVIOUS
  <2> USE DEF SignerInv
  <2>0. CASE UNCHANGED vars
    BY <2>0 DEF vars, durable, volatile, network, OwnOutputs, Consumed, SigningBroadcast,
                PartialsReleased, FullRecoverable, CheckSigned, Recoverable
  \* steps that leave signatures, broadcasts and the pending queue alone
  <2>a. ASSUME UNCHANGED <<nonce, pending, partials, full, signing, broadcasts>>
        PROVE  SignerInv'
    BY <2>a DEF OwnOutputs, Consumed, SigningBroadcast, PartialsReleased,
                FullRecoverable, CheckSigned, Recoverable
  \* steps that store a signature
  <2>b. ASSUME UNCHANGED <<nonce, broadcasts>>, PartialsReleased', FullRecoverable',
               \A m \in Honest : pending'[m] \subseteq pending[m],
               \A m \in Honest : signing'[m] \in {signing[m], NoEvent}
        PROVE  SignerInv'
    BY <2>b DEF OwnOutputs, Consumed, SigningBroadcast
  <2> SUFFICES ASSUME NEW n \in Honest, 
        \/ AddProcess(n)
        \/ WriteGroupEvent(n)
        \/ \E e \in Event : SignGroupEvent(n, e)
        \/ AppendOwnPartial(n)
        \/ \E s \in Nodes, e \in Event : ReceivePartial(n, s, e)
        \/ \E s \in Nodes, e \in Event : ReplyFullSignature(n, s, e)
        \/ \E r \in Reply : ReceiveFullSignature(n, r)
        \/ ReplyPeriodElapses(n)
        \/ SendEvents(n)
        \/ ExpireGroupEvents(n)
        \/ Restart(n)
      PROVE SignerInv'
    BY <2>0 DEF Next, Works
  <2>1. CASE AddProcess(n)
    BY <2>1, <2>a DEF AddProcess, volatile, network
  <2>2. CASE WriteGroupEvent(n)
    <3> DEFINE new == [nonce |-> nonce[n], content |-> Order[n][nonce[n]]]
    <3>1. /\ nonce' = [nonce EXCEPT ![n] = @ + 1]
          /\ pending' \in {pending, [pending EXCEPT ![n] = @ \cup {new}]}
          /\ UNCHANGED <<partials, full, signing, broadcasts>>
      BY <2>2 DEF WriteGroupEvent, QueuePending, volatile, network
    <3>2. OwnOutputs'
      <4> SUFFICES ASSUME NEW m \in Honest, NEW e \in Event,
                          e \in pending'[m] \/ e \in broadcasts[m]
                   PROVE  e.nonce < nonce'[m] /\ e.content = Order[m][e.nonce]
        BY <3>1 DEF OwnOutputs, Consumed
      <4>1. nonce[m] \in Nat /\ nonce'[m] \in {nonce[m], nonce[m] + 1} /\ e.nonce \in Nat
        BY <3>1, EventType, NumberAssumption DEF TypeOK, Nonces
      <4>2. CASE e \in pending[m] \/ e \in broadcasts[m]
        BY <4>1, <4>2 DEF OwnOutputs, Consumed
      <4>3. CASE m = n /\ e = new
        BY <3>1, <4>1, <4>3 DEF TypeOK
      <4> QED BY <3>1, <4>2, <4>3 DEF TypeOK
    <3> QED BY <3>1, <3>2 DEF SigningBroadcast, PartialsReleased, FullRecoverable,
                              CheckSigned, Recoverable
  <2>3. CASE \E e \in Event : SignGroupEvent(n, e)
    <3>1. PICK e \in Event : SignGroupEvent(n, e)
      BY <2>3
    <3>2. /\ e \in pending[n]
          /\ broadcasts' = [broadcasts EXCEPT ![n] = @ \cup {e}]
          /\ signing' = [signing EXCEPT ![n] = e]
          /\ UNCHANGED <<nonce, pending, partials, full>>
      BY <3>1 DEF SignGroupEvent, ListPending, durable
    <3>3. \A s \in Nodes : broadcasts[s] \subseteq broadcasts'[s]
      BY <3>2 DEF TypeOK
    <3>4. OwnOutputs'
      BY <3>2 DEF OwnOutputs, Consumed, TypeOK, Honest
    <3>5. SigningBroadcast'
      BY <3>2, <3>3 DEF SigningBroadcast, TypeOK, Honest
    <3>6. PartialsReleased'
      BY <3>2, <3>3 DEF PartialsReleased
    <3>7. FullRecoverable'
      BY <3>2, <3>3, RecoverableGrows DEF FullRecoverable, CheckSigned
    <3> QED BY <3>4, <3>5, <3>6, <3>7
  <2>4. CASE AppendOwnPartial(n)
    <3>1. /\ n \in Nodes
          /\ signing[n] \in Event
          /\ signing[n] \in broadcasts[n]
          /\ UNCHANGED <<nonce, broadcasts>>
          /\ \A m \in Honest : signing'[m] \in {signing[m], NoEvent}
      BY <2>4 DEF AppendOwnPartial, TypeOK, SigningBroadcast, Honest, network
    <3>2. AppendPendingGroupEventSignature(n, signing[n], n)
      BY <2>4 DEF AppendOwnPartial
    <3>3. /\ PartialsReleased' /\ FullRecoverable'
          /\ \A m \in Honest : pending'[m] \subseteq pending[m]
      BY <3>1, <3>2, AppendSound
    <3> QED BY <2>b, <3>1, <3>3
  <2>5. CASE \E s \in Nodes, e \in Event : ReceivePartial(n, s, e)
    <3>1. PICK s \in Nodes, e \in Event : ReceivePartial(n, s, e)
      BY <2>5
    <3>2. /\ e \in broadcasts[s]
          /\ AppendPendingGroupEventSignature(n, e, s)
          /\ UNCHANGED <<nonce, signing, broadcasts>>
      BY <3>1 DEF ReceivePartial, volatile, network
    <3>3. /\ PartialsReleased' /\ FullRecoverable'
          /\ \A m \in Honest : pending'[m] \subseteq pending[m]
      BY <3>2, AppendSound
    <3> QED BY <2>b, <3>2, <3>3
  <2>6. CASE \E s \in Nodes, e \in Event : ReplyFullSignature(n, s, e)
    BY <2>6, <2>a DEF ReplyFullSignature, durable
  <2>7. CASE \E r \in Reply : ReceiveFullSignature(n, r)
    <3>1. PICK r \in Reply : ReceiveFullSignature(n, r)
      BY <2>7
    <3>2. /\ r.event \in Event
          /\ Recoverable(r.event)
          /\ WriteSignedGroupEventAndExpirePending(n, r.event)
          /\ UNCHANGED <<nonce, signing, broadcasts>>
      BY <3>1 DEF ReceiveFullSignature, Verify, Reply, volatile, network
    <3>3. /\ PartialsReleased' /\ FullRecoverable'
          /\ \A m \in Honest : pending'[m] \subseteq pending[m]
      BY <3>2, WriteSignedSound
    <3> QED BY <2>b, <3>2, <3>3
  <2>8. CASE ReplyPeriodElapses(n)
    BY <2>8, <2>a DEF ReplyPeriodElapses, durable, network
  <2>9. CASE SendEvents(n)
    BY <2>9, <2>a DEF SendEvents, network
  <2>10. CASE ExpireGroupEvents(n)
    BY <2>10, <2>a DEF ExpireGroupEvents, network
  <2>11. CASE Restart(n)
    <3>1. /\ UNCHANGED <<nonce, pending, partials, full, broadcasts>>
          /\ \A m \in Honest : signing'[m] \in {signing[m], NoEvent}
      BY <2>11 DEF Restart, durable, network, TypeOK
    <3>2. PartialsReleased' /\ FullRecoverable'
      BY <3>1 DEF PartialsReleased, FullRecoverable, CheckSigned, Recoverable
    <3> QED BY <2>b, <3>1, <3>2
  <2> QED BY <2>1, <2>2, <2>3, <2>4, <2>5, <2>6, <2>7, <2>8, <2>9, <2>10, <2>11
<1> QED BY <1>1, <1>2, TypeCorrect, PTL DEF Spec

\* A correct member of the quorum behind a recoverable event consumed it.
LEMMA RecoverableConsumed ==
  ASSUME OwnOutputs, NEW e \in Event, Recoverable(e)
  PROVE  \E h \in Honest : Consumed(h, e)
<1>1. PICK Q \in Quorums : \A s \in Q : e \in broadcasts[s]
  BY DEF Recoverable
<1>2. PICK h \in Honest : h \in Q
  BY <1>1, QuorumAssumption
<1> QED BY <1>1, <1>2 DEF OwnOutputs

\* No two members ever hold signatures over different events of one nonce.
THEOREM AgreementHolds == Spec => []Agreement
<1>1. TypeOK /\ SignerInv => Agreement
  <2> SUFFICES ASSUME TypeOK, SignerInv, NEW m \in Honest, NEW n \in Honest, NEW k \in Nonces,
                      CheckSigned(m, k), CheckSigned(n, k)
               PROVE  full[m][k] = full[n][k]
    BY DEF Agreement
  <2> DEFINE em == [nonce |-> k, content |-> full[m][k]]
             en == [nonce |-> k, content |-> full[n][k]]
  <2>1. em \in Event /\ en \in Event
    BY EventType DEF CheckSigned, TypeOK
  <2>2. Recoverable(em) /\ Recoverable(en)
    BY DEF SignerInv, FullRecoverable
  <2>3. PICK P \in Quorums : \A s \in P : em \in broadcasts[s]
    BY <2>2 DEF Recoverable
  <2>4. PICK Q \in Quorums : \A s \in Q : en \in broadcasts[s]
    BY <2>2 DEF Recoverable
  <2>5. PICK h \in Honest : h \in P /\ h \in Q
    BY QuorumAssumption
  <2>6. em.content = Order[h][k] /\ en.content = Order[h][k]
    BY <2>1, <2>3, <2>4, <2>5 DEF SignerInv, OwnOutputs, Consumed
  <2> QED BY <2>6
<1> QED BY <1>1, TypeCorrect, SignerInvariant, PTL

\* A fully signed event was consumed by a correct member.
THEOREM AuthenticHolds == Spec => []Authentic
<1>1. TypeOK /\ SignerInv => Authentic
  <2> SUFFICES ASSUME TypeOK, SignerInv, NEW n \in Honest, NEW k \in Nonces, CheckSigned(n, k)
               PROVE  \E h \in Honest : k < nonce[h] /\ Order[h][k] = full[n][k]
    BY DEF Authentic
  <2> DEFINE e == [nonce |-> k, content |-> full[n][k]]
  <2>1. e \in Event /\ Recoverable(e)
    BY EventType DEF CheckSigned, TypeOK, SignerInv, FullRecoverable
  <2>2. PICK h \in Honest : Consumed(h, e)
    BY <2>1, RecoverableConsumed DEF SignerInv
  <2> QED BY <2>2 DEF Consumed
<1> QED BY <1>1, TypeCorrect, SignerInvariant, PTL

-----------------------------------------------------------------------------
\* What the queues of a member hold, and where its signed events are.
QueueInv == QueuesMatch /\ SignedReachesEngine

\* Storing a full signature keeps the queues in step with it, and queues no
\* event the engine has already.
LEMMA WriteSignedQueues ==
  ASSUME TypeOK, QueueInv, UNCHANGED <<sending, engine>>,
         NEW n \in Honest, NEW e \in Event,
         WriteSignedGroupEventAndExpirePending(n, e) \/ UNCHANGED <<full, signed>>
  PROVE  /\ QueueInv'
         /\ \A m \in Honest, d \in Event :
              engine[m][d.nonce] # NoContent /\ d \notin signed[m] => d \notin signed'[m]
<1> USE DEF QueueInv
<1>1. CASE UNCHANGED <<full, signed>>
  BY <1>1 DEF QueuesMatch, SignedReachesEngine, CheckSigned
<1>2. CASE WriteSignedGroupEventAndExpirePending(n, e) /\ ~ UNCHANGED <<full, signed>>
  <2>1. /\ ~ CheckSigned(n, e.nonce)
        /\ full' = [full EXCEPT ![n][e.nonce] = e.content]
        /\ signed' = [signed EXCEPT ![n] = @ \cup {e}]
    BY <1>2 DEF WriteSignedGroupEventAndExpirePending
  <2>2. full[n][e.nonce] = NoContent /\ e.nonce \in Nonces /\ e.content \in Contents
    BY <2>1, EventType DEF CheckSigned
  <2>3. \A m \in Honest, k \in Nonces :
          full'[m][k] = IF m = n /\ k = e.nonce THEN e.content ELSE full[m][k]
    BY <2>1, <2>2 DEF TypeOK
  <2>4. \A m \in Honest : \A d : d \in signed'[m] <=> d \in signed[m] \/ (m = n /\ d = e)
    BY <2>1 DEF TypeOK
  <2>5. \A m \in Honest : signed[m] \subseteq Event /\ sending[m] \subseteq Event
    BY DEF TypeOK
  <2>6. \A m \in Honest : \A d \in signed[m] : full[m][d.nonce] # NoContent
    BY <2>5, EventType, SentinelAssumption DEF QueuesMatch
  <2>7. \A m \in Honest : \A d \in signed'[m] : full'[m][d.nonce] = d.content
    BY <2>2, <2>3, <2>4, <2>5, <2>6, EventType DEF QueuesMatch
  <2>8. \A m \in Honest : \A d \in sending'[m] :
          engine'[m][d.nonce] = full'[m][d.nonce] /\ CheckSigned(m, d.nonce)'
    BY <2>2, <2>3, <2>5, EventType DEF QueuesMatch, CheckSigned
  <2>9. \A m \in Honest, k \in Nonces :
          engine'[m][k] # NoContent => engine'[m][k] = full'[m][k]
    BY <2>2, <2>3 DEF QueuesMatch
  <2>10. SignedReachesEngine'
    <3> SUFFICES ASSUME NEW m \in Honest, NEW k \in Nonces, CheckSigned(m, k)'
                 PROVE  \/ [nonce |-> k, content |-> full'[m][k]] \in signed'[m]
                        \/ engine'[m][k] = full'[m][k]
      BY DEF SignedReachesEngine
    <3>1. CASE m = n /\ k = e.nonce
      BY <3>1, <2>3, <2>4, EventType
    <3>2. CASE ~ (m = n /\ k = e.nonce)
      BY <3>2, <2>3, <2>4 DEF SignedReachesEngine, CheckSigned
    <3> QED BY <3>1, <3>2
  <2>11. \A m \in Honest, d \in Event :
           engine[m][d.nonce] # NoContent /\ d \notin signed[m] => d \notin signed'[m]
    BY <2>2, <2>4, EventType DEF QueuesMatch
  <2> QED BY <2>7, <2>8, <2>9, <2>10, <2>11 DEF QueuesMatch
<1> QED BY <1>1, <1>2

\* Appending a partial stores a full signature or leaves the queues alone.
LEMMA AppendQueues ==
  ASSUME NEW n, NEW e, NEW s, AppendPendingGroupEventSignature(n, e, s)
  PROVE  WriteSignedGroupEventAndExpirePending(n, e) \/ UNCHANGED <<full, signed>>
BY DEF AppendPendingGroupEventSignature

\* Every step keeps the queues in step with the full signatures.
LEMMA QueueStep ==
  ASSUME TypeOK, QueueInv, [Next]_vars
  PROVE  /\ QueueInv'
         /\ \A m \in Honest, d \in Event :
              engine[m][d.nonce] # NoContent /\ d \notin signed[m] => d \notin signed'[m]
<1> DEFINE Goal == /\ QueueInv'
                   /\ \A m \in Honest, d \in Event :
                        engine[m][d.nonce] # NoContent /\ d \notin signed[m] => d \notin signed'[m]
<1> USE DEF QueueInv
<1>a. ASSUME UNCHANGED <<full, signed, sending, engine>> PROVE Goal
  BY <1>a DEF QueuesMatch, SignedReachesEngine, CheckSigned
<1>0. CASE UNCHANGED vars
  BY <1>0, <1>a DEF vars, durable, volatile
<1> SUFFICES ASSUME NEW n \in Honest,
      \/ AddProcess(n)
      \/ WriteGroupEvent(n)
      \/ \E e \in Event : SignGroupEvent(n, e)
      \/ AppendOwnPartial(n)
      \/ \E s \in Nodes, e \in Event : ReceivePartial(n, s, e)
      \/ \E s \in Nodes, e \in Event : ReplyFullSignature(n, s, e)
      \/ \E r \in Reply : ReceiveFullSignature(n, r)
      \/ ReplyPeriodElapses(n)
      \/ SendEvents(n)
      \/ ExpireGroupEvents(n)
      \/ Restart(n)
    PROVE Goal
  BY <1>0 DEF Next, Works
<1>1. CASE \/ AddProcess(n)
           \/ WriteGroupEvent(n)
           \/ \E e \in Event : SignGroupEvent(n, e)
           \/ \E s \in Nodes, e \in Event : ReplyFullSignature(n, s, e)
           \/ ReplyPeriodElapses(n)
  BY <1>1, <1>a DEF AddProcess, WriteGroupEvent, SignGroupEvent, ReplyFullSignature,
                    ReplyPeriodElapses, durable, volatile
<1>2. CASE AppendOwnPartial(n)
  <2>1. signing[n] \in Event /\ UNCHANGED <<sending, engine>>
    BY <1>2 DEF AppendOwnPartial, TypeOK
  <2>2. WriteSignedGroupEventAndExpirePending(n, signing[n]) \/ UNCHANGED <<full, signed>>
    BY <1>2, AppendQueues DEF AppendOwnPartial
  <2> QED BY <2>1, <2>2, WriteSignedQueues
<1>3. CASE \E s \in Nodes, e \in Event : ReceivePartial(n, s, e)
  <2>1. PICK s \in Nodes, e \in Event : ReceivePartial(n, s, e)
    BY <1>3
  <2>2. WriteSignedGroupEventAndExpirePending(n, e) \/ UNCHANGED <<full, signed>>
    BY <2>1, AppendQueues DEF ReceivePartial
  <2>3. UNCHANGED <<sending, engine>>
    BY <2>1 DEF ReceivePartial, volatile
  <2> QED BY <2>2, <2>3, WriteSignedQueues
<1>4. CASE \E r \in Reply : ReceiveFullSignature(n, r)
  <2>1. PICK r \in Reply : ReceiveFullSignature(n, r)
    BY <1>4
  <2>2. r.event \in Event /\ WriteSignedGroupEventAndExpirePending(n, r.event)
    BY <2>1 DEF ReceiveFullSignature, Reply
  <2>3. UNCHANGED <<sending, engine>>
    BY <2>1 DEF ReceiveFullSignature, volatile
  <2> QED BY <2>2, <2>3, WriteSignedQueues
<1>5. CASE SendEvents(n)
  <2> DEFINE Sent(k) == engine[n][k] = NoContent /\ \E e \in ListSigned(n) : e.nonce = k
  <2>1. ListSigned(n) \subseteq signed[n] /\ signed[n] \subseteq Event
    BY DEF ListSigned, TypeOK
  <2>2. \A k \in Nonces : (\E e \in ListSigned(n) : e.nonce = k) =>
          (CHOOSE e \in ListSigned(n) : e.nonce = k).content = full[n][k]
    BY <2>1 DEF QueuesMatch
  <2>3. \A m \in Honest, k \in Nonces :
          engine'[m][k] = IF m = n /\ Sent(k) THEN full[m][k] ELSE engine[m][k]
    BY <1>5, <2>2 DEF SendEvents, TypeOK
  <2>4. /\ UNCHANGED <<full, signed>>
        /\ \A m \in Honest : sending'[m] = IF m = n THEN ListSigned(n) ELSE sending[m]
    BY <1>5 DEF SendEvents, TypeOK
  <2>5. \A m \in Honest, k \in Nonces :
          engine'[m][k] # NoContent => engine'[m][k] = full'[m][k]
    BY <2>3, <2>4 DEF QueuesMatch
  <2>6. \A m \in Honest : \A d \in sending'[m] :
          engine'[m][d.nonce] = full'[m][d.nonce] /\ CheckSigned(m, d.nonce)'
    <3> SUFFICES ASSUME NEW m \in Honest, NEW d \in sending'[m]
                 PROVE  engine'[m][d.nonce] = full'[m][d.nonce] /\ CheckSigned(m, d.nonce)'
      OBVIOUS
    <3>1. d \in Event /\ d.nonce \in Nonces /\ d.content \in Contents
      BY <2>1, <2>4, EventType DEF TypeOK
    <3>2. CASE m = n
      <4>1. d \in ListSigned(n) /\ full[n][d.nonce] = d.content
        BY <3>2, <2>1, <2>4 DEF QueuesMatch
      <4>2. engine'[n][d.nonce] = full[n][d.nonce]
        BY <4>1, <3>1, <2>3 DEF QueuesMatch
      <4> QED BY <3>1, <3>2, <4>1, <4>2, <2>4, SentinelAssumption DEF CheckSigned
    <3>3. CASE m # n
      BY <3>1, <3>3, <2>3, <2>4 DEF QueuesMatch, CheckSigned
    <3> QED BY <3>2, <3>3
  <2>7. SignedReachesEngine'
    BY <2>3, <2>4 DEF SignedReachesEngine, CheckSigned
  <2> QED BY <2>4, <2>5, <2>6, <2>7 DEF QueuesMatch
<1>6. CASE ExpireGroupEvents(n)
  <2>1. /\ UNCHANGED <<full, engine>>
        /\ \A m \in Honest : sending'[m] \subseteq sending[m]
        /\ \A m \in Honest : \A e :
             e \in signed'[m] <=>
               e \in signed[m] /\ (m = n => \A d \in sending[n] : d.nonce # e.nonce)
    BY <1>6 DEF ExpireGroupEvents, TypeOK
  <2>2. QueuesMatch'
    BY <2>1 DEF QueuesMatch, CheckSigned
  <2>3. SignedReachesEngine'
    <3> SUFFICES ASSUME NEW m \in Honest, NEW k \in Nonces, CheckSigned(m, k),
                        [nonce |-> k, content |-> full[m][k]] \notin signed'[m]
                 PROVE  engine[m][k] = full[m][k]
      BY <2>1 DEF SignedReachesEngine, CheckSigned
    <3> DEFINE e == [nonce |-> k, content |-> full[m][k]]
    <3>1. CASE e \notin signed[m]
      BY <3>1 DEF SignedReachesEngine
    <3>2. CASE e \in signed[m]
      <4>1. m = n /\ \E d \in sending[n] : d.nonce = e.nonce
        BY <3>2, <2>1
      <4> QED BY <4>1 DEF QueuesMatch
    <3> QED BY <3>1, <3>2
  <2> QED BY <2>1, <2>2, <2>3
<1>7. CASE Restart(n)
  <2>1. UNCHANGED <<full, signed, engine>> /\ \A m \in Honest : sending'[m] \subseteq sending[m]
    BY <1>7 DEF Restart, durable, TypeOK
  <2> QED BY <2>1 DEF QueuesMatch, SignedReachesEngine, CheckSigned
<1> QED BY <1>1, <1>2, <1>3, <1>4, <1>5, <1>6, <1>7

\* The queues are in step in every reachable state.
LEMMA QueueInvariant == Spec => []QueueInv
<1>1. Init => QueueInv
  BY DEF Init, QueueInv, QueuesMatch, SignedReachesEngine, CheckSigned
<1>2. TypeOK /\ QueueInv /\ [Next]_vars => QueueInv'
  BY QueueStep
<1> QED BY <1>1, <1>2, TypeCorrect, PTL DEF Spec

\* A signed event is always in the signed queue or in the engine's store, through
\* restarts and events signed while a batch is sent.
THEOREM SignedReachesEngineHolds == Spec => []SignedReachesEngine
BY QueueInvariant, PTL DEF QueueInv

\* No step queues an event again that the engine was already given.
THEOREM NeverQueuedAgainHolds == Spec => NeverQueuedAgain
<1>1. TypeOK /\ QueueInv /\ [Next]_vars =>
        [\A n \in Honest, e \in Event :
           engine[n][e.nonce] # NoContent /\ e \notin signed[n] => e \notin signed'[n]]_vars
  BY QueueStep
<1> QED BY <1>1, TypeCorrect, QueueInvariant, PTL DEF Spec, NeverQueuedAgain

-----------------------------------------------------------------------------
\* If all members are given one order, what can be recovered is the own output
\* of every member at that nonce.
LEMMA RecoverableIsOwn ==
  ASSUME OwnOutputs, CommonOrder, NEW n \in Honest, NEW e \in Event, Recoverable(e)
  PROVE  e.content = Order[n][e.nonce]
<1>1. PICK h \in Honest : Consumed(h, e)
  BY RecoverableConsumed
<1> QED BY <1>1 DEF Consumed, CommonOrder

\* Storing the signature of the own output removes exactly its pending entry.
LEMMA WriteSignedPending ==
  ASSUME TypeOK, CommonOrder, PendingUntilSigned, UNCHANGED nonce,
         NEW n \in Honest, NEW e \in Event, e.content = Order[n][e.nonce],
         WriteSignedGroupEventAndExpirePending(n, e)
  PROVE  PendingUntilSigned'
<1> SUFFICES ASSUME NEW m \in Honest, NEW k \in Nonces
             PROVE  ([nonce |-> k, content |-> Order[m][k]] \in pending'[m])
                      <=> (k < nonce[m] /\ ~ CheckSigned(m, k)')
  BY DEF PendingUntilSigned
<1> DEFINE own == [nonce |-> k, content |-> Order[m][k]]
<1>1. (own \in pending[m]) <=> (k < nonce[m] /\ ~ CheckSigned(m, k))
  BY DEF PendingUntilSigned
<1>2. CASE CheckSigned(n, e.nonce)
  BY <1>1, <1>2 DEF WriteSignedGroupEventAndExpirePending, CheckSigned
<1>3. CASE ~ CheckSigned(n, e.nonce)
  <2>1. /\ pending' = [pending EXCEPT ![n] = {d \in @ : ~ SameTimedKey(d, e)}]
        /\ full' = [full EXCEPT ![n][e.nonce] = e.content]
    BY <1>3, Zenon DEF WriteSignedGroupEventAndExpirePending
  <2>2. \A d : d \in pending'[m] <=> d \in pending[m] /\ (m = n => ~ SameTimedKey(d, e))
    BY <2>1 DEF TypeOK
  <2>3. CASE m = n /\ k = e.nonce
    <3>1. own = e
      BY <2>3, EventType
    <3>2. SameTimedKey(own, e)
      BY <3>1 DEF SameTimedKey
    <3>3. CheckSigned(m, k)'
      BY <2>1, <2>3, EventType, SentinelAssumption DEF CheckSigned, TypeOK
    <3> QED BY <2>2, <2>3, <3>2, <3>3
  <2>4. CASE ~ (m = n /\ k = e.nonce)
    <3>1. full'[m][k] = full[m][k]
      BY <2>1, <2>4 DEF TypeOK
    <3>2. m = n => ~ SameTimedKey(own, e)
      BY <2>4 DEF SameTimedKey
    <3> QED BY <1>1, <2>2, <3>1, <3>2 DEF CheckSigned
  <2> QED BY <2>3, <2>4
<1> QED BY <1>2, <1>3

\* A step that appends a released partial keeps the pending queue right.
LEMMA AppendPending ==
  ASSUME TypeOK, SignerInv, CommonOrder, PendingUntilSigned, UNCHANGED nonce,
         NEW n \in Honest, NEW s \in Nodes, NEW e \in Event, e \in broadcasts[s],
         AppendPendingGroupEventSignature(n, e, s)
  PROVE  PendingUntilSigned'
<1>1. CASE UNCHANGED <<pending, full>>
  BY <1>1 DEF PendingUntilSigned, CheckSigned
<1>2. CASE /\ ~ (Cardinality(ValidPartials(n, e) \cup {s}) < Threshold)
           /\ WriteSignedGroupEventAndExpirePending(n, e)
  <2>1. e.content = Order[n][e.nonce]
    BY <1>2, EnoughRecoverable, RecoverableIsOwn DEF SignerInv
  <2> QED BY <1>2, <2>1, WriteSignedPending
<1> QED BY <1>1, <1>2 DEF AppendPendingGroupEventSignature

\* An output is pending exactly from its consumption to its full signature, if
\* all members are given the outputs in one order.
THEOREM PendingUntilSignedHolds == Spec => []PendingUntilSigned
<1>1. Init => PendingUntilSigned
  <2> SUFFICES ASSUME Init PROVE PendingUntilSigned
    OBVIOUS
  <2>1. \A n \in Honest, k \in Nonces : pending[n] = {} /\ ~ (k < nonce[n])
    BY NumberAssumption DEF Init, Nonces
  <2> QED BY <2>1 DEF PendingUntilSigned
<1>2. TypeOK /\ SignerInv /\ PendingUntilSigned /\ [Next]_vars => PendingUntilSigned'
  <2> SUFFICES ASSUME TypeOK, SignerInv, PendingUntilSigned, [Next]_vars, CommonOrder
               PROVE  PendingUntilSigned'
    BY DEF PendingUntilSigned
  <2>a. ASSUME UNCHANGED <<nonce, pending, full>> PROVE PendingUntilSigned'
    BY <2>a DEF PendingUntilSigned, CheckSigned
  <2>0. CASE UNCHANGED vars
    BY <2>0, <2>a DEF vars, durable
  <2> SUFFICES ASSUME NEW n \in Honest,
        \/ AddProcess(n)
        \/ WriteGroupEvent(n)
        \/ \E e \in Event : SignGroupEvent(n, e)
        \/ AppendOwnPartial(n)
        \/ \E s \in Nodes, e \in Event : ReceivePartial(n, s, e)
        \/ \E s \in Nodes, e \in Event : ReplyFullSignature(n, s, e)
        \/ \E r \in Reply : ReceiveFullSignature(n, r)
        \/ ReplyPeriodElapses(n)
        \/ SendEvents(n)
        \/ ExpireGroupEvents(n)
        \/ Restart(n)
      PROVE PendingUntilSigned'
    BY <2>0 DEF Next, Works
  <2>1. CASE \/ AddProcess(n)
             \/ \E e \in Event : SignGroupEvent(n, e)
             \/ \E s \in Nodes, e \in Event : ReplyFullSignature(n, s, e)
             \/ ReplyPeriodElapses(n)
             \/ SendEvents(n)
             \/ ExpireGroupEvents(n)
             \/ Restart(n)
    BY <2>1, <2>a DEF AddProcess, SignGroupEvent, ReplyFullSignature, ReplyPeriodElapses,
                      SendEvents, ExpireGroupEvents, Restart, durable
  <2>2. CASE WriteGroupEvent(n)
    <3> DEFINE new == [nonce |-> nonce[n], content |-> Order[n][nonce[n]]]
    <3>1. /\ nonce' = [nonce EXCEPT ![n] = @ + 1]
          /\ pending' = IF CheckSigned(n, nonce[n]) THEN pending
                        ELSE [pending EXCEPT ![n] = @ \cup {new}]
          /\ UNCHANGED full
      BY <2>2 DEF WriteGroupEvent, QueuePending
    <3> SUFFICES ASSUME NEW m \in Honest, NEW k \in Nonces
                 PROVE  ([nonce |-> k, content |-> Order[m][k]] \in pending'[m])
                          <=> (k < nonce'[m] /\ ~ CheckSigned(m, k))
      BY <3>1 DEF PendingUntilSigned, CheckSigned
    <3> DEFINE own == [nonce |-> k, content |-> Order[m][k]]
    <3>2. (own \in pending[m]) <=> (k < nonce[m] /\ ~ CheckSigned(m, k))
      BY DEF PendingUntilSigned
    <3>3. nonce[m] \in Nat /\ k \in Nat
      BY NumberAssumption DEF TypeOK, Nonces
    <3>4. CASE m = n /\ k = nonce[n]
      <4>1. own = new /\ nonce'[m] = nonce[m] + 1
        BY <3>1, <3>4 DEF TypeOK
      <4>2. CASE CheckSigned(n, nonce[n])
        BY <3>1, <3>2, <3>4, <4>2
      <4>3. CASE ~ CheckSigned(n, nonce[n])
        <5>1. own \in pending'[m]
          BY <3>1, <3>4, <4>1, <4>3 DEF TypeOK
        <5> QED BY <3>3, <3>4, <4>1, <4>3, <5>1
      <4> QED BY <4>2, <4>3
    <3>5. CASE ~ (m = n /\ k = nonce[n])
      <4>1. (own \in pending'[m]) <=> (own \in pending[m])
        BY <3>1, <3>5 DEF TypeOK
      <4>2. (k < nonce'[m]) <=> (k < nonce[m])
        <5>1. nonce'[m] = IF m = n THEN nonce[m] + 1 ELSE nonce[m]
          BY <3>1 DEF TypeOK
        <5>2. m = n => k # nonce[m]
          BY <3>5
        <5> QED BY <3>3, <5>1, <5>2
      <4> QED BY <3>2, <4>1, <4>2
    <3> QED BY <3>4, <3>5
  <2>3. CASE AppendOwnPartial(n)
    <3>1. /\ n \in Nodes
          /\ signing[n] \in Event
          /\ signing[n] \in broadcasts[n]
          /\ AppendPendingGroupEventSignature(n, signing[n], n)
          /\ UNCHANGED nonce
      BY <2>3 DEF AppendOwnPartial, TypeOK, SignerInv, SigningBroadcast, Honest
    <3> QED BY <3>1, AppendPending
  <2>4. CASE \E s \in Nodes, e \in Event : ReceivePartial(n, s, e)
    BY <2>4, AppendPending DEF ReceivePartial
  <2>5. CASE \E r \in Reply : ReceiveFullSignature(n, r)
    <3>1. PICK r \in Reply : ReceiveFullSignature(n, r)
      BY <2>5
    <3>2. /\ r.event \in Event
          /\ Recoverable(r.event)
          /\ WriteSignedGroupEventAndExpirePending(n, r.event)
          /\ UNCHANGED nonce
      BY <3>1 DEF ReceiveFullSignature, Verify, Reply
    <3>3. r.event.content = Order[n][r.event.nonce]
      BY <3>2, RecoverableIsOwn DEF SignerInv
    <3> QED BY <3>2, <3>3, WriteSignedPending
  <2> QED BY <2>1, <2>2, <2>3, <2>4, <2>5
<1> QED BY <1>1, <1>2, TypeCorrect, SignerInvariant, PTL DEF Spec
=============================================================================
