---------------------------- MODULE GroupSigner ----------------------------
(***************************************************************************)
(* How the members of a trusted group turn an output into a group event    *)
(* that carries a threshold signature, and hand it to the engine.          *)
(*                                                                         *)
(*   mvm/machine/signer.go   the signing and receiving loops               *)
(*   mvm/machine/machine.go  WriteGroupEvent, AddProcess (registration)    *)
(*   mvm/machine/process.go  loopSendEvents                                *)
(*   mvm/store/event.go      the pending, signature and signed tables      *)
(*                                                                         *)
(* Every key of those tables starts with the process identifier, so one    *)
(* process is modelled.  The content of an event (asset, amount, members,  *)
(* extra, timestamp) is one value of Contents: the signed bytes differ     *)
(* exactly when nonce or content do.  The creation time of the output is   *)
(* kept apart, because the pending table is keyed by it.                   *)
(*                                                                         *)
(* The messenger may lose, delay, duplicate and reorder: what a member     *)
(* has broadcast or replied stays deliverable forever.  A faulty member    *)
(* may send a partial signature of its own share over any event, and pass  *)
(* on a full signature that can be recovered from released partials; it    *)
(* cannot forge a partial of another share (external: tbls, en256).        *)
(***************************************************************************)
EXTENDS Naturals, FiniteSets

CONSTANTS
  Nodes,        \* the members of the group, m.group.GetMembers()
  Faulty,       \* members that do not run this code
  Threshold,    \* m.group.GetThreshold()
  Contents,     \* what an event says besides its process and nonce
  Timestamp,    \* creation time of the output a content comes from
  OutputCount,  \* outputs of the process every member is given (a bound)
  Order,        \* Order[n][k]: the content of member n's k-th output
  ListLimit,    \* limit of ListPendingGroupEvents and ListSignedGroupEvents
  NoContent,    \* no full signature
  NoEvent       \* the signing loop is between two events

Honest == Nodes \ Faulty

Nonces == 0 .. (OutputCount - 1)

Event == [nonce : Nonces, content : Contents]

\* A full signature over the content "over", attached to an event.
Reply == [event : Event, over : Contents]

Quorums == {Q \in SUBSET Nodes : Cardinality(Q) >= Threshold}

ASSUME NodesAssumption == IsFiniteSet(Nodes) /\ Faulty \subseteq Nodes

ASSUME NumberAssumption ==
  /\ Threshold \in Nat \ {0}
  /\ OutputCount \in Nat
  /\ ListLimit \in Nat \ {0}

ASSUME OrderAssumption ==
  /\ Order \in [Honest -> [Nonces -> Contents]]
  /\ Timestamp \in [Contents -> Nat]

ASSUME SentinelAssumption == NoContent \notin Contents /\ NoEvent \notin Event

\* Two sets of Threshold members have a member in common that is not faulty.
ASSUME QuorumAssumption ==
  \A P, Q \in Quorums : \E h \in Honest : h \in P /\ h \in Q

VARIABLES
  \* durable, in the member's Badger store
  registered,   \* the process is stored (and in m.processes)
  nonce,        \* proc.Nonce
  pending,      \* MVM:EVENT:PENDING:QUEUE
  partials,     \* MVM:EVENT:PENDING:SIGNATURES, when it holds partials
  full,         \* MVM:EVENT:PENDING:SIGNATURES, when it holds 64 bytes
  signed,       \* MVM:EVENT:SIGNED:QUEUE
  engine,       \* QUORUM:GROUP:EVENT:QUEUE, the engine's own store
  \* volatile
  signing,      \* event broadcast by loopSignGroupEvents, not yet appended
  replied,      \* sm of loopReceiveGroupMessages, younger than messagePeriod
  sending,      \* events listed and sent by loopSendEvents, not yet expired
  \* the messenger
  broadcasts,   \* events whose partial signature a member has sent to all
  replies       \* full signatures sent to a correct member

durable == <<registered, nonce, pending, partials, full, signed, engine>>
volatile == <<signing, replied, sending>>
network == <<broadcasts, replies>>
vars == <<durable, volatile, network>>

Init ==
  /\ registered = [n \in Honest |-> FALSE]
  /\ nonce = [n \in Honest |-> 0]
  /\ pending = [n \in Honest |-> {}]
  /\ partials = [n \in Honest |-> [k \in Nonces |-> {}]]
  /\ full = [n \in Honest |-> [k \in Nonces |-> NoContent]]
  /\ signed = [n \in Honest |-> {}]
  /\ engine = [n \in Honest |-> [k \in Nonces |-> NoContent]]
  /\ signing = [n \in Honest |-> NoEvent]
  /\ replied = [n \in Honest |-> {}]
  /\ sending = [n \in Honest |-> {}]
  /\ broadcasts = [s \in Nodes |-> IF s \in Faulty THEN Event ELSE {}]
  /\ replies = [n \in Honest |-> {}]

-----------------------------------------------------------------------------
(* The threshold scheme (external: drand tbls over en256).                 *)

\* Enough members have released a partial over e to recover its signature.
Recoverable(e) ==
  \E Q \in Quorums : \A s \in Q : e \in broadcasts[s]

\* crypto.Verify of a full signature over `over' against the bytes of e
Verify(e, over) == over = e.content /\ Recoverable(e)

-----------------------------------------------------------------------------
(* The tables of store/event.go.                                           *)

\* checkSignedEvent
CheckSigned(n, k) == full[n][k] # NoContent

\* buildPendingEventTimedKey: timestamp || process || nonce, big endian
SameTimedKey(d, e) ==
  /\ d.nonce = e.nonce
  /\ Timestamp[d.content] = Timestamp[e.content]

TimedKeyBefore(d, e) ==
  \/ Timestamp[d.content] < Timestamp[e.content]
  \/ Timestamp[d.content] = Timestamp[e.content] /\ d.nonce < e.nonce

\* ListPendingGroupEvents: the first ListLimit events in key order
ListPending(n) ==
  {e \in pending[n] :
     Cardinality({d \in pending[n] : TimedKeyBefore(d, e)}) < ListLimit}

\* ListSignedGroupEvents: the first ListLimit events in nonce order
ListSigned(n) ==
  {e \in signed[n] : Cardinality({d \in signed[n] : d.nonce < e.nonce}) < ListLimit}

\* the event is put in the pending queue even if its nonce is signed already
MutantQueueAlways(n, e) == [pending EXCEPT ![n] = @ \cup {e}]

\* the tail of WritePendingGroupEventAndNonce
QueuePending(n, e) ==
  IF CheckSigned(n, e.nonce) THEN pending
                             ELSE [pending EXCEPT ![n] = @ \cup {e}]

\* a second full signature queues the event again
MutantRequeue(n, e) ==
  /\ pending' = [pending EXCEPT ![n] = {d \in @ : ~ SameTimedKey(d, e)}]
  /\ partials' = [partials EXCEPT ![n][e.nonce] = {}]
  /\ full' = [full EXCEPT ![n][e.nonce] = e.content]
  /\ signed' = [signed EXCEPT ![n] = @ \cup {e}]

WriteSignedGroupEventAndExpirePending(n, e) ==
  IF CheckSigned(n, e.nonce)
    THEN UNCHANGED <<pending, partials, full, signed>>
    ELSE /\ pending' = [pending EXCEPT ![n] = {d \in @ : ~ SameTimedKey(d, e)}]
         /\ partials' = [partials EXCEPT ![n][e.nonce] = {}]
         /\ full' = [full EXCEPT ![n][e.nonce] = e.content]
         /\ signed' = [signed EXCEPT ![n] = @ \cup {e}]

\* partials over other contents are counted too
MutantAnyPartial(n, e) == {s \in Nodes : \E c \in Contents : <<s, c>> \in partials[n][e.nonce]}

\* removeInvalidPartials: the signers of the stored partials over e's bytes
ValidPartials(n, e) == {s \in Nodes : <<s, e.content>> \in partials[n][e.nonce]}

\* appendPendingGroupEventSignature, under signerLock
AppendPendingGroupEventSignature(n, e, s) ==
  LET valid == ValidPartials(n, e)
      appended == valid \cup {s}
  IN IF CheckSigned(n, e.nonce) \/ s \in valid
       THEN UNCHANGED <<pending, partials, full, signed>>
     ELSE IF Cardinality(appended) < Threshold
       THEN /\ partials' = [partials EXCEPT ![n][e.nonce] = appended \X {e.content}]
            /\ UNCHANGED <<pending, full, signed>>
     ELSE WriteSignedGroupEventAndExpirePending(n, e)

-----------------------------------------------------------------------------
(* The operations of one member.                                           *)

\* AddProcess succeeds; group events of the process come after it.
AddProcess(n) ==
  /\ ~ registered[n]
  /\ registered' = [registered EXCEPT ![n] = TRUE]
  /\ UNCHANGED <<nonce, pending, partials, full, signed, engine, volatile, network>>

\* WriteGroupEvent for the next output; its crash points are in MachineLedger.
WriteGroupEvent(n) ==
  /\ registered[n]
  /\ nonce[n] < OutputCount
  /\ nonce' = [nonce EXCEPT ![n] = @ + 1]
  /\ pending' = QueuePending(n, [nonce |-> nonce[n], content |-> Order[n][nonce[n]]])
  /\ UNCHANGED <<registered, partials, full, signed, engine, volatile, network>>

\* loopSignGroupEvents: sign a listed event and queue the partial to everyone.
\* An event that stays pending is signed again every messagePeriod, or after a
\* restart; how long that takes is left open.
SignGroupEvent(n, e) ==
  /\ signing[n] = NoEvent
  /\ e \in ListPending(n)
  /\ broadcasts' = [broadcasts EXCEPT ![n] = @ \cup {e}]
  /\ signing' = [signing EXCEPT ![n] = e]
  /\ UNCHANGED <<durable, replied, sending, replies>>

\* ... and then store the own partial.
AppendOwnPartial(n) ==
  /\ signing[n] # NoEvent
  /\ AppendPendingGroupEventSignature(n, signing[n], n)
  /\ signing' = [signing EXCEPT ![n] = NoEvent]
  /\ UNCHANGED <<registered, nonce, engine, replied, sending, network>>

\* loopReceiveGroupMessages, a valid partial for an event not fully signed here
ReceivePartial(n, s, e) ==
  /\ registered[n]
  /\ e \in broadcasts[s]
  /\ ~ CheckSigned(n, e.nonce)
  /\ AppendPendingGroupEventSignature(n, e, s)
  /\ UNCHANGED <<registered, nonce, engine, volatile, network>>

\* a member that holds the full signature does not answer
MutantNoReply(n, s, e) == FALSE

\* loopReceiveGroupMessages, a partial for an event that is fully signed here:
\* the peer's event is sent back with the stored signature, once per period.
ReplyFullSignature(n, s, e) ==
  /\ registered[n]
  /\ e \in broadcasts[s]
  /\ CheckSigned(n, e.nonce)
  /\ e.nonce \notin replied[n]
  /\ replies' = [p \in Honest |->
                   IF p = s THEN replies[p] \cup {[event |-> e, over |-> full[n][e.nonce]]}
                            ELSE replies[p]]
  /\ replied' = [replied EXCEPT ![n] = @ \cup {e.nonce}]
  /\ UNCHANGED <<durable, signing, sending, broadcasts>>

\* a 64 byte signature is stored without verifying it
MutantReceiveUnverified(n, r) ==
  /\ registered[n]
  /\ r \in replies[n] \/ (Faulty # {} /\ r.over = r.event.content)
  /\ WriteSignedGroupEventAndExpirePending(n, r.event)
  /\ UNCHANGED <<registered, nonce, engine, volatile, network>>

\* loopReceiveGroupMessages, a 64 byte signature; one that does not verify is
\* dropped.
ReceiveFullSignature(n, r) ==
  /\ registered[n]
  /\ r \in replies[n] \/ Faulty # {}
  /\ Verify(r.event, r.over)
  /\ WriteSignedGroupEventAndExpirePending(n, r.event)
  /\ UNCHANGED <<registered, nonce, engine, volatile, network>>

\* messagePeriod has passed since an event was answered.
ReplyPeriodElapses(n) ==
  /\ \E k \in replied[n] : replied' = [replied EXCEPT ![n] = @ \ {k}]
  /\ UNCHANGED <<durable, signing, sending, network>>

\* loopSendEvents: list, and EnsureSendGroupEvents, which keeps the first
\* event written for a nonce (storeWriteGroupEvents).
SendEvents(n) ==
  /\ sending[n] = {}
  /\ signed[n] # {}
  /\ sending' = [sending EXCEPT ![n] = ListSigned(n)]
  /\ engine' = [engine EXCEPT ![n] =
       [k \in Nonces |->
          IF engine[n][k] = NoContent /\ \E e \in ListSigned(n) : e.nonce = k
            THEN (CHOOSE e \in ListSigned(n) : e.nonce = k).content
            ELSE engine[n][k]]]
  /\ UNCHANGED <<registered, nonce, pending, partials, full, signed,
                 signing, replied, network>>

\* the whole signed queue is dropped, not only the events that were sent
MutantExpireAll(n) ==
  /\ sending[n] # {}
  /\ signed' = [signed EXCEPT ![n] = {}]
  /\ sending' = [sending EXCEPT ![n] = {}]
  /\ UNCHANGED <<registered, nonce, pending, partials, full, engine,
                 signing, replied, network>>

\* ExpireGroupEventsWithCost: delete the sent events, by nonce
ExpireGroupEvents(n) ==
  /\ sending[n] # {}
  /\ signed' = [signed EXCEPT ![n] =
                  {e \in @ : \A d \in sending[n] : d.nonce # e.nonce}]
  /\ sending' = [sending EXCEPT ![n] = {}]
  /\ UNCHANGED <<registered, nonce, pending, partials, full, engine,
                 signing, replied, network>>

\* The process stops and is started again: only the stores survive.
Restart(n) ==
  /\ signing' = [signing EXCEPT ![n] = NoEvent]
  /\ replied' = [replied EXCEPT ![n] = {}]
  /\ sending' = [sending EXCEPT ![n] = {}]
  /\ UNCHANGED <<durable, network>>

\* a step of one of the loops of n
Works(n) ==
  \/ AddProcess(n)
  \/ WriteGroupEvent(n)
  \/ \E e \in Event : SignGroupEvent(n, e)
  \/ AppendOwnPartial(n)
  \/ \E s \in Nodes, e \in Event : ReceivePartial(n, s, e)
  \/ \E s \in Nodes, e \in Event : ReplyFullSignature(n, s, e)
  \/ \E r \in Reply : ReceiveFullSignature(n, r)
  \/ ReplyPeriodElapses(n)
  \/ SendEvents(n)
  \/ ExpireGroupEvents(n)

Next == \E n \in Honest : Works(n) \/ Restart(n)

Spec == Init /\ [][Next]_vars

\* Each loop keeps running, time passes, and members are in the end not restarted
\* any more.  A partial is sent again every messagePeriod while its event is
\* pending at the signer, so only those are assumed to arrive, and to be answered
\* if they keep coming when the period of the last answer is over.
Fairness ==
  /\ <>[][\E n \in Honest : Works(n)]_vars
  /\ \A n \in Honest :
      /\ WF_vars(AddProcess(n) \/ WriteGroupEvent(n))
      /\ WF_vars(\E r \in Reply : ReceiveFullSignature(n, r))
      /\ WF_vars(\E s \in Honest : \E e \in pending[s] : ReceivePartial(n, s, e))
      /\ WF_vars(SendEvents(n))
      /\ WF_vars(AppendOwnPartial(n))
      /\ WF_vars(ExpireGroupEvents(n))
      /\ \A k \in 0 .. OutputCount - 1 :
           /\ WF_vars(\E e \in pending[n] : e.nonce = k /\ SignGroupEvent(n, e))
           /\ SF_vars(\E s \in Honest : \E e \in pending[s] : e.nonce = k /\ ReplyFullSignature(n, s, e))
           /\ WF_vars(k \in replied[n] /\ ReplyPeriodElapses(n) /\ k \notin replied'[n])

FairSpec == Spec /\ Fairness

-----------------------------------------------------------------------------
(* Properties                                                              *)

\* Types of all the variables.
TypeOK ==
  /\ registered \in [Honest -> BOOLEAN]
  /\ nonce \in [Honest -> 0 .. OutputCount]
  /\ pending \in [Honest -> SUBSET Event]
  /\ partials \in [Honest -> [Nonces -> SUBSET (Nodes \X Contents)]]
  /\ full \in [Honest -> [Nonces -> Contents \cup {NoContent}]]
  /\ signed \in [Honest -> SUBSET Event]
  /\ engine \in [Honest -> [Nonces -> Contents \cup {NoContent}]]
  /\ signing \in [Honest -> Event \cup {NoEvent}]
  /\ replied \in [Honest -> SUBSET Nonces]
  /\ sending \in [Honest -> SUBSET Event]
  /\ broadcasts \in [Nodes -> SUBSET Event]
  /\ replies \in [Honest -> SUBSET Reply]

\* Two members never hold full signatures over different events for the same
\* nonce, whatever order the messages, restarts and the outputs of each
\* member came in: the contract accepts one event per nonce.
Agreement ==
  \A m, n \in Honest, k \in Nonces :
    CheckSigned(m, k) /\ CheckSigned(n, k) => full[m][k] = full[n][k]

\* A fully signed event is an output that some correct member was itself given
\* at that nonce, even where the holder of the signature has not seen it yet.
Authentic ==
  \A n \in Honest, k \in Nonces :
    CheckSigned(n, k) =>
      \E h \in Honest : k < nonce[h] /\ Order[h][k] = full[n][k]

\* All members are given the outputs of the process in one order.
CommonOrder == \A m, n \in Honest : Order[m] = Order[n]

\* If all members are given the outputs in one order, an output a member has
\* consumed is either pending there or fully signed there, never both (a
\* pending entry that outlives its signature is signed again every period)
\* and never neither (it would not be signed again after a restart).
PendingUntilSigned ==
  CommonOrder =>
    \A n \in Honest, k \in Nonces :
      ([nonce |-> k, content |-> Order[n][k]] \in pending[n])
        <=> (k < nonce[n] /\ ~ CheckSigned(n, k))

\* A fully signed event is in the signed queue or in the engine's store: the
\* restart between EnsureSendGroupEvents and ExpireGroupEventsWithCost, and
\* events signed while a batch is being sent, lose nothing.
SignedReachesEngine ==
  \A n \in Honest, k \in Nonces :
    CheckSigned(n, k) =>
      \/ [nonce |-> k, content |-> full[n][k]] \in signed[n]
      \/ engine[n][k] = full[n][k]

\* Once an event has been sent and expired it never enters the signed queue
\* again, however often its full signature is received.
NeverQueuedAgain ==
  [][\A n \in Honest, e \in Event :
       engine[n][e.nonce] # NoContent /\ e \notin signed[n] => e \notin signed'[n]]_vars

\* Every output reaches the engine of every correct member, also of those
\* that registered the process or saw the output after the others had signed.
EventuallySent ==
  \A n \in Honest, k \in Nonces : <>[](engine[n][k] = Order[n][k])
=============================================================================
