---------------------------- MODULE RefundGroup ----------------------------
(***************************************************************************)
(* The sample group (sample/): members share a multisig address; whoever   *)
(* writes to the master is given a payment code, and what is paid with it  *)
(* is sent back by enough of the members.                                  *)
(*                                                                         *)
(* The master answers messages (services/message.go), follows the payments *)
(* in its database (models/payment.go), and signs and sends; the other     *)
(* members only sign (models/multisigs.go).  The Mixin API keeps payment   *)
(* codes, outputs and signatures.  A payment, its code and the output that *)
(* pays it have the same number, the transaction that spends an output has *)
(* the number of the output.  What every module has, its initial states,   *)
(* steps and types, is named Group... here, since proofs take this module  *)
(* together with Bridge.                                                   *)
(***************************************************************************)
EXTENDS Integers, FiniteSetsExt

CONSTANTS
  Users,        \* users of the messenger, whose id is the memo of their payments
  Others,       \* the members beside the master
  Running,      \* those of them that keep running
  Master,
  Threshold,    \* signatures that an output needs, 2 in the code
  MaxPayments,  \* bound on payment requests
  MaxMessages,  \* bound on messages
  Amounts,      \* amounts of payments, one of 10000 at random in the code
  PaymentLimit, \* rows that FindPaymentsByState reads, 100 in the code
  OutputLimit,  \* outputs that ReadMultisigs reads, 500 in the code
  MaxFailures   \* bound on timeouts, errors and stops

Payments == 1 .. MaxPayments
NoTx == 0

ASSUME GroupAssumption ==
  /\ MaxPayments \in Nat
  /\ MaxMessages \in Nat
  /\ MaxFailures \in Nat
  /\ PaymentLimit \in Nat \ {0}
  /\ OutputLimit \in Nat
  /\ Threshold \in Nat \ {0}
  /\ Users # {}
  /\ Master \notin Others
  /\ Running \subseteq Others

VARIABLES
  unread,     \* unread[u]: messages of u that are not acknowledged
  messages,   \* messages so far
  inbox,      \* inbox[u]: those of u that came on this connection, the one in hand too
  talk,       \* where the message loop is, the user it serves, the code
  requested,  \* codes of the payment requests so far
  owner,      \* owner[c]: the user, memo of payment c
  amount,     \* amount[c]
  told,       \* codes that were sent to their users
  state,      \* state[c]: state of the row in payments, "none" when there is none
  raw,        \* raw[c]: raw_transaction, NoTx when empty
  hash,       \* hash[c]: transaction_hash, NoTx when missing
  output,     \* output[c]: the output that pays code c, as the API has it
  place,      \* place[c]: the place of output c in the list of the API, by age, 0 for none
  signers,    \* signers[c]: members that have signed the transaction of output c
  watched,    \* pending rows that LoopingPendingPayments has still to ask for
  due,        \* paid rows that LoopingPaidPayments has still to refund
  refunding,  \* where refund is, its payment, the output, the hash it has read
  queue,      \* signed outputs that handleMultisig of the master has still to do
  failures    \* errors so far

mail == <<unread, messages, inbox, talk>>
codes == <<requested, owner, amount>>
rows == <<state, raw, hash>>
multisig == <<output, place, signers>>
lists == <<watched, due>>
groupVars == <<mail, codes, told, lists, rows, multisig, refunding, queue, failures>>

Silent == [at |-> "idle", user |-> CHOOSE u \in Users : TRUE, code |-> 0]
Resting == [at |-> "idle", pay |-> 0, out |-> 0, hash |-> NoTx]

GroupInit ==
  /\ unread = [u \in Users |-> 0]
  /\ messages = 0
  /\ inbox = [u \in Users |-> 0]
  /\ talk = Silent
  /\ requested = {}
  /\ owner \in [Payments -> Users]
  /\ amount \in [Payments -> Amounts]
  /\ told = {}
  /\ state = [c \in Payments |-> "none"]
  /\ raw = [c \in Payments |-> NoTx]
  /\ hash = [c \in Payments |-> NoTx]
  /\ output = [c \in Payments |-> "none"]
  /\ place = [c \in Payments |-> 0]
  /\ signers = [c \in Payments |-> {}]
  /\ watched = {} /\ due = {}
  /\ refunding = Resting
  /\ queue = [c \in {} |-> 0]
  /\ failures = 0

-----------------------------------------------------------------------------
(* The users and the message loop *)

Write(u) ==
  /\ messages < MaxMessages
  /\ messages' = messages + 1
  /\ unread' = [unread EXCEPT ![u] = @ + 1]
  /\ UNCHANGED <<inbox, talk, codes, told, lists, rows, multisig, refunding, queue, failures>>

\* a code is good for one payment, which makes an output of the group
Pay(c) ==
  /\ c \in told /\ output[c] = "none"
  /\ output' = [output EXCEPT ![c] = "unspent"]
  /\ place' = [place EXCEPT ![c] = 1 + Cardinality({o \in Payments : output[o] # "none"})]
  /\ UNCHANGED <<mail, codes, told, lists, rows, signers, refunding, queue, failures>>

\* parseMessage: the messages that are not acknowledged come, in any order
ReceiveMessage(u) ==
  /\ inbox[u] < unread[u]
  /\ inbox' = [inbox EXCEPT ![u] = @ + 1]
  /\ UNCHANGED <<unread, messages, talk, codes, told, lists, rows, multisig, refunding, queue, failures>>

Pending(u) == {c \in Payments : state[c] = "pending" /\ owner[c] = u}

\* codes that the API may give for payments of u
Unused(u) == {c \in Payments \ requested : owner[c] = u}

\* a new code for every message
MutantHandleMessage(u) ==
  /\ talk.at = "idle" /\ inbox[u] > 0
  /\ Unused(u) # {}
  /\ requested' = requested \cup {Min(Unused(u))}
  /\ talk' = [at |-> "store", user |-> u, code |-> Min(Unused(u))]
  /\ UNCHANGED <<unread, messages, inbox, owner, amount, told, lists, rows, multisig, refunding, queue, failures>>

\* the code of a new request is not stored
MutantUnstored(u) ==
  /\ talk.at = "idle" /\ inbox[u] > 0
  /\ Unused(u) # {}
  /\ requested' = requested \cup {Min(Unused(u))}
  /\ talk' = [at |-> "answer", user |-> u, code |-> Min(Unused(u))]
  /\ UNCHANGED <<unread, messages, inbox, owner, amount, told, lists, rows, multisig, refunding, queue, failures>>

\* HandleMessage: the code of the payment that is pending, or that of a new
\* payment request
HandleMessage(u) ==
  /\ talk.at = "idle" /\ inbox[u] > 0
  /\ \/ \E c \in Pending(u) :
          /\ talk' = [at |-> "answer", user |-> u, code |-> c]
          /\ UNCHANGED requested
     \/ /\ Pending(u) = {} /\ Unused(u) # {}
        /\ requested' = requested \cup {Min(Unused(u))}
        /\ talk' = [at |-> "store", user |-> u, code |-> Min(Unused(u))]
  /\ UNCHANGED <<unread, messages, inbox, owner, amount, told, lists, rows, multisig, refunding, queue, failures>>

\* CreatedPayment
CreatedPayment ==
  /\ talk.at = "store"
  /\ state' = [state EXCEPT ![talk.code] = "pending"]
  /\ talk' = [talk EXCEPT !.at = "answer"]
  /\ UNCHANGED <<unread, messages, inbox, codes, told, lists, raw, hash, multisig, refunding, queue, failures>>

\* writePump: a message is sent
Sent(c) == told' = told \cup {c}

\* CREATE_MESSAGE; an error 403, for a user who is not to be written to, counts as
\* an answer
Answer ==
  /\ talk.at = "answer"
  /\ Sent(talk.code) \/ UNCHANGED told
  /\ talk' = [talk EXCEPT !.at = "acknowledge"]
  /\ UNCHANGED <<unread, messages, inbox, codes, lists, rows, multisig, refunding, queue, failures>>

\* the message is answered and not acknowledged
MutantAcknowledge ==
  /\ talk.at = "acknowledge"
  /\ inbox' = [inbox EXCEPT ![talk.user] = @ - 1]
  /\ talk' = Silent
  /\ UNCHANGED <<unread, messages, codes, told, lists, rows, multisig, refunding, queue, failures>>

\* ACKNOWLEDGE_MESSAGE_RECEIPT
Acknowledge ==
  /\ talk.at = "acknowledge"
  /\ unread' = [unread EXCEPT ![talk.user] = @ - 1]
  /\ inbox' = [inbox EXCEPT ![talk.user] = @ - 1]
  /\ talk' = Silent
  /\ UNCHANGED <<messages, codes, told, lists, rows, multisig, refunding, queue, failures>>

\* Run begins a new connection with empty buffers and LIST_PENDING_MESSAGES.
Reconnect ==
  /\ failures < MaxFailures
  /\ failures' = failures + 1
  /\ inbox' = [u \in Users |-> 0]
  /\ talk' = Silent
  /\ UNCHANGED <<unread, messages, codes, lists, rows, multisig, refunding, queue>>

\* readPump ends while the loop waits for a message
ReadDone ==
  /\ talk.at = "idle" /\ \E u \in Users : inbox[u] > 0
  /\ Reconnect
  /\ UNCHANGED told

\* An error of the API or the database, or a timeout of writeMessageAndWait, which
\* also comes when a pump has ended, and after which the message may have been sent
\* all the same.
LoopFails ==
  /\ talk.at # "idle"
  /\ Reconnect
  /\ UNCHANGED told \/ (talk.at = "answer" /\ Sent(talk.code))

-----------------------------------------------------------------------------
(* Payments of the master's database *)

RowsIn(s) == {c \in Payments : state[c] = s}

\* up to PaymentLimit rows, in no order: any of them
FindPaymentsByState(s) ==
  {S \in SUBSET RowsIn(s) : Cardinality(S) = Min({PaymentLimit, Cardinality(RowsIn(s))})}

\* LoopingPendingPayments
ListPending ==
  /\ watched = {} /\ RowsIn("pending") # {}
  /\ watched' \in FindPaymentsByState("pending")
  /\ UNCHANGED <<mail, codes, told, due, rows, multisig, refunding, queue, failures>>

PaymentPaid(c) ==
  /\ c \in watched
  /\ watched' = watched \ {c}
  /\ state' = [state EXCEPT ![c] = IF output[c] # "none" THEN "paid" ELSE @]
  /\ UNCHANGED <<mail, codes, told, due, raw, hash, multisig, refunding, queue, failures>>

\* LoopingPaidPayments
ListPaid ==
  /\ due = {} /\ refunding.at = "idle" /\ RowsIn("paid") # {}
  /\ due' \in FindPaymentsByState("paid")
  /\ UNCHANGED <<mail, codes, told, watched, rows, multisig, refunding, queue, failures>>

\* an error of the API: the row is left for a later list
RowSkipped ==
  /\ failures < MaxFailures
  /\ failures' = failures + 1
  /\ \/ \E c \in watched : watched' = watched \ {c} /\ UNCHANGED due
     \/ /\ refunding.at = "idle"
        /\ \E c \in due : due' = due \ {c} /\ UNCHANGED watched
  /\ UNCHANGED <<mail, codes, told, rows, multisig, refunding, queue>>

\* what ReadMultisigs returns: the first outputs of the group, the spent ones too
ReadOutputs == {o \in Payments : place[o] \in 1 .. OutputLimit}

Oldest(S) == CHOOSE o \in S : \A p \in S : place[o] <= place[p]

\* an output that was spent is not looked at again
MutantMatching(c) ==
  {o \in ReadOutputs : output[o] \in {"unspent", "signed"} /\ amount[o] = amount[c] /\ owner[o] = owner[c]}

\* ReadMultisig: outputs are told apart by amount and memo, the oldest is taken
Matching(c) == {o \in ReadOutputs : amount[o] = amount[c] /\ owner[o] = owner[c]}

\* buildTransaction: the transaction that spends an output has its number
BuildTransaction(o) == o

\* refund, first part: the transaction that spends the output is stored, the one
\* that was signed or else a new one; without an output nothing is done
Refund(c) ==
  /\ refunding.at = "idle" /\ c \in due
  /\ due' = due \ {c}
  /\ \/ /\ Matching(c) = {}
        /\ UNCHANGED <<raw, refunding>>
     \/ /\ Matching(c) # {}
        /\ LET o == Oldest(Matching(c)) IN
             /\ raw' = [raw EXCEPT ![c] = BuildTransaction(o)]
             /\ refunding' = [at |-> "sign", pay |-> c, out |-> o, hash |-> hash[c]]
  /\ UNCHANGED <<mail, codes, told, watched, state, hash, multisig, queue, failures>>

\* GetTransaction
OnNetwork(h) == h \in {o \in Payments : output[o] = "spent"}

\* the transaction is on the network
RefundDone ==
  /\ refunding.at = "sign"
  /\ OnNetwork(refunding.hash)
  /\ state' = [state EXCEPT ![refunding.pay] = "refund"]
  /\ refunding' = Resting
  /\ UNCHANGED <<mail, codes, told, lists, raw, hash, multisig, queue, failures>>

\* CreateMultisig and SignMultisig make the output a signed one
Signed(m, o) ==
  /\ signers' = [signers EXCEPT ![o] = @ \cup {m}]
  /\ output' = [output EXCEPT ![o] = IF @ = "unspent" THEN "signed" ELSE @]
  /\ UNCHANGED place

RefundSign ==
  /\ refunding.at = "sign"
  /\ ~OnNetwork(refunding.hash)
  /\ Signed(Master, refunding.out)
  /\ refunding' = [refunding EXCEPT !.at = "save"]
  /\ UNCHANGED <<mail, codes, told, lists, rows, queue, failures>>

\* the column is not unique
MutantRefundSave ==
  /\ refunding.at = "save"
  /\ hash' = [hash EXCEPT ![refunding.pay] = refunding.out]
  /\ refunding' = Resting
  /\ UNCHANGED <<mail, codes, told, lists, state, raw, multisig, queue, failures>>

\* The hash is stored, which fails when another payment has it: transaction_hash
\* is unique.  One input has one map of signatures, so that the transaction is
\* never sent from here: len(SignaturesMap) is below the threshold.
RefundSave ==
  /\ refunding.at = "save"
  /\ \/ /\ \A c \in Payments \ {refunding.pay} : hash[c] # refunding.out
        /\ hash' = [hash EXCEPT ![refunding.pay] = refunding.out]
     \/ /\ \E c \in Payments \ {refunding.pay} : hash[c] = refunding.out
        /\ UNCHANGED hash
  /\ refunding' = Resting
  /\ UNCHANGED <<mail, codes, told, lists, state, raw, multisig, queue, failures>>

\* an error of the API or the database in the middle of refund
RefundFails ==
  /\ refunding.at # "idle" /\ failures < MaxFailures
  /\ failures' = failures + 1
  /\ refunding' = Resting
  /\ UNCHANGED <<mail, codes, told, lists, rows, multisig, queue>>

-----------------------------------------------------------------------------
(* handleMultisig *)

\* a member beside the master
SignMultisig(m, o) ==
  /\ o \in ReadOutputs /\ output[o] = "signed" /\ m \notin signers[o]
  /\ Signed(m, o)
  /\ UNCHANGED <<mail, codes, told, lists, rows, refunding, queue, failures>>

SignedOutputs == {o \in ReadOutputs : output[o] = "signed"}

\* the master lists the outputs with their signatures
ReadMultisigs ==
  /\ queue = [c \in {} |-> 0]
  /\ SignedOutputs # {}
  /\ queue' = [c \in SignedOutputs |-> Cardinality(signers[c])]
  /\ UNCHANGED <<mail, codes, told, lists, rows, multisig, refunding, failures>>

Without(o) == [c \in DOMAIN queue \ {o} |-> queue[c]]

SendRawTransaction(o) == output' = [output EXCEPT ![o] = "spent"]

\* signatures are counted in what was listed; a pending payment of the user comes first
Sendable(o) == Pending(owner[o]) = {} /\ queue[o] >= Threshold

\* The master signs; it passes over the outputs of users with a pending payment,
\* ends at one that was listed with too few signatures, and sends the others.
HandleMultisig(o) ==
  /\ o \in DOMAIN queue /\ o = Oldest(DOMAIN queue)
  /\ signers' = [signers EXCEPT ![o] = @ \cup {Master}]
  /\ \/ /\ Pending(owner[o]) # {}
        /\ queue' = Without(o)
        /\ UNCHANGED output
     \/ /\ Pending(owner[o]) = {} /\ ~ Sendable(o)
        /\ queue' = [c \in {} |-> 0]
        /\ UNCHANGED output
     \/ /\ Sendable(o)
        /\ SendRawTransaction(o)
        /\ queue' = Without(o)
  /\ UNCHANGED <<mail, codes, told, lists, rows, place, refunding, failures>>

\* An error of the API or the network, before or after the signature, or after the
\* transaction was sent, ends handleMultisig.
MultisigFails ==
  /\ DOMAIN queue # {} /\ failures < MaxFailures
  /\ failures' = failures + 1
  /\ queue' = [c \in {} |-> 0]
  /\ LET o == Oldest(DOMAIN queue) IN
       \/ UNCHANGED multisig
       \/ /\ signers' = [signers EXCEPT ![o] = @ \cup {Master}]
          /\ UNCHANGED output \/ (Sendable(o) /\ SendRawTransaction(o))
          /\ UNCHANGED place
  /\ UNCHANGED <<mail, codes, told, lists, rows, refunding>>

GroupNext ==
  \/ \E u \in Users : Write(u) \/ ReceiveMessage(u) \/ HandleMessage(u)
  \/ CreatedPayment \/ Answer \/ Acknowledge \/ ReadDone \/ LoopFails
  \/ \E c \in Payments : Pay(c) \/ PaymentPaid(c) \/ Refund(c) \/ HandleMultisig(c)
  \/ ListPending \/ ListPaid \/ RowSkipped
  \/ RefundDone \/ RefundSign \/ RefundSave \/ RefundFails
  \/ \E m \in Others, o \in Payments : SignMultisig(m, o)
  \/ ReadMultisigs \/ MultisigFails

GroupSpec == GroupInit /\ [][GroupNext]_groupVars

\* Every loop of the master runs for ever, and so do the members that keep running:
\* a row is reached when it is in a list.
GroupFairness ==
  /\ \A u \in Users : WF_groupVars(ReceiveMessage(u)) /\ WF_groupVars(HandleMessage(u))
  /\ WF_groupVars(CreatedPayment \/ Answer \/ Acknowledge)
  /\ WF_groupVars(ListPending \/ \E c \in Payments : PaymentPaid(c))
  /\ WF_groupVars(ListPaid \/ (\E c \in Payments : Refund(c)) \/ RefundDone \/ RefundSign \/ RefundSave)
  /\ \A m \in Running, o \in Payments : WF_groupVars(SignMultisig(m, o))
  /\ WF_groupVars(ReadMultisigs \/ \E c \in Payments : HandleMultisig(c))

GroupFairSpec == GroupSpec /\ GroupFairness

-----------------------------------------------------------------------------
(* Properties *)

\* Every variable has its type; a hash and a raw transaction are those of an
\* output that was paid.
GroupTypeOK ==
  /\ unread \in [Users -> 0 .. MaxMessages] /\ messages \in 0 .. MaxMessages
  /\ \A u \in Users : inbox[u] \in 0 .. unread[u]
  /\ talk.at \in {"idle", "store", "answer", "acknowledge"}
  /\ talk.user \in Users /\ talk.code \in {0} \cup requested
  /\ requested \subseteq Payments
  /\ told \subseteq requested
  /\ state \in [Payments -> {"none", "pending", "paid", "refund"}]
  /\ output \in [Payments -> {"none", "unspent", "signed", "spent"}]
  /\ \A c \in Payments : {raw[c], hash[c]} \subseteq {NoTx} \cup {o \in Payments : output[o] # "none"}
  /\ signers \in [Payments -> SUBSET (Others \cup {Master})]
  /\ place \in [Payments -> Nat]
  /\ watched \subseteq RowsIn("pending") /\ due \subseteq RowsIn("paid")
  /\ refunding.at \in {"idle", "sign", "save"}
  /\ DOMAIN queue \subseteq Payments
  /\ failures \in 0 .. MaxFailures

\* A user has at most one payment that is pending, though the row is read when a
\* message comes and written after the request to the API: FindPaymentByMemo, which
\* reads one row, then reads the only one.
OnePending == \A u \in Users : Cardinality(Pending(u)) <= 1

\* A code that a user may pay has a row in the database, whatever fails between the
\* request, the row and the message: money paid with a code that the master does
\* not know would stay in the group.
ToldIsStored == \A c \in told : state[c] # "none"

\* The payments of a user that count as sent back are no more than the outputs of
\* that user that were spent: two payments with the amount and the memo of one
\* output are not both closed by the one transaction that spends it.
RefundsCovered ==
  \A u \in Users :
    Cardinality({c \in Payments : owner[c] = u /\ state[c] = "refund"})
      <= Cardinality({o \in Payments : owner[o] = u /\ output[o] = "spent"})

Other(c) == {d \in Payments \ {c} : owner[d] = owner[c] /\ state[d] # "none"}

\* the user has another payment that is pending, which holds back every output of
\* the user, or one of the same amount, which matches the same output
HeldBack(c) == \E d \in Other(c) : state[d] = "pending" \/ amount[d] = amount[c]

\* there are more rows in the state of payment c than one list takes
Crowded(c) == Cardinality(RowsIn(state[c])) > PaymentLimit

\* What was paid is in the end sent back, and the payment closed, unless the output
\* is behind those that ReadMultisigs returns, or again and again another payment of
\* the user holds it back or there are more rows than a list takes.
RefundedUnlessHeld ==
  \A c \in Payments :
    output[c] # "none" ~>
      state[c] = "refund" \/ place[c] > OutputLimit \/ HeldBack(c) \/ Crowded(c)

\* A message is in the end handled and acknowledged, as long as there are codes for
\* its user.
EventuallyAnswered ==
  \A u \in Users : unread[u] > 0 ~> (unread[u] = 0 \/ Unused(u) = {})
=============================================================================
