------------------------------ MODULE Registry ------------------------------
(***************************************************************************)
(* The group contract and the contracts it creates, one User for every     *)
(* group of receivers and one Asset for every Mixin asset.                 *)
(*                                                                         *)
(*   mvm/quorum/registry/contracts/Registry.sol   mixin, claim, burn, halt *)
(*   mvm/quorum/registry/contracts/User.sol       run, handle              *)
(*   mvm/quorum/registry/contracts/Asset.sol      the token of an asset    *)
(*   mvm/quorum/registry/contracts/Factory.sol    users                    *)
(*                                                                         *)
(* A transaction of the chain is atomic, but the contracts leave their own *)
(* code in two places: User.handle calls what the list of an event names,  *)
(* and sendMixinTransaction calls the Storage that an extra names, between *)
(* reading a balance and writing it.  The code that runs there may call    *)
(* the contracts again.  So a transaction is a stack of open calls here,   *)
(* and a call that reverts restores the ledger it began with.              *)
(***************************************************************************)
EXTENDS Integers, Sequences, FiniteSets, Functions

CONSTANTS
  Users,       \* receivers, each with its User contract
  Processes,   \* contracts of developers
  Greedy,      \* those that use up the gas of a transaction, by themselves, by
               \* what they call, or by returning more than can be copied
  Assets,
  Events,      \* the group events, in the order of their nonces: records of
               \* user, asset, amount, and the list of calls in the extra.  ref
               \* is TRUE when the extra only refers to a Storage; lists are
               \* then the lists it may return, otherwise there is one list.
  MaxAmount,   \* bound on the amount of a token call
  MaxEmpty,    \* bound on OUTBOUND while the amount of a token call is zero
  MaxHalts,    \* bound on the calls of halt
  MaxDepth,    \* bound on the calls open at a time
  System,      \* as a call of a list: the Registry or an Asset itself
  None

Holders == Users \cup Processes

\* An entry of a list: to is None when the address is cut off, input is FALSE
\* when the input after it is.
Entries == [to : Holders \cup {System, None}, input : BOOLEAN]
Lists == [count : Nat, calls : Seq(Entries)]

ASSUME RegistryAssumption ==
  /\ Users \cap Processes = {}
  /\ IsFiniteSet(Users) /\ IsFiniteSet(Processes)
  /\ Greedy \subseteq Processes
  /\ Events \in Seq([user : Users, asset : Assets, amount : Nat, ref : BOOLEAN,
                     lists : SUBSET Lists])
  /\ MaxAmount \in Nat
  /\ MaxEmpty \in Nat
  /\ MaxHalts \in Nat
  /\ MaxDepth \in Nat
  /\ System \notin Holders /\ None \notin Holders /\ System # None

VARIABLES
  ledger,  \* storage of the contracts:
           \*   inbound, outbound  INBOUND and OUTBOUND
           \*   halted             HALTED
           \*   users              users the Factory has created
           \*   custody            balances of the Registry, by asset
           \*   supply             totalSupply of an Asset
           \*   token              balances of an Asset, by holder
           \*   allowed            allowed of an Asset, by owner and spender
           \* and what the properties compare it with:
           \*   halts              calls of halt so far
           \*   sent, logged       amounts and nonces of MixinTransaction
           \*   building           burned for transactions still being built
           \*   open               assets with a transaction being built
           \*   due                minted for events whose run has not ended
           \*   nested             assets whose balance was changed while a
           \*                      transaction with it was being built
           \*   crossed            a transaction was built within another
           \*   given, taken       amounts a user has approved for a spender,
           \*                      and that the spender has transferred
           \*   loose              users that tokens came to, or went from,
           \*                      otherwise than by an event and its claim
  stack    \* the open calls, the innermost last

vars == <<ledger, stack>>

NoTokens == [a \in Assets |-> 0]
NoPairs == [a \in Assets |-> [u \in Users |-> [h \in Holders |-> 0]]]

EmptyLedger ==
  [inbound |-> 0, outbound |-> 0, halted |-> FALSE, halts |-> 0, users |-> {},
   custody |-> NoTokens, supply |-> NoTokens,
   token |-> [a \in Assets |-> [h \in Holders |-> 0]],
   allowed |-> NoPairs,
   sent |-> NoTokens, logged |-> {}, building |-> NoTokens, open |-> {},
   due |-> [a \in Assets |-> [u \in Users |-> 0]],
   nested |-> {}, crossed |-> FALSE,
   given |-> NoPairs, taken |-> NoPairs,
   loose |-> [a \in Assets |-> {}]]

Init ==
  /\ ledger = EmptyLedger
  /\ stack = <<>>

-----------------------------------------------------------------------------
(* The open calls. *)

Top == stack[Len(stack)]
Below == SubSeq(stack, 1, Len(stack) - 1)

\* User.run is the innermost call, in this stage
InStage(stage) == stack # <<>> /\ Top.kind = "run" /\ Top.stage = stage

\* stg.write is the innermost call
InWrite == stack # <<>> /\ Top.kind = "write"

\* Contracts of developers act in transactions of their own, when they are
\* called by a list, and as a Storage.
ProcessRuns == stack = <<>> \/ InWrite \/ InStage("process")

\* This holder makes a call: a user does when its list names the Registry or
\* an Asset.
Calls(h) == IF h \in Users THEN InStage("own") /\ Top.event.user = h ELSE ProcessRuns

Called == ProcessRuns \/ InStage("own")

\* A call into the contracts returns to this stack of open calls; a user makes
\* only one.
Returned(s) ==
  LET n == Len(s)
  IN IF n > 0 /\ s[n].kind = "run" /\ s[n].stage = "own"
     THEN [s EXCEPT ![n] = [s[n] EXCEPT !.stage = "done"]] ELSE s

-----------------------------------------------------------------------------
(* What the calls between the contracts do to the ledger. *)

Building(l) == l.open # {}

\* the balance of an asset changes
Touched(l, a) == IF a \in l.open THEN l.nested \cup {a} ELSE l.nested

\* Asset.burn
Burned(l, a, u, v) == [l EXCEPT !.token[a][u] = @ - v, !.supply[a] = @ - v]

\* the burned amount stays in the balances of the Registry
MutantSend(l, a, u, v) ==
  [Burned(l, a, u, v) EXCEPT
     !.outbound = @ + 1, !.sent[a] = @ + v,
     !.logged = @ \cup {l.outbound}, !.nested = Touched(l, a),
     !.crossed = @ \/ Building(l)]

\* Asset.burn and sendMixinTransaction without a call of a Storage: the tokens
\* of a user are burned and the group is asked to pay them out.
BurnAndSend(l, a, u, v) ==
  [Burned(l, a, u, v) EXCEPT
     !.custody[a] = @ - v, !.outbound = @ + 1, !.sent[a] = @ + v,
     !.logged = @ \cup {l.outbound}, !.nested = Touched(l, a),
     !.crossed = @ \/ Building(l)]

\* Asset.burn and sendMixinTransaction up to stg.write
BurnAndBuild(l, a, u, v) ==
  [Burned(l, a, u, v) EXCEPT
     !.building[a] = @ + v, !.open = @ \cup {a}, !.nested = Touched(l, a),
     !.crossed = @ \/ Building(l)]

\* the checked subtractions of a claim, or of a burn after a transfer
CanSend(l, a, u, v) == l.token[a][u] >= v /\ l.supply[a] >= v /\ l.custody[a] >= v

\* tokens change hands
Moved(l, a, from, to, v) ==
  LET less == [l.token[a] EXCEPT ![from] = @ - v]
      more == [less EXCEPT ![to] = @ + v]
      ends == {from} \cup ({to} \ l.users)
  IN [l EXCEPT !.token[a] = more,
               !.loose[a] = @ \cup (IF v > 0 THEN ends \cap Users ELSE {})]

\* _transfer and burn: what a user receives is paid out at once, but not
\* before its contract exists.
Transferred(l, a, from, to, v) ==
  LET moved == Moved(l, a, from, to, v)
  IN IF to \in l.users THEN BurnAndSend(moved, a, to, v) ELSE moved

\* the checked subtractions of a transfer
CanTransfer(l, a, from, to, v) ==
  /\ l.token[a][from] >= v
  /\ to \in l.users => l.supply[a] >= v /\ l.custody[a] >= v

\* mixin up to User.run: the nonce, getOrCreateUserContract, the balance and
\* Asset.mint
Credited(l, e) ==
  [l EXCEPT !.inbound = @ + 1, !.users = @ \cup {e.user},
            !.custody[e.asset] = @ + e.amount,
            !.supply[e.asset] = @ + e.amount,
            !.token[e.asset][e.user] = @ + e.amount,
            !.due[e.asset][e.user] = @ + e.amount,
            !.nested = Touched(l, e.asset)]

\* Asset.approve of an amount by a user
Approved(l, a, u, h, v) ==
  [l EXCEPT !.allowed[a][u][h] = v, !.given[a][u][h] = @ + v]

\* claim of the amount of an event
Claimed(l, e) ==
  [BurnAndSend(l, e.asset, e.user, e.amount) EXCEPT
     !.due[e.asset][e.user] = @ - e.amount]

\* the claim at the end of run fails: for lack of tokens, or of gas
Unclaimed(l, e) ==
  [l EXCEPT !.due[e.asset][e.user] = @ - e.amount,
            !.loose[e.asset] = IF CanSend(l, e.asset, e.user, e.amount)
                               THEN @ \cup {e.user} ELSE @]

-----------------------------------------------------------------------------
MaxProcesses == 16

\* Registry.mixin of the next event, up to the loop of User.run.  Without a
\* valid count the amount is claimed at once.  A reference to a Storage that
\* cannot be read reverts the call.
Mixin ==
  /\ Called
  /\ ~ ledger.halted
  /\ ledger.inbound < Len(Events)
  /\ LET e == Events[ledger.inbound + 1]
         l == Credited(ledger, e)
     IN \E list \in e.lists :
          IF list.count \in 1 .. MaxProcesses
          THEN /\ Len(stack) < MaxDepth
               /\ ledger' = l
               /\ stack' = Append(stack,
                    [kind |-> "run", event |-> e, count |-> list.count,
                     rest |-> list.calls, first |-> TRUE, greedy |-> FALSE,
                     stage |-> "loop", before |-> ledger, saved |-> l])
          ELSE /\ CanSend(l, e.asset, e.user, e.amount)
               /\ ledger' = Claimed(l, e)
               /\ stack' = Returned(stack)

\* what process.call of an entry runs; another User refuses run, and has
\* nothing else that changes its state
Target(entry) ==
  IF entry.to = None \/ ~ entry.input THEN {"claim"}
  ELSE IF entry.to \in Processes THEN {"process"}
  ELSE IF entry.to = System THEN {"own"} ELSE {"done", "claim"}

\* handle up to process.call: the first process of a list is approved for the
\* amount, and an entry that is cut off ends the loop.  The call uses the gas
\* of the transaction.
Handle ==
  /\ InStage("loop")
  /\ Top.rest # <<>>
  /\ LET entry == Head(Top.rest)
         e == Top.event
     IN /\ ledger' = IF Top.first /\ entry.to \in Holders
                     THEN Approved(ledger, e.asset, e.user, entry.to, e.amount)
                     ELSE ledger
        /\ \E stage \in Target(entry) :
             stack' = [stack EXCEPT ![Len(stack)] =
                         [Top EXCEPT !.stage = stage, !.saved = ledger',
                                     !.greedy = @ \/ entry.to \in Greedy \cup {System}]]

\* the loop goes on behind an entry
Advanced(f) ==
  [f EXCEPT !.stage = "loop", !.first = FALSE, !.count = @ - 1, !.rest = Tail(@)]

\* the count is not checked against the list before the process is called,
\* and only its own effects are undone
MutantReturns ==
  /\ InStage("process") \/ InStage("done")
  /\ IF Top.count = 0
     THEN /\ ledger' = [Top.saved EXCEPT !.inbound = Top.before.inbound]
          /\ stack' = Below
     ELSE UNCHANGED ledger /\ stack' = [stack EXCEPT ![Len(stack)] = Advanced(Top)]

\* process.call succeeds.  The loop runs on while there is input, whatever the
\* count, which may not pass zero: then everything since mixin is reverted.
ProcessReturns ==
  /\ InStage("process") \/ InStage("done")
  /\ IF Top.count = 0
     THEN ledger' = Top.before /\ stack' = Below
     ELSE UNCHANGED ledger /\ stack' = [stack EXCEPT ![Len(stack)] = Advanced(Top)]

\* process.call fails and its effects are undone.
ProcessReverts ==
  /\ InStage("process") \/ InStage("own")
  /\ ledger' = Top.saved
  /\ stack' = [stack EXCEPT ![Len(stack)] = [Top EXCEPT !.stage = "claim"]]

\* The gas is used up: mixin reverts, and with it the whole transaction when it
\* is the outermost call.
OutOfGas ==
  /\ \E stage \in {"loop", "process", "own", "done", "claim"} : InStage(stage)
  /\ Top.greedy
  /\ ledger' = Top.before
  /\ stack' = Below

\* the amount is not claimed after a failed process
MutantFinish ==
  /\ \/ InStage("claim") /\ ledger' = [ledger EXCEPT !.due = Top.before.due]
     \/ /\ InStage("loop") /\ Top.rest = <<>>
        /\ LET e == Top.event
           IN ledger' = IF CanSend(ledger, e.asset, e.user, e.amount)
                        THEN Claimed(ledger, e) ELSE Unclaimed(ledger, e)
  /\ stack' = Returned(Below)


\* The end of run: the last claim, in a try.  After a greedy process the gas
\* that is left may not be enough for it.
Finish ==
  /\ InStage("claim") \/ (InStage("loop") /\ Top.rest = <<>>)
  /\ LET e == Top.event
         can == CanSend(ledger, e.asset, e.user, e.amount)
     IN \/ can /\ ledger' = Claimed(ledger, e)
        \/ (~ can \/ Top.greedy) /\ ledger' = Unclaimed(ledger, e)
  /\ stack' = Returned(Below)

\* Asset.transfer
Transfer(h, a, to, v) ==
  /\ Calls(h)
  /\ CanTransfer(ledger, a, h, to, v)
  /\ ledger' = Transferred(ledger, a, h, to, v)
  /\ stack' = Returned(stack)

\* an allowance is used up by what is taken
Spent(l, a, u, h, v) ==
  [l EXCEPT !.allowed[a][u][h] = @ - v, !.taken[a][u][h] = @ + v]

\* the allowance is checked and not reduced
MutantTransferFrom(h, a, u, to, v) ==
  /\ Calls(h)
  /\ ledger.allowed[a][u][h] >= v
  /\ CanTransfer(ledger, a, u, to, v)
  /\ ledger' = Transferred([ledger EXCEPT !.taken[a][u][h] = @ + v], a, u, to, v)
  /\ stack' = Returned(stack)

\* Asset.transferFrom of the tokens of a user that has approved the caller
TransferFrom(h, a, u, to, v) ==
  /\ Calls(h)
  /\ ledger.allowed[a][u][h] >= v
  /\ CanTransfer(ledger, a, u, to, v)
  /\ ledger' = Transferred(Spent(ledger, a, u, h, v), a, u, to, v)
  /\ stack' = Returned(stack)

\* Asset.transferFrom of the tokens of a process by a user: what a process has
\* approved is not kept, any amount may be.
TransferFromProcess(u, a, p, to, v) ==
  /\ Calls(u)
  /\ CanTransfer(ledger, a, p, to, v)
  /\ ledger' = Transferred(ledger, a, p, to, v)
  /\ stack' = Returned(stack)

\* Asset.transferWithExtra to a user, with an extra that names a Storage: the
\* balance and the nonce are read, and stg.write is called.
TransferWithExtra(h, a, to, v) ==
  /\ Calls(h)
  /\ to \in ledger.users
  /\ ledger.token[a][h] >= v
  /\ ledger.supply[a] >= v
  /\ Len(stack) < MaxDepth
  /\ ledger' = BurnAndBuild(Moved(ledger, a, h, to, v), a, to, v)
  /\ stack' = Append(stack, [kind |-> "write", asset |-> a, amount |-> v,
                             balance |-> ledger.custody[a],
                             nonce |-> ledger.outbound, before |-> ledger])

\* stg.write returns: the balance that was read is written, less the amount;
\* OUTBOUND is read again.
WriteReturns ==
  /\ InWrite
  /\ Top.balance >= Top.amount
  /\ ledger' = [ledger EXCEPT !.custody[Top.asset] = Top.balance - Top.amount,
                              !.outbound = @ + 1,
                              !.sent[Top.asset] = @ + Top.amount,
                              !.logged = @ \cup {Top.nonce},
                              !.building[Top.asset] = @ - Top.amount,
                              !.open = Top.before.open]
  /\ stack' = Returned(Below)

\* the nonce of a transaction that was not sent is used up
MutantWriteReverts ==
  /\ InWrite
  /\ ledger' = [Top.before EXCEPT !.outbound = @ + 1]
  /\ stack' = Below

\* stg.write fails, or the balance read before is less than the amount
WriteReverts ==
  /\ InWrite
  /\ ledger' = Top.before
  /\ stack' = Below

\* Asset.approve by a user
Approve(u, a, h, v) ==
  /\ Calls(u)
  /\ v = 0 \/ ledger.allowed[a][u][h] = 0
  /\ ledger' = Approved(ledger, a, u, h, v)
  /\ stack' = Returned(stack)

\* Registry.claim by a user
Claim(u, a, v) ==
  /\ Calls(u)
  /\ CanSend(ledger, a, u, v)
  /\ ledger' = [BurnAndSend(ledger, a, u, v) EXCEPT
                  !.loose[a] = IF v > 0 THEN @ \cup {u} ELSE @]
  /\ stack' = Returned(stack)

\* Registry.halt, with the signature of the group; anyone may bring it
Halt ==
  /\ Called
  /\ ledger.halts < MaxHalts
  /\ ledger' = [ledger EXCEPT !.halts = @ + 1, !.halted = ~ @]
  /\ stack' = Returned(stack)

\* the amounts of the calls of an Asset, and of claim
CallAmounts == IF ledger.outbound < MaxEmpty THEN 0 .. MaxAmount ELSE 1 .. MaxAmount

TokenCall ==
  \E h \in Holders, a \in Assets, to \in Holders, v \in CallAmounts :
    \/ Transfer(h, a, to, v)
    \/ TransferWithExtra(h, a, to, v)
    \/ \E u \in Users : TransferFrom(h, a, u, to, v)

UserCall ==
  \E u \in Users, a \in Assets :
    \/ \E h \in Holders, v \in 0 .. MaxAmount : Approve(u, a, h, v)
    \/ \E v \in CallAmounts :
         \/ Claim(u, a, v)
         \/ \E p \in Processes, to \in Holders : TransferFromProcess(u, a, p, to, v)

ExternalEnds == ProcessReturns \/ ProcessReverts \/ WriteReturns \/ WriteReverts

Next ==
  \/ Mixin \/ Handle \/ Finish \/ OutOfGas
  \/ ExternalEnds
  \/ TokenCall \/ UserCall
  \/ Halt

Spec == Init /\ [][Next]_vars

\* the next event needs nothing but its own data
Readable == ledger.inbound < Len(Events) /\ ~ Events[ledger.inbound + 1].ref

\* The publishers send the next event again and again until it is taken, between
\* the transactions of others, and a call at any depth ends: its gas is limited.
Fairness ==
  /\ SF_vars(stack = <<>> /\ Readable /\ Mixin)
  /\ WF_vars(Handle)
  /\ WF_vars(Finish)
  /\ \A d \in 1 .. MaxDepth : SF_vars(Len(stack) = d /\ ExternalEnds)

FairSpec == Spec /\ Fairness

-----------------------------------------------------------------------------
Amounts == [Assets -> Nat]
Pairs == [Assets -> [Users -> [Holders -> Nat]]]

Ledgers ==
  [inbound : 0 .. Len(Events), outbound : Nat, halted : BOOLEAN,
   halts : 0 .. MaxHalts, users : SUBSET Users,
   custody : Amounts, supply : Amounts, token : [Assets -> [Holders -> Nat]],
   allowed : Pairs, sent : Amounts, logged : SUBSET Nat, building : Amounts,
   open : SUBSET Assets, due : [Assets -> [Users -> Nat]],
   nested : SUBSET Assets, crossed : BOOLEAN,
   given : Pairs, taken : Pairs, loose : [Assets -> SUBSET Users]]

Runs ==
  [kind : {"run"}, event : {Events[i] : i \in DOMAIN Events}, count : Nat,
   rest : Seq(Entries), first : BOOLEAN, greedy : BOOLEAN,
   stage : {"loop", "process", "own", "done", "claim"},
   before : Ledgers, saved : Ledgers]

Writes ==
  [kind : {"write"}, asset : Assets, amount : Nat, balance : Nat, nonce : Nat,
   before : Ledgers]

\* Types of all the variables: no balance, allowance or counter of the contracts
\* ever goes below zero.
TypeOK ==
  /\ ledger \in Ledgers
  /\ stack \in Seq(Runs \cup Writes)
  /\ Len(stack) <= MaxDepth

\* What the Registry holds of an asset (balances) is what the Asset has issued
\* (totalSupply) and what is burned and about to be sent, also in the middle of
\* a call; unless the asset came or went while a Storage was being written for
\* it, when the balance read before is written back.
SupplyInCustody ==
  \A a \in Assets \ ledger.nested :
    ledger.custody[a] = ledger.supply[a] + ledger.building[a]

\* what the first n events bring of an asset
EventAmounts == [i \in DOMAIN Events |-> Events[i].amount]
Arrived(n, a) == SumFunctionOnSet(EventAmounts, {i \in 1 .. n : Events[i].asset = a})

\* Everything that came with the events taken so far has one holder, is about to
\* be sent or was sent out, once; whatever the processes, the lists of users and
\* the Storages call, and whatever reverts.
NothingLost ==
  \A a \in Assets :
    SumFunctionOnSet(ledger.token[a], Holders) + ledger.building[a] + ledger.sent[a]
      = Arrived(ledger.inbound, a)

\* Every MixinTransaction has a nonce of its own and none is left out, unless one
\* was built while a Storage was being written for another.
NoncesOnce == ledger.crossed \/ ledger.logged = 0 .. ledger.outbound - 1

\* A spender takes no more of the tokens of a user than the events of this user
\* approved for it, by the first entry of their lists or by a call to the Asset
\* as an entry of them.
TakenWithinGiven ==
  \A a \in Assets, u \in Users, h \in Holders :
    ledger.taken[a][u][h] + ledger.allowed[a][u][h] <= ledger.given[a][u][h]

\* The User contract is a passage: between transactions it has no tokens.  The
\* exceptions: its list moved some of them or let them be taken, they came before
\* it was created, the gas did not reach for the claim, or the balance of the
\* Registry is not what was issued.
UserKeepsNothing ==
  stack = <<>> =>
    \A a \in Assets, u \in Users :
      ledger.token[a][u] = 0 \/ u \in ledger.loose[a] \/ a \in ledger.nested

\* an event that needs no Storage, whose list has no more complete entries than
\* its count allows and calls neither a greedy process nor the contracts
\* themselves
WellFormed(e) ==
  /\ ~ e.ref
  /\ e.lists # {}
  /\ \A list \in e.lists :
       list.count \in 1 .. MaxProcesses =>
         /\ Cardinality({i \in DOMAIN list.calls :
              \A j \in 1 .. i : list.calls[j].to # None /\ list.calls[j].input})
              <= list.count
         /\ \A i \in DOMAIN list.calls : list.calls[i].to \notin Greedy \cup {System}


=============================================================================
