------------------------------- MODULE Raindex -------------------------------
(***************************************************************************)
(* RaindexV7 (src/concrete/raindex/RaindexV7.sol) and its flash lender     *)
(* (src/abstract/RaindexV7FlashLender.sol) as one state machine: every     *)
(* entry point that changes state, with the calls out of the contract      *)
(* during which others may act.                                            *)
(*                                                                         *)
(* Calls nest: "stack" holds the calls into the contract that have not     *)
(* returned.  Untrusted code runs in the windows of a call: the store of a *)
(* taken order (handleIO), onTakeOrders2, the post tasks of a call, and    *)
(* onFlashLoan.  In a window anybody may move tokens, change an allowance, *)
(* take a flash loan, and, unless the reentrancy guard is set, make any    *)
(* other call.  Any call that has not returned may revert (it runs out of  *)
(* gas, its callee reverts, a check fails), which restores the state in    *)
(* which it was made.                                                      *)
(***************************************************************************)
EXTENDS RaindexLedger, RaindexTrades, Sequences

CONSTANTS
    Orders,          \* the orders that anybody may ever add
    Evaluations,     \* what each order's calculate expression may return
    Budget,          \* what the orders of an owner may give out in total
    TaskWrites,      \* what an owner's post tasks may write over that record
    Amounts,         \* amounts offered to deposit5 and withdraw5
    TakeConfigs,     \* callers of takeOrders5 and their arguments
    Transfers,       \* plain ERC20 transfers that accounts may make
    LoanAmounts,     \* base units of a flash loan
    Approvals,       \* allowances an account may give the contract
    InitWallet, InitAllow, \* ERC20 balances and allowances at deployment
    MaxDepth         \* bound on the nesting of flash loans

IOs == [token : Tokens, vault : VaultIds]

OrderType ==
    [owner : Accounts, inputs : SUBSET IOs, outputs : SUBSET IOs,
     sources : Nat, nonce : Nat]

\* An order together with the input and the output the caller picked.
Legs == {l \in [order : Orders, in : IOs, out : IOs] :
            l.in \in l.order.inputs /\ l.out \in l.order.outputs}

TakeConfigType ==
    [taker : Accounts, legs : Seq(Legs), IOIsInput : BOOLEAN, minimumIO : Int,
     maximumIO : Int, maximumIORatio : Ratios, data : BOOLEAN]

TransferType == [from : Accounts, to : Holders, token : Tokens, amount : Nat]

ASSUME RaindexAssumption ==
    /\ Orders \subseteq OrderType
    /\ Evaluations \in [Orders -> SUBSET Calculations]
    /\ Budget \in [Accounts -> Nat]
    /\ TaskWrites \in [Accounts -> SUBSET Nat]
    /\ \A a \in Accounts : \A n \in TaskWrites[a] : n <= Budget[a]
    /\ Amounts \subseteq Int
    /\ TakeConfigs \subseteq TakeConfigType
    /\ Transfers \subseteq TransferType
    /\ LoanAmounts \subseteq Nat
    /\ Approvals \subseteq Nat
    /\ InitWallet \in [Accounts -> [Tokens -> Nat]]
    /\ InitAllow \in [Accounts -> [Tokens -> Nat]]
    /\ MaxDepth \in Nat

VARIABLES
    ledger,   \* vaults, wallets and allowances (module RaindexLedger)
    live,     \* sOrders: the orders that are ORDER_LIVE
    store,    \* the interpreter store: output recorded per owner's namespace
    entered,  \* ReentrancyGuard
    take,     \* the memory of the running takeOrders5
    stack     \* the calls that have not returned, the innermost last

vars == <<ledger, live, store, entered, take, stack>>

NoTake == [phase |-> "none"]

TakeType ==
    [phase : {"loop", "sent", "flush"}, config : TakeConfigs,
     i : Nat, remaining : Nat, totalIn : Nat, totalOut : Nat,
     taken : Seq(Legs), ext : BOOLEAN]

SavedType == [ledger : Ledgers, live : SUBSET Orders, store : [Accounts -> Nat]]

\* "lent" is what is out on flash loans while the frame is the innermost.
FrameType ==
    [kind : {"take", "post", "handle"}, caller : Accounts,
     lent : [Tokens -> Nat], saved : SavedType]
    \cup
    [kind : {"flash"}, caller : Accounts, token : Tokens, amount : Nat,
     lent : [Tokens -> Nat], saved : SavedType]

Top == stack[Len(stack)]

Below == SubSeq(stack, 1, Len(stack) - 1)

Lent == IF stack = <<>> THEN [t \in Tokens |-> 0] ELSE Top.lent

Saved == [ledger |-> ledger, live |-> live, store |-> store]

\* Untrusted code runs: between transactions, or in a call out of the contract.
Window ==
    \/ stack = <<>>
    \/ stack # <<>> /\ Top.kind \in {"post", "handle", "flash"}
    \/ stack # <<>> /\ Top.kind = "take" /\ take.ext

-----------------------------------------------------------------------------
Init ==
    /\ ledger = [vault  |-> [o \in Accounts |-> [t \in Tokens |-> [v \in VaultIds |-> 0]]],
                 wallet |-> [a \in Holders |-> IF a = Raindex THEN [t \in Tokens |-> 0]
                                               ELSE InitWallet[a]],
                 allow  |-> InitAllow,
                 dust   |-> [t \in Tokens |-> 0]]
    /\ live = {}
    /\ store = [o \in Accounts |-> 0]
    /\ entered = FALSE
    /\ take = NoTake
    /\ stack = <<>>

-----------------------------------------------------------------------------
(* The ERC20 tokens, which accounts use without the contract.              *)

Approve(a, t, n) ==
    /\ Window
    /\ ledger' = [ledger EXCEPT !.allow[a][t] = n]
    /\ UNCHANGED <<live, store, entered, take, stack>>

Transfer(x) ==
    /\ Window
    /\ x.from # x.to
    /\ x.amount <= ledger.wallet[x.from][x.token]
    /\ ledger' = [ledger EXCEPT
                    !.wallet = Moved(@, x.from, x.to, x.token, x.amount),
                    !.dust[x.token] = IF x.to = Raindex THEN @ + FromUnits(x.token, x.amount)
                                      ELSE @]
    /\ UNCHANGED <<live, store, entered, take, stack>>

-----------------------------------------------------------------------------
(* Calls, their return and their revert.                                   *)

\* Mutant: the reentrancy guard is not checked.
CanEnterUnguarded == Window

\* A nonReentrant entry point may run.
CanEnter == Window /\ ~entered

\* It has changed its state and now runs the post tasks ("post"), or the store
\* and handle IO of the orders it has cleared ("handle").
EnterAs(kind, caller) ==
    /\ entered' = TRUE
    /\ stack' = Append(stack, [kind |-> kind, caller |-> caller,
                               lent |-> Lent, saved |-> Saved])
    /\ UNCHANGED take

EnterPost(caller) == EnterAs("post", caller)

\* A post task writes to its caller's namespace of the store.
PostTask ==
    /\ stack # <<>>
    /\ Top.kind = "post"
    /\ \E n \in TaskWrites[Top.caller] : store' = [store EXCEPT ![Top.caller] = n]
    /\ UNCHANGED <<ledger, live, entered, take, stack>>

\* The tasks are done: the call returns.
PostReturn ==
    /\ stack # <<>>
    /\ Top.kind \in {"post", "handle"}
    /\ entered' = FALSE
    /\ stack' = Below
    /\ UNCHANGED <<ledger, live, store, take>>

\* The innermost call reverts.
Revert ==
    /\ stack # <<>>
    /\ ledger' = Top.saved.ledger
    /\ live' = Top.saved.live
    /\ store' = Top.saved.store
    /\ entered' = IF Top.kind = "flash" THEN entered ELSE FALSE
    /\ take' = IF Top.kind = "take" THEN NoTake ELSE take
    /\ stack' = Below

-----------------------------------------------------------------------------
(* entask3, deposit5, withdraw5, addOrder5, removeOrder4                   *)

Entask(caller) ==
    /\ CanEnter
    /\ EnterPost(caller)
    /\ UNCHANGED <<ledger, live, store>>

Deposit(caller, t, v, q) ==
    /\ CanEnter
    /\ v # 0
    /\ q > 0
    /\ CanPull(ledger, caller, t, q)
    /\ ledger' = increaseVaultBalance(pullTokens(ledger, caller, t, q), caller, t, v, q)
    /\ EnterPost(caller)
    /\ UNCHANGED <<live, store>>

Withdraw(caller, t, v, target) ==
    /\ CanEnter
    /\ v # 0
    /\ target > 0
    /\ LET q == MinOf(target, vaultBalance(ledger, caller, t, v))
           L == decreaseVaultBalance(ledger, caller, t, v, q)
       IN  /\ CanDecrease(ledger, caller, t, v, q)
           /\ CanPush(L, t, q)
           /\ ledger' = pushTokens(L, caller, t, q)
    /\ EnterPost(caller)
    /\ UNCHANGED <<live, store>>

\* Adding a live order, or removing a dead one, returns without a change.
AddOrder(order) ==
    /\ CanEnter
    /\ order.sources > 1
    /\ order.inputs # {}
    /\ order.outputs # {}
    /\ order \notin live
    /\ live' = live \cup {order}
    /\ EnterPost(order.owner)
    /\ UNCHANGED <<ledger, store>>

\* Mutant: removeOrder4 without nonReentrant.
RemoveOrderUnguarded(caller, order) ==
    /\ Window
    /\ caller = order.owner
    /\ order \in live
    /\ live' = live \ {order}
    /\ UNCHANGED <<ledger, store, entered, take, stack>>

RemoveOrder(caller, order) ==
    /\ CanEnter
    /\ caller = order.owner
    /\ order \in live
    /\ live' = live \ {order}
    /\ EnterPost(caller)
    /\ UNCHANGED <<ledger, store>>

-----------------------------------------------------------------------------
(* What an order's calculate expression yields.  The expressions modelled  *)
(* read the store of their owner and give out no more than what is left of *)
(* the owner's budget; handleIO writes what was given out.                 *)

\* Mutant: the calculation sees the store as it was before the batch.
calculateOrderIOStale(leg) ==
    LET cap == MinOf(Budget[leg.order.owner],
                     vaultBalance(ledger, leg.order.owner, leg.out.token, leg.out.vault))
    IN  {[e EXCEPT !.max = MinOf(@, cap)] : e \in Evaluations[leg.order]}

calculateOrderIO(leg) ==
    LET cap == MinOf(Budget[leg.order.owner] - store[leg.order.owner],
                     vaultBalance(ledger, leg.order.owner, leg.out.token, leg.out.vault))
    IN  {[e EXCEPT !.max = MinOf(@, cap)] : e \in Evaluations[leg.order]}

handleIO(s, leg, output) == [s EXCEPT ![leg.order.owner] = @ + output]

\* Mutant: an order that was removed is still taken.
IsLiveIgnored(order) == TRUE

\* sOrders[order.hash()] is ORDER_LIVE.
IsLive(order) == order \in live

TokenSelfTrade(leg) == leg.in.token = leg.out.token

-----------------------------------------------------------------------------
(* takeOrders5                                                             *)

InputToken(config) == config.legs[1].in.token

OutputToken(config) == config.legs[1].out.token

TakeBegin(config) ==
    /\ CanEnter
    /\ config.legs # <<>>
    /\ config.maximumIO > 0
    /\ entered' = TRUE
    /\ take' = [phase |-> "loop", config |-> config, i |-> 1,
                remaining |-> config.maximumIO, totalIn |-> 0, totalOut |-> 0,
                taken |-> <<>>, ext |-> FALSE]
    /\ stack' = Append(stack, [kind |-> "take", caller |-> config.taker,
                               lent |-> Lent, saved |-> Saved])
    /\ UNCHANGED <<ledger, live, store>>

\* takeOrders5 is the innermost call and in the given phase.
InTake(phase) ==
    /\ stack # <<>>
    /\ Top.kind = "take"
    /\ take.phase = phase

MoreOrders == take.i <= Len(take.config.legs) /\ take.remaining > 0

\* The order at hand, if it has the tokens of the batch.
Leg == take.config.legs[take.i]

LegMatches ==
    /\ Leg.in.token = InputToken(take.config)
    /\ Leg.out.token = OutputToken(take.config)
    /\ ~TokenSelfTrade(Leg)

\* A dead order, or one whose calculation is not taken, is skipped.
TakeSkip ==
    /\ InTake("loop")
    /\ MoreOrders
    /\ LegMatches
    /\ \/ ~IsLive(Leg.order)
       \/ /\ IsLive(Leg.order)
          /\ \E q \in calculateOrderIO(Leg) : ~IsTaken(q, take.config.maximumIORatio)
    /\ take' = [take EXCEPT !.i = @ + 1, !.ext = FALSE]
    /\ UNCHANGED <<ledger, live, store, entered, stack>>

\* The order is taken, recorded and handled; its handleIO is a window.
TakeOrder ==
    /\ InTake("loop")
    /\ MoreOrders
    /\ LegMatches
    /\ IsLive(Leg.order)
    /\ \E q \in calculateOrderIO(Leg) :
       LET io    == TakerIO(take.config.IOIsInput, q, take.remaining)
           spent == RelevantIO(take.config.IOIsInput, io.input, io.output)
           owner == Leg.order.owner
       IN  /\ IsTaken(q, take.config.maximumIORatio)
           /\ CanDecrease(ledger, owner, Leg.out.token, Leg.out.vault, io.input)
           /\ ledger' = recordVaultInput(recordVaultOutput(ledger, owner, Leg.out, io.input),
                                         owner, Leg.in, io.output)
           /\ store' = handleIO(store, Leg, io.input)
           /\ take' = [take EXCEPT !.i = @ + 1,
                                   !.remaining = @ - spent,
                                   !.totalIn = @ + io.input,
                                   !.totalOut = @ + io.output,
                                   !.taken = Append(@, Leg),
                                   !.ext = TRUE]
    /\ UNCHANGED <<live, entered, stack>>

\* The taker is sent its input, and called back if any order was taken.
TakeSend ==
    /\ InTake("loop")
    /\ ~MoreOrders
    /\ RelevantIO(take.config.IOIsInput, take.totalIn, take.totalOut) >= take.config.minimumIO
    /\ CanPush(ledger, OutputToken(take.config), take.totalIn)
    /\ ledger' = pushTokens(ledger, take.config.taker, OutputToken(take.config), take.totalIn)
    /\ take' = [take EXCEPT !.phase = "sent", !.i = 1,
                            !.ext = take.config.data /\ take.taken # <<>>]
    /\ UNCHANGED <<live, store, entered, stack>>

\* Mutant: the callback is trusted to have paid.
TakePayTrusted ==
    /\ InTake("sent")
    /\ take' = [take EXCEPT !.phase = "flush", !.ext = FALSE]
    /\ UNCHANGED <<ledger, live, store, entered, stack>>

\* The taker's payment is pulled.
TakePay ==
    /\ InTake("sent")
    /\ CanPull(ledger, take.config.taker, InputToken(take.config), take.totalOut)
    /\ ledger' = pullTokens(ledger, take.config.taker, InputToken(take.config), take.totalOut)
    /\ take' = [take EXCEPT !.phase = "flush", !.ext = FALSE]
    /\ UNCHANGED <<live, store, entered, stack>>

\* The vault 0 inputs are pushed to the owners, one taken order at a time.
TakeFlush ==
    /\ InTake("flush")
    /\ take.i <= Len(take.taken)
    /\ LET leg == take.taken[take.i]
       IN  /\ CanPush(ledger, leg.in.token, Accrued(ledger, leg.order.owner, leg.in))
           /\ ledger' = pushVaultZeroInput(ledger, leg.order.owner, leg.in)
    /\ take' = [take EXCEPT !.i = @ + 1]
    /\ UNCHANGED <<live, store, entered, stack>>

\* Mutant: takeOrders5 returns once the taker has paid.
TakeReturnUnflushed ==
    /\ InTake("flush")
    /\ entered' = FALSE
    /\ take' = NoTake
    /\ stack' = Below
    /\ UNCHANGED <<ledger, live, store>>

TakeReturn ==
    /\ InTake("flush")
    /\ take.i > Len(take.taken)
    /\ entered' = FALSE
    /\ take' = NoTake
    /\ stack' = Below
    /\ UNCHANGED <<ledger, live, store>>

-----------------------------------------------------------------------------
(* clear4                                                                  *)

\* Mutant: two orders of one owner may be cleared against each other.
CanMeetOneOwner(alice, bob) ==
    /\ alice.out.token = bob.in.token
    /\ bob.out.token = alice.in.token
    /\ ~TokenSelfTrade(alice)

\* The orders belong to different owners and trade the same two tokens.
CanMeet(alice, bob) ==
    /\ alice.order.owner # bob.order.owner
    /\ alice.out.token = bob.in.token
    /\ bob.out.token = alice.in.token
    /\ ~TokenSelfTrade(alice)

\* Clearing a dead order returns without a change.
Clear(caller, alice, bob, aliceBountyVault, bobBountyVault) ==
    /\ CanEnter
    /\ CanMeet(alice, bob)
    /\ IsLive(alice.order)
    /\ IsLive(bob.order)
    /\ \E p \in calculateOrderIO(alice), q \in calculateOrderIO(bob) :
        LET change == calculateClearStateChange(p, q)
            A  == alice.order.owner
            B  == bob.order.owner
            L1 == recordVaultOutput(ledger, A, alice.out, change.alice.output)
            L2 == recordVaultOutput(L1, B, bob.out, change.bob.output)
            L3 == recordVaultInput(L2, A, alice.in, change.alice.input)
            L4 == recordVaultInput(L3, B, bob.in, change.bob.input)
            L5 == pushVaultZeroInput(L4, A, alice.in)
            L6 == pushVaultZeroInput(L5, B, bob.in)
            L7 == increaseVaultBalance(L6, caller, alice.out.token, aliceBountyVault,
                                       change.aliceBounty)
        IN  /\ IsClearable(p)
            /\ IsClearable(q)
            /\ change.aliceBounty >= 0
            /\ change.bobBounty >= 0
            /\ CanDecrease(ledger, A, alice.out.token, alice.out.vault, change.alice.output)
            /\ CanDecrease(L1, B, bob.out.token, bob.out.vault, change.bob.output)
            /\ CanPush(L4, alice.in.token, Accrued(L4, A, alice.in))
            /\ CanPush(L5, bob.in.token, Accrued(L5, B, bob.in))
            /\ CanIncrease(L6, alice.out.token, aliceBountyVault, change.aliceBounty)
            /\ CanIncrease(L7, bob.out.token, bobBountyVault, change.bobBounty)
            /\ ledger' = increaseVaultBalance(L7, caller, bob.out.token, bobBountyVault,
                                              change.bobBounty)
            /\ store' = handleIO(handleIO(store, alice, change.alice.output),
                                 bob, change.bob.output)
    /\ EnterAs("handle", caller)
    /\ UNCHANGED live

-----------------------------------------------------------------------------
(* flashLoan, the one entry point without the reentrancy guard             *)

FlashLoan(receiver, t, n) ==
    /\ Window
    /\ Len(stack) < MaxDepth
    /\ CanTransferOut(ledger, t, n)
    /\ ledger' = TransferOut(ledger, receiver, t, n)
    /\ stack' = Append(stack, [kind |-> "flash", caller |-> receiver, token |-> t, amount |-> n,
                               lent |-> [Lent EXCEPT ![t] = @ + n], saved |-> Saved])
    /\ UNCHANGED <<live, store, entered, take>>

FlashRepay ==
    /\ stack # <<>>
    /\ Top.kind = "flash"
    /\ CanTransferIn(ledger, Top.caller, Top.token, Top.amount)
    /\ ledger' = TransferIn(ledger, Top.caller, Top.token, Top.amount)
    /\ stack' = Below
    /\ UNCHANGED <<live, store, entered, take>>

-----------------------------------------------------------------------------
Next ==
    \/ \E a \in Accounts, t \in Tokens, n \in Approvals : Approve(a, t, n)
    \/ \E x \in Transfers : Transfer(x)
    \/ \E a \in Accounts : Entask(a)
    \/ \E a \in Accounts, t \in Tokens, v \in VaultIds, q \in Amounts :
          \/ Deposit(a, t, v, q)
          \/ Withdraw(a, t, v, q)
    \/ \E o \in Orders : AddOrder(o)
    \/ \E a \in Accounts, o \in Orders : RemoveOrder(a, o)
    \/ \E c \in TakeConfigs : TakeBegin(c)
    \/ TakeSkip
    \/ TakeOrder
    \/ TakeSend
    \/ TakePay
    \/ TakeFlush
    \/ TakeReturn
    \/ \E a \in Accounts, p, q \in Legs, v, w \in VaultIds : Clear(a, p, q, v, w)
    \/ \E a \in Accounts, t \in Tokens, n \in LoanAmounts : FlashLoan(a, t, n)
    \/ FlashRepay
    \/ PostTask
    \/ PostReturn
    \/ Revert

Spec == Init /\ [][Next]_vars

-----------------------------------------------------------------------------
(* Properties                                                              *)

\* The state of the contract, of the running batch and of every call has its
\* type.
TypeOK ==
    /\ ledger \in Ledgers
    /\ live \subseteq Orders
    /\ store \in [Accounts -> Nat]
    /\ entered \in BOOLEAN
    /\ take \in TakeType \cup {NoTake}
    /\ stack \in Seq(FrameType)

\* What the running batch still has to bring in of token t (its taker's
\* payment) less what it still has to send (its taker's input).
Due(tk, t) ==
    CASE tk.phase = "loop" ->
            (IF t = InputToken(tk.config) THEN tk.totalOut ELSE 0)
              - (IF t = OutputToken(tk.config) THEN tk.totalIn ELSE 0)
      [] tk.phase = "sent" -> IF t = InputToken(tk.config) THEN tk.totalOut ELSE 0
      [] OTHER -> 0

Balanced(L, lent, tk) ==
    \A t \in Tokens :
        FromUnits(t, L.wallet[Raindex][t] + lent[t]) + Due(tk, t) = Owed(L, t) + L.dust[t]

\* At every moment, inside callbacks and flash loans too, the tokens that the
\* contract holds, has out on flash loans and is still due from the running
\* takeOrders5 are exactly what the vaults promise plus the rounding dust: no
\* sequence of calls creates or loses value.
BooksBalance == Balanced(ledger, Lent, take)

\* pullTokens says of itself and pushTokens: "this keeps the orderbook solvent -
\* its real token balance is always >= the sum of the vault balances".  It
\* holds whenever no call is running.
Solvent ==
    stack = <<>> => \A t \in Tokens : Owed(ledger, t) <= FromUnits(t, ledger.wallet[Raindex][t])

\* The slot of vault 0 is "always zero at rest" (_vaultBalance): every credit
\* that a batch accrues there is pushed to its owner before takeOrders5 or
\* clear4 returns.
VaultZeroEmpty ==
    take.phase = "none" =>
        \A o \in Accounts, t \in Tokens : ledger.vault[o][t][0] = 0

\* "the orderbook always holds enough": once the taker has paid, no push of a
\* vault 0 input can fail, whatever is out on flash loans.
FlushCovered ==
    take.phase = "flush" =>
        \A j \in take.i .. Len(take.taken) :
            LET leg == take.taken[j]
            IN  CanPush(ledger, leg.in.token, Accrued(ledger, leg.order.owner, leg.in))

\* No code that runs in a window of takeOrders5 can remove an order that the
\* batch has taken but not settled: the guard holds off removeOrder4.
TakenOrdersLive ==
    take.phase # "none" => \A j \in DOMAIN take.taken : take.taken[j].order \in live

\* At most one call holds the reentrancy guard, whatever flash loans surround
\* it, and the guard is released when that call returns or reverts.
GuardHeldOnce ==
    /\ \A j, k \in DOMAIN stack :
          stack[j].kind # "flash" /\ stack[k].kind # "flash" => j = k
    /\ entered <=> \E k \in DOMAIN stack : stack[k].kind # "flash"
    /\ take.phase # "none" <=> \E k \in DOMAIN stack : stack[k].kind = "take"

\* Each taken order commits its store writes before the next one calculates, so
\* orders of one owner in one batch cannot together give out more than the
\* budget each of them checks; neither can the two orders of a clear.
BudgetKept == \A o \in Accounts : store[o] <= Budget[o]

\* Over the whole batch the taker gets no more than its maximumIO and pays no
\* more than its maximumIORatio, up to a quantum of rounding per order when it
\* is the output that is bounded.
TakerTerms ==
    take.phase # "none" =>
        LET c == take.config
            r == take.config.maximumIORatio
        IN  /\ RelevantIO(c.IOIsInput, take.totalIn, take.totalOut) + take.remaining
                  = c.maximumIO
            /\ take.totalOut * r.den
                  <= r.num * (take.totalIn + (IF c.IOIsInput THEN 0 ELSE Len(take.taken)))

\* What is in a vault other than 0 goes down only in a call that its owner
\* makes, in a trade of one of the owner's live orders with that vault among
\* its outputs (which the store of the owner sees), or when a call reverts.
LoweredByOwner(o, t, v) ==
    \/ Len(stack') < Len(stack)
    \/ Len(stack') > Len(stack) /\ stack'[Len(stack')].caller = o
    \/ /\ store'[o] > store[o]
       /\ \E order \in live : order.owner = o /\ [token |-> t, vault |-> v] \in order.outputs

OwnersOnly ==
    [][\A o \in Accounts, t \in Tokens, v \in VaultIds \ {0} :
          ledger'.vault[o][t][v] < ledger.vault[o][t][v] => LoweredByOwner(o, t, v)]_vars
=============================================================================
