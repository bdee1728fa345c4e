----------------------------- MODULE RaindexArb -----------------------------
(***************************************************************************)
(* The arb contracts (src/abstract/RaindexV7ArbOrderTaker.sol,             *)
(* RaindexV7FlashBorrower.sol, src/lib/LibRaindexArb.sol,                  *)
(* LibGenericPoolExchange.sol and src/concrete/arb): what one of them      *)
(* holds and has approved at every point where other code has control.     *)
(*                                                                         *)
(* The stack holds the calls of the arb contract that are open.  Every     *)
(* step of it ends in a call that leaves the contract (Raindex, a pool, a  *)
(* token, the sender), and there anybody may run: a token with transfer    *)
(* hooks hands control to anybody.  Sender runs an arb of its own and      *)
(* trusts the pool it names; Other stands for everybody else.  A call that *)
(* reverts and whose caller goes on leaves no trace, so it is no step.     *)
(*                                                                         *)
(* The generic pool contracts make a call that their caller chose, as the  *)
(* contract itself (LibGenericPoolExchange.sol:46).  Sender's call is a    *)
(* call of a pool.  Other's may be any call: it may approve somebody, send *)
(* a token, add an order of the contract's own to Raindex or start an arb  *)
(* whose sender is the contract, and what it approves or adds stays when   *)
(* the exchange returns.  planted and orders follow what is left.          *)
(***************************************************************************)
EXTENDS Integers, Sequences, FiniteSets

CONSTANTS
    Token,     \* the ERC20 tokens
    Eth,       \* the native coin
    Raindex,   \* LibRaindexDeploy.RAINDEX_DEPLOYED_ADDRESS
    Sender,    \* the caller of an arb whose funds are followed
    Other,     \* anybody else
    Self,      \* the arb contract as the sender of a call
    Pool,      \* the pool that Sender names, or the route processor
    MaxHeld,   \* bound: units of a token that the contract holds
    MaxEth,    \* bound: units of the native coin that it holds
    MaxStray,  \* bound: coins that are stray at a time
    MaxLeft,   \* bound: approvals and orders that callers' own calls have left
    MaxDepth   \* bound: open calls of the contract

ASSUME ArbAssumption ==
    /\ Eth \notin Token
    /\ Other \notin {Raindex, Sender, Pool} /\ Self \notin {Sender, Other}
    /\ MaxHeld \in Nat \ {0} /\ MaxEth \in Nat
    /\ MaxStray \in Nat /\ MaxLeft \in Nat /\ MaxDepth \in Nat \ {0}

Coin == Token \cup {Eth}

VARIABLES
    kind,    \* the concrete contract: "generic", "route" or "flash"
    held,    \* held[c]: the contract's balance
    allow,   \* the approvals in force, pairs of token and spender
    planted, \* those of them that a call of Other's choice gave
    orders,  \* tokens that orders of the contract's own give from its wallet
    stray,   \* coins that came in where no arb was going to sweep them
    lost,    \* coins that others took during the arb of Sender that runs
    stack,   \* open calls, the innermost last
    saved    \* what the transaction's revert restores

vars == <<kind, held, allow, planted, orders, stray, lost, stack, saved>>

\* What a transaction can change for good.
Rest == [held |-> held, allow |-> allow, planted |-> planted, orders |-> orders, stray |-> stray]

Init ==
    /\ kind \in {"generic", "route", "flash"}
    /\ held = [c \in Coin |-> 0]
    /\ allow = {}
    /\ planted = {}
    /\ orders = {}
    /\ stray = {}
    /\ lost = {}
    /\ stack = <<>>
    /\ saved = Rest

Top == stack[Len(stack)]

Below == SubSeq(stack, 1, Len(stack) - 1)

\* _reentrancyGuardEntered().
Entered == \E i \in DOMAIN stack : stack[i].op = "arb"

SenderRuns == \E i \in DOMAIN stack : stack[i].op = "arb" /\ stack[i].by = Sender

\* What a revert of the transaction restores, noted by its first call.
Saved == IF stack = <<>> THEN Rest ELSE saved

\* The bound on a coin leaves room for one more unit.
Room(c) == held[c] < IF c = Eth THEN MaxEth ELSE MaxHeld

Plus(c, n) == [held EXCEPT ![c] = @ + n]

Minus(c, n) == [held EXCEPT ![c] = @ - n]

MoveTo(pc) == [stack EXCEPT ![Len(stack)].pc = pc]

\* The address that the data of a call names as spender: RouteProcessor4 for
\* the route processor's contract, else what the caller chose.
SpenderOf(by) == IF kind = "route" \/ by = Sender THEN Pool ELSE Other

InPool == stack # <<>> /\ Top.op = "exchange"

\* The contract is making a call that Other chose.
OthersCall == InPool /\ Top.spender = Other

\* arb6 and arb5 up to the call of Raindex.  Sender sends a transaction; Other
\* calls from anywhere; the contract calls itself where Other has it do so.  Bad
\* arguments (no orders, another Raindex, IOIsInput not set) revert.
arb(by, in, out, value) ==
    /\ by = Sender => stack = <<>>
    /\ by = Self => OthersCall
    /\ ~Entered
    /\ Len(stack) < MaxDepth
    /\ value > 0 => Room(Eth)
    /\ held' = Plus(Eth, value)
    /\ allow' = allow \cup {<<in, Raindex>>}
                      \cup (IF kind = "flash" THEN {<<out, Raindex>>} ELSE {})
    /\ stack' = Append(stack, [op |-> "arb", pc |-> IF kind = "flash" THEN "loan" ELSE "take",
                               by |-> by, tok |-> in, out |-> out])
    /\ saved' = Saved
    /\ UNCHANGED <<kind, planted, orders, stray, lost>>

\* LibGenericPoolExchange.exchange and the route processor's onTakeOrders2 up
\* to the call of the pool: the approval, and the native balance forwarded (the
\* route processor gets none).
exchange(frames, spender, tok, coins) ==
    /\ Len(frames) < MaxDepth
    /\ allow' = allow \cup {<<tok, spender>>}
    /\ held' = IF kind = "route" THEN coins ELSE [coins EXCEPT ![Eth] = 0]
    /\ stack' = Append(frames, [op |-> "exchange", spender |-> spender, tok |-> tok])
    /\ saved' = Saved
    /\ UNCHANGED <<kind, planted, orders, stray, lost>>

\* Mutant: the callback trusts every caller.
CallerAccepted_any(by) == TRUE

\* The check of RaindexV7ArbOrderTaker.onTakeOrders2.
CallerAccepted(by) == ~(Entered /\ by # Raindex)

\* Other calls the callback, outside an arb or from a hook inside one.
DirectCallback(tok) ==
    /\ kind # "flash"
    /\ CallerAccepted(Other)
    /\ exchange(stack, SpenderOf(Other), tok, held)

At(pc) == stack # <<>> /\ Top.op = "arb" /\ Top.pc = pc

\* Raindex.flashLoan sends the loan and calls onFlashLoan, which trades the
\* borrowed token.  A loan that anybody else starts for the contract reverts in
\* onFlashLoan (BadInitiator, BadLender).
FlashLoan ==
    /\ At("loan")
    /\ Room(Top.out)
    /\ exchange(MoveTo("take"), SpenderOf(Top.by), Top.out, Plus(Top.out, 1))

\* takeOrders5 pushes the orders' output to the contract.
TakeSends ==
    /\ At("take")
    /\ Room(Top.out)
    /\ held' = Plus(Top.out, 1)
    /\ stack' = MoveTo(IF kind = "flash" THEN "pull" ELSE "callback")
    /\ UNCHANGED <<kind, allow, planted, orders, stray, lost, saved>>

\* It calls onTakeOrders2 with what the contract received, or not at all when
\* the take carries no data.
TakeCallback ==
    /\ At("callback")
    /\ CallerAccepted(Raindex)
    /\ exchange(MoveTo("pull"), SpenderOf(Top.by), Top.out, held)

TakeNoCallback ==
    /\ At("callback")
    /\ stack' = MoveTo("pull")
    /\ UNCHANGED <<kind, held, allow, planted, orders, stray, lost, saved>>

\* It pulls the orders' input, and a loan is pulled back after that.
TakePulls ==
    /\ At("pull")
    /\ <<Top.tok, Raindex>> \in allow /\ held[Top.tok] > 0
    /\ held' = Minus(Top.tok, 1)
    /\ stack' = MoveTo(IF kind = "flash" THEN "repay" ELSE "revoke")
    /\ UNCHANGED <<kind, allow, planted, orders, stray, lost, saved>>

LoanPulls ==
    /\ At("repay")
    /\ <<Top.out, Raindex>> \in allow /\ held[Top.out] > 0
    /\ held' = Minus(Top.out, 1)
    /\ stack' = MoveTo("revoke")
    /\ UNCHANGED <<kind, allow, planted, orders, stray, lost, saved>>

\* forceApprove(spender, 0) for every pair.
TakeBack(pairs) == allow' = allow \ pairs /\ planted' = planted \ pairs

\* The approvals that arb6 and arb5 take back.
Revoked(frame) ==
    {<<frame.tok, Raindex>>} \cup (IF kind = "flash" THEN {<<frame.out, Raindex>>} ELSE {})

Revoke ==
    /\ At("revoke")
    /\ TakeBack(Revoked(Top))
    /\ stack' = MoveTo("sweepIn")
    /\ UNCHANGED <<kind, held, orders, stray, lost, saved>>

\* Mutant: the unspent input stays.
SweptAt_noInput(pc) == [sweepIn |-> Top.out, sweepOut |-> Top.out, sweepEth |-> Eth][pc]

\* The coin that each part of finalizeArb sends to the sender.
SweptAt(pc) == [sweepIn |-> Top.tok, sweepOut |-> Top.out, sweepEth |-> Eth][pc]

\* The coin stays in the contract without an arb that has to sweep it.
Strays(c) == Cardinality(stray \cup {c}) <= MaxStray /\ stray' = stray \cup {c}

\* A part of finalizeArb; the task runs after the last one and the call ends.
\* What the contract sends to itself stays.
finalizeArb(pc) ==
    /\ At(pc)
    /\ IF Top.by = Self /\ held[SweptAt(pc)] > 0
       THEN Strays(SweptAt(pc)) /\ held' = held
       ELSE stray' = stray \ {SweptAt(pc)} /\ held' = [held EXCEPT ![SweptAt(pc)] = 0]
    /\ stack' = CASE pc = "sweepIn"  -> MoveTo("sweepOut")
                  [] pc = "sweepOut" -> MoveTo("sweepEth")
                  [] pc = "sweepEth" -> Below
    /\ lost' = IF pc = "sweepEth" THEN {} ELSE lost
    /\ UNCHANGED <<kind, allow, planted, orders, saved>>

\* The pool takes the token it was approved for while it is called.
PoolPulls ==
    /\ InPool
    /\ <<Top.tok, Pool>> \in allow /\ held[Top.tok] > 0
    /\ held' = Minus(Top.tok, 1)
    /\ UNCHANGED <<kind, allow, planted, orders, stray, lost, stack, saved>>

\* Somebody else than the sender and its pool gets a unit of a coin.
Taken(c) ==
    /\ held[c] > 0
    /\ held' = Minus(c, 1)
    /\ lost' = lost \cup (IF SenderRuns THEN {c} ELSE {})
    /\ UNCHANGED <<kind, allow, planted, orders, stray, stack, saved>>

\* Other takes what it is approved for, at any time.
OtherPulls(tok) == <<tok, Other>> \in allow /\ Taken(tok)

\* takeOrders5 is running, and with it Raindex's reentrancy guard is set (a
\* flash loan alone does not set it).
RaindexEntered ==
    \E i \in DOMAIN stack : stack[i].op = "arb" /\ stack[i].pc \in {"callback", "pull"}

\* Somebody takes an order that the contract owns: Raindex pulls its output from
\* the contract, whoever the approval of Raindex was meant for.
OwnOrderTaken(tok) ==
    /\ tok \in orders /\ <<tok, Raindex>> \in allow
    /\ ~RaindexEntered
    /\ Taken(tok)

\* What a call of Other's choice may do as the contract.  It may lead to more
\* calls of the contract, so it may do several of these, and send the native coin
\* too.  A takeOrders5 or a flash loan that it starts adds nothing: coins come in
\* (Receives), the callback makes one more such call, and what Raindex pulls is
\* sent.  Taking an approval back early only forbids steps, so it is left out.
Left == Cardinality(planted) + Cardinality(orders)

CallApproves(tok, spender) ==
    /\ OthersCall /\ Left < MaxLeft
    /\ allow' = allow \cup {<<tok, spender>>}
    /\ planted' = planted \cup {<<tok, spender>>}
    /\ UNCHANGED <<kind, held, orders, stray, lost, stack, saved>>

CallSends(c) == OthersCall /\ Taken(c)

CallAddsOrder(tok) ==
    /\ OthersCall /\ Left < MaxLeft
    /\ ~RaindexEntered
    /\ orders' = orders \cup {tok}
    /\ UNCHANGED <<kind, held, allow, planted, stray, lost, stack, saved>>

\* The pool returns and its approval is taken back.
ExchangeReturns ==
    /\ InPool
    /\ TakeBack({<<Top.tok, Top.spender>>})
    /\ stack' = Below
    /\ UNCHANGED <<kind, held, orders, stray, lost, saved>>

\* What finalizeArb has still to send when the call is at this point.
Unswept(frame) ==
    IF frame.op = "exchange" THEN {}
    ELSE CASE frame.pc = "sweepOut" -> {frame.out, Eth}
           [] frame.pc = "sweepEth" -> {Eth}
           [] OTHER -> {frame.tok, frame.out, Eth}

\* The contract takes what the pool pays or anybody sends, in any coin
\* (receive(), fallback(), token transfers).  An arb that runs sweeps the coins
\* of its trade; any other coin stays where it is.
Receives(c) ==
    /\ Room(c)
    /\ held' = Plus(c, 1)
    /\ \/ (\E i \in DOMAIN stack : c \in Unswept(stack[i])) /\ stray' = stray
       \/ (\A i \in DOMAIN stack : c \notin Unswept(stack[i])) /\ Strays(c)
    /\ UNCHANGED <<kind, allow, planted, orders, lost, stack, saved>>

\* The transaction reverts with all it did.  A call that reverts alone, caught
\* by its caller, leaves what a trace without the call leaves.
Revert ==
    /\ stack # <<>>
    /\ held' = saved.held
    /\ allow' = saved.allow
    /\ planted' = saved.planted
    /\ orders' = saved.orders
    /\ stray' = saved.stray
    /\ lost' = {}
    /\ stack' = <<>>
    /\ UNCHANGED <<kind, saved>>

Next ==
    \/ \E in, out \in Token, by \in {Sender, Other, Self}, value \in {0, 1} :
          in # out /\ arb(by, in, out, value)
    \/ \E tok \in Token : DirectCallback(tok)
    \/ FlashLoan \/ TakeSends \/ TakeCallback \/ TakeNoCallback \/ TakePulls \/ LoanPulls
    \/ Revoke \/ PoolPulls \/ ExchangeReturns \/ Revert
    \/ \E pc \in {"sweepIn", "sweepOut", "sweepEth"} : finalizeArb(pc)
    \/ \E tok \in Token : OtherPulls(tok) \/ OwnOrderTaken(tok) \/ CallAddsOrder(tok)
    \/ \E tok \in Token, spender \in {Raindex, Pool, Other} : CallApproves(tok, spender)
    \/ \E c \in Coin : Receives(c) \/ CallSends(c)

Spec == Init /\ [][Next]_vars

-----------------------------------------------------------------------------
\* "This contract should be empty of all gas and tokens between uses"
\* (LibRaindexArb.sol): when no call is open the contract's own approvals are
\* all taken back and it holds only coins that no arb had to sweep, whatever the
\* pool kept or returned and wherever a call reverted.  What a caller had it
\* approve in its own name may be left (line 47 of LibGenericPoolExchange.sol
\* takes back one pair); the route processor's contract, which calls nothing of
\* the caller's choice, leaves nothing.
EmptyBetweenUses ==
    stack = <<>> =>
        /\ allow = planted
        /\ kind = "route" => planted = {} /\ orders = {}
        /\ \A c \in Coin : held[c] > 0 => c \in stray

\* During Sender's arb the contract holds the sender's coins and has approved
\* Raindex and the pool.  Nobody else gets a right over them while it runs, from
\* whichever hook or callback they call in (onTakeOrders2 is open to anybody
\* between uses): no approval and no order is new, and a coin that others took
\* was open to them, by an approval or an order that an earlier caller's call
\* left, before the arb began.
OnlyOwnSteps ==
    SenderRuns =>
        /\ \A tok \in Token : <<tok, Other>> \in allow => <<tok, Other>> \in saved.allow
        /\ orders \subseteq saved.orders
        /\ \A c \in lost : <<c, Other>> \in saved.allow \/ c \in saved.orders
=============================================================================
