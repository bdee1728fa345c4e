---------------------------- MODULE RaindexProofs ----------------------------
(***************************************************************************)
(* The theorems about module Raindex: for all accounts, tokens, orders and *)
(* arguments, any depth of flash loans and any batch of orders.            *)
(***************************************************************************)
EXTENDS RaindexInvariant

\* Nothing is owed when every vault is empty.
LEMMA NothingOwed ==
    ASSUME NEW L, NEW t \in Tokens,
           \A o \in Accounts, v \in VaultIds : L.vault[o][t][v] = 0
    PROVE  Owed(L, t) = 0
<1> DEFINE f == Balances(L, t)
<1>1. DOMAIN f = Accounts \X VaultIds /\ \A k \in DOMAIN f : f[k] = 0
  BY DEF Balances
<1>2. \A k \in DOMAIN f : {k} \X (1 .. f[k]) = {}
  BY <1>1
<1>3. Pile(f) = {}
  BY <1>2 DEF Pile
<1> QED
  BY <1>3, FS_EmptySet DEF Owed, Total

LEMMA InitInductive == Init => Inductive
<1> SUFFICES ASSUME Init PROVE Inductive
  OBVIOUS
<1>1. /\ live = {} /\ store = [o \in Accounts |-> 0] /\ entered = FALSE
      /\ take = NoTake /\ stack = <<>>
  BY DEF Init
<1>2. /\ ledger \in Ledgers
      /\ \A o \in Accounts, t \in Tokens, v \in VaultIds : ledger.vault[o][t][v] = 0
      /\ \A t \in Tokens : ledger.wallet[Raindex][t] = 0 /\ ledger.dust[t] = 0
  <2> DEFINE V == [o \in Accounts |-> [t \in Tokens |-> [v \in VaultIds |-> 0]]]
             W == [a \in Holders |-> IF a = Raindex THEN [t \in Tokens |-> 0] ELSE InitWallet[a]]
             D == [t \in Tokens |-> 0]
  <2>1. ledger = [vault |-> V, wallet |-> W, allow |-> InitAllow, dust |-> D]
    BY DEF Init
  <2>2. /\ V \in [Accounts -> [Tokens -> [VaultIds -> Nat]]]
        /\ \A o \in Accounts, t \in Tokens, v \in VaultIds : V[o][t][v] = 0
    OBVIOUS
  <2>3. W \in [Holders -> [Tokens -> Nat]] /\ \A t \in Tokens : W[Raindex][t] = 0
    BY RaindexAssumption DEF Holders
  <2>4. D \in [Tokens -> Nat] /\ \A t \in Tokens : D[t] = 0
    OBVIOUS
  <2>5. InitAllow \in [Accounts -> [Tokens -> Nat]]
    BY RaindexAssumption
  <2> HIDE DEF V, W, D
  <2> QED
    BY <2>1, <2>2, <2>3, <2>4, <2>5 DEF Ledgers
<1>3. TypeOK
  <2>1. <<>> \in Seq(FrameType)
    BY EmptySeq
  <2> QED
    BY <1>1, <1>2, <2>1 DEF TypeOK
<1>4. Len(stack) = 0
  BY <1>1
<1>5. Guarded(stack, entered, take)
  BY <1>1, <1>4, NoTakePhase DEF Guarded
<1>6. BatchOK(take)
  BY <1>1, NoTakePhase DEF BatchOK
<1>7. Restorable(stack, take)
  BY <1>4 DEF Restorable
<1>8. Balanced(ledger, Lent, take)
  <2>1. ASSUME NEW t \in Tokens
        PROVE  FromUnits(t, ledger.wallet[Raindex][t] + Lent[t]) + Due(take, t)
                 = Owed(ledger, t) + ledger.dust[t]
    <3>1. Owed(ledger, t) = 0
      BY <1>2, NothingOwed
    <3>2. Lent[t] = 0
      BY <1>1 DEF Lent
    <3>3. FromUnits(t, 0) = 0
      BY LedgerAssumption DEF FromUnits
    <3>4. Due(take, t) = 0
      BY <1>1, DueNoTake
    <3> QED
      BY <1>2, <3>1, <3>2, <3>3, <3>4
  <2> QED
    BY <2>1 DEF Balanced
<1>9. Sound(Saved, Lent, take)
  <2>1. SlotsAccrued(ledger, take)
    BY <1>2, LedgerAssumption DEF SlotsAccrued
  <2>2. \A o \in Accounts : store[o] <= Budget[o]
    BY <1>1, RaindexAssumption
  <2>3. Saved.ledger = ledger /\ Saved.store = store
    BY DEF Saved
  <2> QED
    BY <1>1, <1>8, <2>1, <2>2, <2>3, NoTakePhase DEF Sound
<1> QED
  BY <1>3, <1>5, <1>6, <1>7, <1>9 DEF Inductive

LEMMA NextInductive == Inductive /\ [Next]_vars => Inductive'
<1> SUFFICES ASSUME Inductive, [Next]_vars PROVE Inductive'
  OBVIOUS
<1>1. ASSUME NEW a \in Accounts, NEW t \in Tokens, NEW n \in Approvals, Approve(a, t, n)
      PROVE  Inductive'
  BY <1>1, ApproveStep
<1>2. ASSUME NEW x \in Transfers, Transfer(x) PROVE Inductive'
  BY <1>2, TransferStep
<1>3. ASSUME NEW a \in Accounts, Entask(a) PROVE Inductive'
  BY <1>3, EntaskStep
<1>4. ASSUME NEW a \in Accounts, NEW t \in Tokens, NEW v \in VaultIds, NEW q \in Amounts,
             Deposit(a, t, v, q)
      PROVE  Inductive'
  BY <1>4, DepositStep
<1>5. ASSUME NEW a \in Accounts, NEW t \in Tokens, NEW v \in VaultIds, NEW q \in Amounts,
             Withdraw(a, t, v, q)
      PROVE  Inductive'
  BY <1>5, WithdrawStep
<1>6. ASSUME NEW o \in Orders, AddOrder(o) PROVE Inductive'
  BY <1>6, AddOrderStep
<1>7. ASSUME NEW a \in Accounts, NEW o \in Orders, RemoveOrder(a, o) PROVE Inductive'
  BY <1>7, RemoveOrderStep
<1>8. ASSUME NEW c \in TakeConfigs, TakeBegin(c) PROVE Inductive'
  BY <1>8, TakeBeginStep
<1>9. CASE TakeSkip
  BY <1>9, TakeSkipStep
<1>10. CASE TakeOrder
  BY <1>10, TakeOrderStep
<1>11. CASE TakeSend
  BY <1>11, TakeSendStep
<1>12. CASE TakePay
  BY <1>12, TakePayStep
<1>13. CASE TakeFlush
  BY <1>13, TakeFlushStep
<1>14. CASE TakeReturn
  BY <1>14, TakeReturnStep
<1>15. ASSUME NEW a \in Accounts, NEW p \in Legs, NEW q \in Legs,
              NEW v \in VaultIds, NEW w \in VaultIds, Clear(a, p, q, v, w)
       PROVE  Inductive'
  BY <1>15, ClearStep
<1>16. ASSUME NEW a \in Accounts, NEW t \in Tokens, NEW n \in LoanAmounts, FlashLoan(a, t, n)
       PROVE  Inductive'
  BY <1>16, FlashLoanStep
<1>17. CASE FlashRepay
  BY <1>17, FlashRepayStep
<1>18. CASE PostReturn
  BY <1>18, PostReturnStep
<1>19. CASE Revert
  BY <1>19, RevertStep
<1>20. CASE PostTask
  BY <1>20, PostTaskStep
<1>21. CASE UNCHANGED vars
  <2>1. /\ ledger' = ledger /\ live' = live /\ store' = store /\ entered' = entered
        /\ take' = take /\ stack' = stack
    BY <1>21 DEF vars
  <2>2. Lent' = Lent /\ Saved' = Saved
    BY <2>1 DEF Lent, Top, Saved
  <2> QED
    BY <2>1, <2>2 DEF Inductive, TypeOK
<1> QED
  BY <1>1, <1>2, <1>3, <1>4, <1>5, <1>6, <1>7, <1>8, <1>9, <1>10, <1>11, <1>12, <1>13,
     <1>14, <1>15, <1>16, <1>17, <1>18, <1>19, <1>20, <1>21 DEF Next

\* Every reachable state, and every state that a pending call would restore, is
\* well typed, holds the guard at most once and has balanced books: a revert
\* anywhere in a nest of calls is as safe as a return.
THEOREM AlwaysInductive == Spec => []Inductive
  BY InitInductive, NextInductive, PTL DEF Spec

-----------------------------------------------------------------------------
(* What the inductive invariant says of the current state.                 *)

\* The state of the contract, of the running batch and of every pending call
\* has its type; in particular no vault balance or wallet ever goes below zero.
THEOREM TypeCorrect == Spec => []TypeOK
<1>1. Inductive => TypeOK
  BY DEF Inductive
<1> QED
  BY <1>1, AlwaysInductive, PTL

\* No sequence of calls, callbacks, flash loans and reverts creates or loses
\* value: the contract's tokens, its loans and what the batch is due are what
\* the vaults promise plus the dust of pullTokens and pushTokens.
THEOREM BooksAlwaysBalance == Spec => []BooksBalance
<1>1. Inductive => BooksBalance
  BY DEF Inductive, Sound, Saved, BooksBalance
<1> QED
  BY <1>1, AlwaysInductive, PTL

LEMMA QuietIsIdle ==
    ASSUME Inductive, stack = <<>>
    PROVE  take.phase = "none"
<1>1. Guarded(stack, entered, take) /\ Len(stack) = 0
  BY DEF Inductive
<1> QED
  BY <1>1 DEF Guarded

\* Between transactions the contract holds at least what its vaults promise,
\* as the comment of pullTokens claims.
THEOREM AlwaysSolvent == Spec => []Solvent
<1>1. Inductive => Solvent
  <2> SUFFICES ASSUME Inductive, stack = <<>>, NEW t \in Tokens
               PROVE  Owed(ledger, t) <= FromUnits(t, ledger.wallet[Raindex][t])
    BY DEF Solvent
  <2>1. /\ ledger \in Ledgers /\ take \in Takes /\ Lent \in [Tokens -> Nat]
        /\ Balanced(ledger, Lent, take)
    BY SoundNow DEF Inductive, Sound, Saved, TypeOK, Takes
  <2>2. ledger.wallet[Raindex][t] \in Nat /\ ledger.dust[t] \in Nat /\ Owed(ledger, t) \in Nat
    BY <2>1, OwedNat DEF Ledgers, Holders
  <2>3. Lent[t] = 0
    BY DEF Lent
  <2>4. Due(take, t) = 0
    BY QuietIsIdle DEF Due
  <2>5. FromUnits(t, ledger.wallet[Raindex][t] + Lent[t]) + Due(take, t)
          = Owed(ledger, t) + ledger.dust[t]
    BY <2>1 DEF Balanced
  <2>6. ledger.wallet[Raindex][t] + Lent[t] = ledger.wallet[Raindex][t]
    BY <2>2, <2>3
  <2>7. FromUnits(t, ledger.wallet[Raindex][t]) \in Nat
    BY <2>2, UnitsInt
  <2>8. FromUnits(t, ledger.wallet[Raindex][t]) + Due(take, t) = Owed(ledger, t) + ledger.dust[t]
    BY <2>5, <2>6
  <2> DEFINE w == FromUnits(t, ledger.wallet[Raindex][t])
             o == Owed(ledger, t)
             u == ledger.dust[t]
  <2>9. w \in Nat /\ o \in Nat /\ u \in Nat /\ w + 0 = o + u
    BY <2>2, <2>4, <2>7, <2>8
  <2> HIDE DEF w, o, u
  <2>10. o <= w
    BY <2>9
  <2> QED
    BY <2>10 DEF o, w
<1> QED
  BY <1>1, AlwaysInductive, PTL

\* Whatever a batch accrues for vault 0 inputs is out of the contract's slots
\* when takeOrders5 returns or reverts: "always zero at rest".
THEOREM VaultZeroAtRest == Spec => []VaultZeroEmpty
<1>1. Inductive => VaultZeroEmpty
  BY DEF Inductive, Sound, Saved, SlotsAccrued, Accruing, VaultZeroEmpty
<1> QED
  BY <1>1, AlwaysInductive, PTL

\* removeOrder4 cannot take away an order that the running batch has taken.
THEOREM TakenOrdersStayLive == Spec => []TakenOrdersLive
<1>1. Inductive => TakenOrdersLive
  BY DEF Inductive, Sound, Saved, TakenOrdersLive
<1> QED
  BY <1>1, AlwaysInductive, PTL

\* Orders of one owner, in one batch or cleared against others, never together
\* exceed a budget that each of them checks in the store.
THEOREM BudgetAlwaysKept == Spec => []BudgetKept
<1>1. Inductive => BudgetKept
  BY DEF Inductive, Sound, Saved, BudgetKept
<1> QED
  BY <1>1, AlwaysInductive, PTL

\* The reentrancy guard is held by at most one pending call, and is free exactly
\* when none holds it.
THEOREM GuardAlwaysHeldOnce == Spec => []GuardHeldOnce
<1>1. Inductive => GuardHeldOnce
  <2> SUFFICES ASSUME Inductive PROVE GuardHeldOnce
    OBVIOUS
  <2>1. DOMAIN stack = 1 .. Len(stack)
    BY LenProperties DEF Inductive, TypeOK
  <2>2. Guarded(stack, entered, take)
    BY DEF Inductive
  <2> QED
    BY <2>1, <2>2 DEF Guarded, GuardHeldOnce
<1> QED
  BY <1>1, AlwaysInductive, PTL

-----------------------------------------------------------------------------
(* The terms of the taker.                                                 *)

\* The terms of a batch, as a fact about its memory.
Terms(tk) ==
    tk.phase # "none" =>
        LET c == tk.config
            r == tk.config.maximumIORatio
        IN  /\ RelevantIO(c.IOIsInput, tk.totalIn, tk.totalOut) + tk.remaining = c.maximumIO
            /\ tk.totalOut * r.den
                  <= r.num * (tk.totalIn + (IF c.IOIsInput THEN 0 ELSE Len(tk.taken)))

\* The ratio of a sum is within a bound when that of both parts is.
LEMMA SumWithin ==
    ASSUME NEW to \in Nat, NEW ti \in Nat, NEW k \in Nat,
           NEW b \in Nat, NEW a \in Nat, NEW j \in Nat,
           NEW num \in Int, NEW den \in Nat,
           to * den <= num * (ti + k), b * den <= num * (a + j)
    PROVE  (to + b) * den <= num * ((ti + a) + (k + j))
<1>1. (to + b) * den = to * den + b * den
  OBVIOUS
<1>2. num * ((ti + a) + (k + j)) = num * (ti + k) + num * (a + j)
  OBVIOUS
<1>3. /\ to * den \in Int /\ b * den \in Int
      /\ num * (ti + k) \in Int /\ num * (a + j) \in Int
  OBVIOUS
<1> QED
  BY <1>1, <1>2, <1>3

LEMMA TakeOrderTerms ==
    ASSUME Inductive, Terms(take), TakeOrder
    PROVE  Terms(take')
<1> DEFINE c == take.config
           leg == take.config.legs[take.i]
           r == take.config.maximumIORatio
<1>0. InTake("loop") /\ take.i <= Len(take.config.legs)
  BY DEF TakeOrder, MoreOrders
<1>1. /\ take.phase = "loop" /\ take \in TakeType /\ take.config \in TakeConfigType
      /\ take.config.legs # <<>> /\ take.i \in Nat /\ take.i >= 1 /\ take.remaining \in Nat
      /\ take.totalIn \in Nat /\ take.totalOut \in Nat /\ take.taken \in Seq(Legs)
      /\ ledger \in Ledgers /\ store \in [Accounts -> Nat]
  BY <1>0, InBatch
<1>2. PICK q \in calculateOrderIO(leg) :
        LET io    == TakerIO(take.config.IOIsInput, q, take.remaining)
            spent == RelevantIO(take.config.IOIsInput, io.input, io.output)
        IN  /\ IsTaken(q, take.config.maximumIORatio)
            /\ take' = [take EXCEPT !.i = @ + 1, !.remaining = @ - spent,
                                    !.totalIn = @ + io.input, !.totalOut = @ + io.output,
                                    !.taken = Append(@, leg), !.ext = TRUE]
  BY DEF TakeOrder, Leg
<1> DEFINE io == TakerIO(c.IOIsInput, q, take.remaining)
           a == io.input
           b == io.output
           spent == RelevantIO(c.IOIsInput, a, b)
<1>3. /\ IsTaken(q, c.maximumIORatio)
      /\ take' = [take EXCEPT !.i = @ + 1, !.remaining = @ - spent, !.totalIn = @ + a,
                              !.totalOut = @ + b, !.taken = Append(@, leg), !.ext = TRUE]
  BY <1>2
<1>4. /\ c.IOIsInput \in BOOLEAN /\ c.maximumIORatio \in Ratios /\ c.legs \in Seq(Legs)
      /\ c.maximumIO \in Int
  BY <1>1, ConfigTokens DEF TakeConfigType
<1>5. leg \in Legs
  BY <1>0, <1>1, <1>4, LenProperties
<1> HIDE DEF leg
<1>6. q \in Calculations
  BY <1>1, <1>5, CalculationBounds
<1>7. /\ a \in Nat /\ b \in Nat
      /\ b * r.den <= r.num * (a + (IF c.IOIsInput THEN 0 ELSE 1))
  BY <1>1, <1>3, <1>4, <1>6, TakerIOCorrect
<1> HIDE DEF io, a, b
<1>8. Len(Append(take.taken, leg)) = Len(take.taken) + 1 /\ Len(take.taken) \in Nat
  BY <1>1, <1>5, AppendProperties, LenProperties
<1>9. /\ take'.phase = "loop" /\ take'.config = take.config
      /\ take'.totalIn = take.totalIn + a /\ take'.totalOut = take.totalOut + b
      /\ take'.remaining = take.remaining - spent
      /\ Len(take'.taken) = Len(take.taken) + 1
  BY <1>1, <1>3, <1>8 DEF TakeType
<1>10. r.num \in Int /\ r.den \in Nat
  BY <1>4 DEF Ratios
<1>11. /\ RelevantIO(c.IOIsInput, take.totalIn, take.totalOut) + take.remaining = c.maximumIO
       /\ take.totalOut * r.den
             <= r.num * (take.totalIn + (IF c.IOIsInput THEN 0 ELSE Len(take.taken)))
  BY <1>1 DEF Terms
<1>12. RelevantIO(c.IOIsInput, take.totalIn + a, take.totalOut + b) + (take.remaining - spent)
         = c.maximumIO
  BY <1>1, <1>4, <1>7, <1>11 DEF RelevantIO
<1> DEFINE k == IF c.IOIsInput THEN 0 ELSE Len(take.taken)
           j == IF c.IOIsInput THEN 0 ELSE 1
<1>13. k \in Nat /\ j \in Nat /\ k + j = IF c.IOIsInput THEN 0 ELSE Len(take.taken) + 1
  BY <1>8
<1>14. (take.totalOut + b) * r.den <= r.num * ((take.totalIn + a) + (k + j))
  <2> HIDE DEF k, j
  <2>1. take.totalOut * r.den <= r.num * (take.totalIn + k) /\ b * r.den <= r.num * (a + j)
    BY <1>7, <1>11 DEF k, j
  <2> QED
    BY <1>1, <1>7, <1>10, <1>13, <2>1, SumWithin
<1>15. take'.totalOut * r.den
         <= r.num * (take'.totalIn + (IF c.IOIsInput THEN 0 ELSE Len(take'.taken)))
  <2>1. k + j = IF c.IOIsInput THEN 0 ELSE Len(take'.taken)
    BY <1>9, <1>13
  <2> HIDE DEF k, j
  <2> QED
    BY <1>9, <1>14, <2>1
<1>16. RelevantIO(c.IOIsInput, take'.totalIn, take'.totalOut) + take'.remaining = c.maximumIO
  BY <1>9, <1>12
<1>17. take'.config = c
  BY <1>9
<1> QED
  BY <1>15, <1>16, <1>17 DEF Terms

\* The steps after the loop, and the skips, leave the totals as they are.
LEMMA SameTerms ==
    ASSUME Terms(take), take.phase # "none", take'.config = take.config,
           take'.totalIn = take.totalIn, take'.totalOut = take.totalOut,
           take'.remaining = take.remaining, take'.taken = take.taken
    PROVE  Terms(take')
  BY DEF Terms

LEMMA TermsStep ==
    ASSUME Inductive, Terms(take), [Next]_vars
    PROVE  Terms(take')
<1>1. ASSUME take' = take PROVE Terms(take')
  BY <1>1
<1>2. ASSUME take' = NoTake PROVE Terms(take')
  BY <1>2, NoTakePhase DEF Terms
<1>3. ASSUME NEW c \in TakeConfigs, TakeBegin(c) PROVE Terms(take')
  <2>1. /\ take' = [phase |-> "loop", config |-> c, i |-> 1, remaining |-> c.maximumIO,
                    totalIn |-> 0, totalOut |-> 0, taken |-> <<>>, ext |-> FALSE]
        /\ c.maximumIO \in Int /\ c.maximumIORatio \in Ratios
    BY <1>3, RaindexAssumption DEF TakeBegin, TakeConfigType
  <2>2. /\ take'.config = c /\ take'.totalIn = 0 /\ take'.totalOut = 0
        /\ take'.remaining = c.maximumIO /\ Len(take'.taken) = 0
    BY <2>1
  <2>3. c.maximumIORatio.num \in Int /\ c.maximumIORatio.den \in Nat
    BY <2>1 DEF Ratios
  <2> QED
    BY <2>1, <2>2, <2>3 DEF Terms, RelevantIO
<1>4. CASE TakeOrder
  BY <1>4, TakeOrderTerms
<1>5. CASE TakeSkip
  <2>1. InTake("loop") /\ take' = [take EXCEPT !.i = @ + 1, !.ext = FALSE]
    BY <1>5 DEF TakeSkip
  <2>2. take \in TakeType /\ take.phase = "loop"
    BY <2>1, InBatch
  <2> QED
    BY <2>1, <2>2, SameTerms DEF TakeType
<1>6. CASE TakeSend
  <2>1. /\ InTake("loop")
        /\ take' = [take EXCEPT !.phase = "sent", !.i = 1,
                                !.ext = take.config.data /\ take.taken # <<>>]
    BY <1>6 DEF TakeSend
  <2>2. take \in TakeType /\ take.phase = "loop"
    BY <2>1, InBatch
  <2> QED
    BY <2>1, <2>2, SameTerms DEF TakeType
<1>7. CASE TakePay
  <2>1. InTake("sent") /\ take' = [take EXCEPT !.phase = "flush", !.ext = FALSE]
    BY <1>7 DEF TakePay
  <2>2. take \in TakeType /\ take.phase = "sent"
    BY <2>1, InBatch
  <2> QED
    BY <2>1, <2>2, SameTerms DEF TakeType
<1>8. CASE TakeFlush
  <2>1. InTake("flush") /\ take' = [take EXCEPT !.i = @ + 1]
    BY <1>8 DEF TakeFlush
  <2>2. take \in TakeType /\ take.phase = "flush"
    BY <2>1, InBatch
  <2> QED
    BY <2>1, <2>2, SameTerms DEF TakeType
<1>9. CASE TakeReturn
  BY <1>2, <1>9 DEF TakeReturn
<1>10. CASE Revert
  BY <1>1, <1>2, <1>10 DEF Revert
<1>11. CASE UNCHANGED vars
  BY <1>1, <1>11 DEF vars
<1>12. CASE FlashRepay \/ PostReturn \/ PostTask
  BY <1>1, <1>12 DEF FlashRepay, PostReturn, PostTask
<1>13. ASSUME NEW a \in Accounts, NEW t \in Tokens, NEW n, Approve(a, t, n) \/ FlashLoan(a, t, n)
       PROVE  Terms(take')
  BY <1>1, <1>13 DEF Approve, FlashLoan
<1>14. ASSUME NEW x, Transfer(x) PROVE Terms(take')
  BY <1>1, <1>14 DEF Transfer
<1>15. ASSUME NEW a, NEW t, NEW v, NEW q, Deposit(a, t, v, q) \/ Withdraw(a, t, v, q)
       PROVE  Terms(take')
  BY <1>1, <1>15 DEF Deposit, Withdraw, EnterPost, EnterAs
<1>16. ASSUME NEW a, Entask(a) \/ AddOrder(a) PROVE Terms(take')
  BY <1>1, <1>16 DEF Entask, AddOrder, EnterPost, EnterAs
<1>17. ASSUME NEW a, NEW o, RemoveOrder(a, o) PROVE Terms(take')
  BY <1>1, <1>17 DEF RemoveOrder, EnterPost, EnterAs
<1>18. ASSUME NEW a, NEW p, NEW q, NEW v, NEW w, Clear(a, p, q, v, w) PROVE Terms(take')
  BY <1>1, <1>18 DEF Clear, EnterAs
<1> QED
  BY <1>3, <1>4, <1>5, <1>6, <1>7, <1>8, <1>9, <1>10, <1>11, <1>12, <1>13, <1>14, <1>15,
     <1>16, <1>17, <1>18 DEF Next

\* Over a whole batch the taker gets and pays within its maximumIO and its
\* maximumIORatio, whatever the orders calculate and whoever runs in between.
THEOREM TakerTermsAlwaysKept == Spec => []TakerTerms
<1>1. Init => Terms(take)
  BY NoTakePhase DEF Init, Terms
<1>2. Inductive /\ Terms(take) /\ [Next]_vars => Terms(take)'
  BY TermsStep
<1>3. Terms(take) => TakerTerms
  BY DEF Terms, TakerTerms
<1> QED
  BY <1>1, <1>2, <1>3, AlwaysInductive, PTL DEF Spec

-----------------------------------------------------------------------------
(* The flush of a batch never runs short of tokens, and nobody but its     *)
(* owner lowers a vault                                                    *)

\* What the slots of vault 0 promise of token t.
Slots(L, t) == [o \in Accounts |-> L.vault[o][t][0]]

SlotSum(L, t) == Total(Slots(L, t))

LEMMA SlotsNat ==
    ASSUME NEW L \in Ledgers, NEW t \in Tokens
    PROVE  Slots(L, t) \in [Accounts -> Nat] /\ IsFiniteSet(Accounts)
  BY LedgerAssumption DEF Slots, Ledgers

LEMMA SlotSumNat ==
    ASSUME NEW L \in Ledgers, NEW t \in Tokens
    PROVE  SlotSum(L, t) \in Nat
<1>1. IsFiniteSet(Pile(Slots(L, t)))
  BY SlotsNat, PileFinite
<1> QED
  BY <1>1, FS_CardinalityType DEF SlotSum, Total

\* A slot holds no more than all of them together.
LEMMA SlotWithinSum ==
    ASSUME NEW L \in Ledgers, NEW t \in Tokens, NEW o \in Accounts
    PROVE  L.vault[o][t][0] \in Nat /\ L.vault[o][t][0] <= SlotSum(L, t)
<1> DEFINE f == Slots(L, t)
           n == 0
           g == [f EXCEPT ![o] = n]
<1>0. n \in Nat /\ n = 0
  OBVIOUS
<1>1. f \in [Accounts -> Nat] /\ IsFiniteSet(Accounts) /\ f[o] = L.vault[o][t][0]
  BY SlotsNat DEF Slots
<1> HIDE DEF f, n
<1>2. Total(f) \in Nat /\ Total(g) = Total(f) - f[o] + n
  BY <1>0, <1>1, TotalUpdate
<1>3. g \in [Accounts -> Nat]
  BY <1>0, <1>1
<1>4. Total(g) \in Nat
  <2>1. IsFiniteSet(Pile(g))
    BY <1>1, <1>3, PileFinite
  <2> QED
    BY <2>1, FS_CardinalityType DEF Total
<1>5. f[o] \in Nat
  BY <1>1
<1>6. f[o] <= Total(f)
  BY <1>0, <1>2, <1>4, <1>5
<1> QED
  BY <1>1, <1>5, <1>6 DEF SlotSum, f

LEMMA SlotSumSame ==
    ASSUME NEW L, NEW M, NEW t, \A o \in Accounts : M.vault[o][t][0] = L.vault[o][t][0]
    PROVE  SlotSum(M, t) = SlotSum(L, t)
<1>1. Slots(M, t) = Slots(L, t)
  BY DEF Slots
<1> QED
  BY <1>1 DEF SlotSum

LEMMA SlotSumSet ==
    ASSUME NEW L \in Ledgers, NEW M \in Ledgers, NEW t \in Tokens, NEW o \in Accounts,
           \A p \in Accounts : p # o => M.vault[p][t][0] = L.vault[p][t][0]
    PROVE  SlotSum(M, t) = SlotSum(L, t) - L.vault[o][t][0] + M.vault[o][t][0]
<1> DEFINE f == Slots(L, t)
           n == M.vault[o][t][0]
<1>1. f \in [Accounts -> Nat] /\ IsFiniteSet(Accounts) /\ f[o] = L.vault[o][t][0]
  BY SlotsNat DEF Slots
<1>2. n \in Nat
  BY LedgerAssumption DEF Ledgers
<1>3. Slots(M, t) = [f EXCEPT ![o] = n]
  BY DEF Slots
<1> HIDE DEF f, n
<1>4. Total([f EXCEPT ![o] = n]) = Total(f) - f[o] + n
  BY <1>1, <1>2, TotalUpdate
<1> QED
  BY <1>1, <1>3, <1>4 DEF SlotSum, f, n

LEMMA NoSlots ==
    ASSUME NEW L, NEW t, \A o \in Accounts : L.vault[o][t][0] = 0
    PROVE  SlotSum(L, t) = 0
<1>1. DOMAIN Slots(L, t) = Accounts /\ \A o \in Accounts : Slots(L, t)[o] = 0
  BY DEF Slots
<1>2. Pile(Slots(L, t)) = {}
  BY <1>1 DEF Pile
<1> QED
  BY <1>2, FS_EmptySet DEF SlotSum, Total

-----------------------------------------------------------------------------
(* What the contract's wallet gets and gives.                              *)

LEMMA PullArrives ==
    ASSUME NEW L \in Ledgers, NEW a \in Accounts, NEW t \in Tokens, NEW q \in Nat,
           CanPull(L, a, t, q)
    PROVE  /\ pullTokens(L, a, t, q).wallet[Raindex][t] \in Nat
           /\ q <= FromUnits(t, pullTokens(L, a, t, q).wallet[Raindex][t])
<1> DEFINE n == PullUnits(t, q)
           w == Moved(L.wallet, a, Raindex, t, n)
<1>1. n \in Nat /\ FromUnits(t, n) - q \in Nat
  BY Conversions
<1>2. pullTokens(L, a, t, q).wallet = w
  BY DEF pullTokens, TransferIn, Ledgers
<1>3. /\ L.wallet \in [Holders -> [Tokens -> Nat]] /\ a \in Holders /\ Raindex \in Holders
      /\ a # Raindex /\ n <= L.wallet[a][t]
  BY LedgerAssumption DEF Ledgers, Holders, CanPull, CanTransferIn
<1> HIDE DEF n
<1>4. w[Raindex][t] = L.wallet[Raindex][t] + n
  BY <1>1, <1>3, MovedType
<1>5. L.wallet[Raindex][t] \in Nat /\ Unit[t] \in Nat
  BY <1>3, LedgerAssumption
<1>6. FromUnits(t, L.wallet[Raindex][t] + n) = FromUnits(t, L.wallet[Raindex][t]) + FromUnits(t, n)
  BY <1>1, <1>5 DEF FromUnits
<1>7. FromUnits(t, L.wallet[Raindex][t]) \in Nat /\ FromUnits(t, n) \in Nat
  BY <1>1, <1>5, UnitsInt
<1>8. q <= FromUnits(t, L.wallet[Raindex][t] + n)
  BY <1>1, <1>6, <1>7
<1> QED
  BY <1>1, <1>2, <1>4, <1>5, <1>8

\* A push takes no more out of the wallet than the amount it is for.
LEMMA PushLeaves ==
    ASSUME NEW L \in Ledgers, NEW a \in Accounts, NEW t \in Tokens, NEW q \in Nat,
           CanPush(L, t, q)
    PROVE  FromUnits(t, L.wallet[Raindex][t]) - q
             <= FromUnits(t, pushTokens(L, a, t, q).wallet[Raindex][t])
<1> DEFINE n == ToUnits(t, q)
           w == Moved(L.wallet, Raindex, a, t, n)
           x == L.wallet[Raindex][t]
<1>1. n \in Nat /\ q - FromUnits(t, n) \in Nat
  BY Conversions
<1>2. pushTokens(L, a, t, q).wallet = w
  BY DEF pushTokens, TransferOut, Ledgers
<1>3. /\ L.wallet \in [Holders -> [Tokens -> Nat]] /\ a \in Holders /\ Raindex \in Holders
      /\ a # Raindex /\ n <= x
  BY LedgerAssumption DEF Ledgers, Holders, CanPush, CanTransferOut
<1> HIDE DEF n
<1>4. w[Raindex][t] = x - n
  BY <1>1, <1>3, MovedType
<1>5. x \in Nat /\ Unit[t] \in Nat
  BY <1>3, LedgerAssumption
<1> HIDE DEF x
<1>6. FromUnits(t, x - n) = FromUnits(t, x) - FromUnits(t, n)
  BY <1>1, <1>5 DEF FromUnits
<1>7. FromUnits(t, x) \in Nat /\ FromUnits(t, n) \in Nat
  BY <1>1, <1>5, UnitsInt
<1>8. FromUnits(t, x) - q <= FromUnits(t, x - n)
  BY <1>1, <1>6, <1>7
<1> QED
  BY <1>2, <1>4, <1>8 DEF x

\* What is within the contract's wallet can be pushed.
LEMMA CoveredPush ==
    ASSUME NEW L \in Ledgers, NEW t \in Tokens, NEW q \in Nat,
           q <= FromUnits(t, L.wallet[Raindex][t])
    PROVE  CanPush(L, t, q)
<1> DEFINE u == Unit[t]
           x == L.wallet[Raindex][t]
           n == q \div u
<1>1. u \in Nat \ {0} /\ x \in Nat /\ q <= x * u
  BY LedgerAssumption DEF Ledgers, Holders, FromUnits
<1>2. n \in Nat /\ q = u * n + (q % u) /\ q % u \in Nat
  BY <1>1, DivNat, DivMod
<1> HIDE DEF u, x, n
<1>3. u * n <= u * x
  <2>1. u * n \in Nat /\ u * x \in Nat /\ u * x = x * u
    BY <1>1, <1>2
  <2> QED
    BY <1>1, <1>2, <2>1
<1>4. n <= x
  <2>1. ASSUME n > x PROVE FALSE
    <3>1. n - x - 1 \in Nat
      BY <1>1, <1>2, <2>1
    <3>2. u * (n - x - 1) \in Nat
      BY <1>1, <3>1
    <3>3. u * n = u * (n - x - 1) + u * x + u
      BY <1>1, <1>2
    <3>4. u * x \in Nat
      BY <1>1
    <3> QED
      BY <1>1, <1>3, <3>2, <3>3, <3>4
  <2> QED
    BY <1>1, <1>2, <2>1
<1> QED
  BY <1>4 DEF CanPush, CanTransferOut, ToUnits, u, x, n

-----------------------------------------------------------------------------
(* The slots are covered: by what the batch is still due from its taker    *)
(* until it is paid, and then by what the contract holds.                  *)

Covered(L, tk) ==
    tk.phase # "none" =>
        LET t == InputToken(tk.config)
        IN  /\ \A j \in DOMAIN tk.taken : tk.taken[j].in.token = t
            /\ SlotSum(L, t) <= IF tk.phase = "flush" THEN FromUnits(t, L.wallet[Raindex][t])
                                ELSE tk.totalOut

RestoresCovered(s, tk) ==
    \A k \in 1 .. Len(s) : Covered(s[k].saved.ledger, TakeUnder(s, tk, k))

\* No code but the batch's runs during the flush.
Flushing ==
    /\ Covered(ledger, take)
    /\ RestoresCovered(stack, take)
    /\ take.phase = "flush" => Top.kind = "take" /\ ~take.ext

LEMMA CoveredIdle ==
    ASSUME take' = NoTake
    PROVE  Flushing'
<1>1. \A L : Covered(L, NoTake)
  BY NoTakePhase DEF Covered
<1>2. \A s, k : TakeUnder(s, NoTake, k) = NoTake
  BY DEF TakeUnder
<1> QED
  BY <1>1, <1>2, NoTakePhase DEF Flushing, RestoresCovered

LEMMA PushCovered ==
    ASSUME Inductive, Flushing, NEW f \in FrameType, f.saved = Saved
    PROVE  RestoresCovered(Append(stack, f), take)
<1> DEFINE s == stack
           a == Append(stack, f)
<1>0. s \in Seq(FrameType) /\ TakeUnder(s, take, Len(s) + 1) = take
  BY SoundNow DEF Inductive, TypeOK
<1>1. /\ Len(s) \in Nat
      /\ Len(a) = Len(s) + 1
      /\ \A k \in 1 .. Len(s) : a[k] = s[k]
      /\ a[Len(s) + 1] = f
      /\ Agree(a, s, Len(s))
  BY <1>0, Pushed DEF Agree
<1>2. RestoresCovered(s, take) /\ Covered(ledger, take) /\ f.saved.ledger = ledger
  BY DEF Flushing, Saved
<1> HIDE DEF a, s
<1>3. ASSUME NEW k \in 1 .. Len(a)
      PROVE  Covered(a[k].saved.ledger, TakeUnder(a, take, k))
  <2>1. TakeUnder(a, take, k) = TakeUnder(s, take, k)
    BY <1>1, UnderPrefix
  <2>2. CASE k = Len(s) + 1
    BY <1>0, <1>1, <1>2, <2>1, <2>2
  <2>3. CASE k # Len(s) + 1
    <3>1. k \in 1 .. Len(s) /\ a[k] = s[k]
      BY <1>1, <2>3
    <3> QED
      BY <1>2, <2>1, <3>1 DEF RestoresCovered
  <2> QED
    BY <2>2, <2>3
<1> QED
  BY <1>3 DEF RestoresCovered, a

LEMMA PopCovered ==
    ASSUME Inductive, Flushing, stack # <<>>
    PROVE  RestoresCovered(Below, take)
<1> DEFINE s == stack
           b == Below
<1>0. s \in Seq(FrameType)
  BY DEF Inductive, TypeOK
<1>1. /\ Len(s) \in Nat \ {0}
      /\ Len(b) = Len(s) - 1
      /\ \A k \in 1 .. (Len(s) - 1) : b[k] = s[k]
      /\ Agree(b, s, Len(s) - 1)
  BY <1>0, Popped DEF Agree, Below
<1>2. RestoresCovered(s, take)
  BY DEF Flushing
<1> HIDE DEF b, s
<1>3. ASSUME NEW k \in 1 .. Len(b)
      PROVE  Covered(b[k].saved.ledger, TakeUnder(b, take, k))
  <2>1. Len(b) \in Nat /\ Agree(b, s, Len(b)) /\ k \in 1 .. (Len(b) + 1)
    BY <1>1
  <2>2. TakeUnder(b, take, k) = TakeUnder(s, take, k)
    BY <2>1, UnderPrefix
  <2>3. k \in 1 .. Len(s) /\ b[k] = s[k]
    BY <1>1
  <2> QED
    BY <1>2, <2>2, <2>3 DEF RestoresCovered
<1> QED
  BY <1>3 DEF RestoresCovered, b

\* The batch moves on: its call is the innermost, so the calls that would
\* restore a ledger were made before it.
LEMMA RetakeCovered ==
    ASSUME Inductive, stack # <<>>, Top.kind = "take", NEW tk
    PROVE  RestoresCovered(stack, tk)
<1>1. /\ stack \in Seq(FrameType) /\ Guarded(stack, entered, take)
      /\ Len(stack) \in Nat /\ Len(stack) \in 1 .. Len(stack)
  BY TopFrame, LenProperties DEF Inductive, TypeOK
<1>2. \A k \in 1 .. Len(stack) : stack[k].kind = "take" => k = Len(stack)
  BY <1>1 DEF Guarded, Top
<1>3. ASSUME NEW k \in 1 .. Len(stack)
      PROVE  Covered(stack[k].saved.ledger, TakeUnder(stack, tk, k))
  <2>1. k \in Nat /\ \A j \in 1 .. (k - 1) : stack[j].kind # "take"
    BY <1>1, <1>2
  <2>2. TakeUnder(stack, tk, k) = NoTake
    BY <2>1, NoTakeUnder
  <2> QED
    BY <2>2, NoTakePhase DEF Covered
<1> QED
  BY <1>3 DEF RestoresCovered

\* The batch does not move and neither do the slots.
LEMMA SlotsStay ==
    ASSUME Covered(ledger, take), take' = take, take.phase # "flush",
           SameSlots(ledger, ledger'),
           take.phase # "none" => InputToken(take.config) \in Tokens
    PROVE  Covered(ledger', take')
<1> SUFFICES ASSUME take.phase # "none" PROVE Covered(ledger', take')
  BY DEF Covered
<1>1. SlotSum(ledger', InputToken(take.config)) = SlotSum(ledger, InputToken(take.config))
  BY SlotSumSame DEF SameSlots
<1> QED
  BY <1>1 DEF Covered

LEMMA BatchTokens ==
    ASSUME Inductive, take.phase # "none"
    PROVE  InputToken(take.config) \in Tokens /\ take \in TakeType
<1>1. take \in TakeType /\ take.config.legs # <<>>
  BY TakePhases DEF Inductive, TypeOK, Takes, BatchOK
<1> QED
  BY <1>1, TakeFields, ConfigTokens

LEMMA FlushShut ==
    ASSUME Flushing, Inductive, Window
    PROVE  take.phase # "flush"
<1> SUFFICES ASSUME take.phase = "flush" PROVE FALSE
  OBVIOUS
<1>1. Top.kind = "take" /\ ~take.ext
  BY DEF Flushing
<1>2. stack # <<>>
  BY QuietIsIdle
<1> QED
  BY <1>1, <1>2 DEF Window

-----------------------------------------------------------------------------
(* The steps keep the slots covered.                                       *)

\* What a fill changes.
LEMMA FillStep ==
    ASSUME Inductive, TakeOrder
    PROVE  \E leg \in Legs, a, b \in Nat :
             /\ leg.order \in live
             /\ leg.in.token = InputToken(take.config)
             /\ CanDecrease(ledger, leg.order.owner, leg.out.token, leg.out.vault, a)
             /\ ledger' = recordVaultInput(recordVaultOutput(ledger, leg.order.owner, leg.out, a),
                                           leg.order.owner, leg.in, b)
             /\ store' = handleIO(store, leg, a)
             /\ take'.phase = "loop" /\ take'.config = take.config
             /\ take'.totalOut = take.totalOut + b
             /\ take'.taken = Append(take.taken, leg)
             /\ stack' = stack
<1> DEFINE c == take.config
           leg == take.config.legs[take.i]
           o == leg.order.owner
<1>0. InTake("loop") /\ take.i <= Len(take.config.legs)
  BY DEF TakeOrder, MoreOrders
<1>1. /\ take.phase = "loop" /\ take \in TakeType /\ take.config \in TakeConfigType
      /\ take.config.legs # <<>> /\ take.i \in Nat /\ take.i >= 1 /\ take.remaining \in Nat
      /\ ledger \in Ledgers /\ store \in [Accounts -> Nat]
  BY <1>0, InBatch
<1>2. leg.in.token = InputToken(c) /\ leg.order \in live /\ stack' = stack
  BY DEF TakeOrder, LegMatches, Leg, IsLive
<1>3. PICK q \in calculateOrderIO(leg) :
        LET io    == TakerIO(take.config.IOIsInput, q, take.remaining)
            spent == RelevantIO(take.config.IOIsInput, io.input, io.output)
        IN  /\ IsTaken(q, take.config.maximumIORatio)
            /\ CanDecrease(ledger, o, leg.out.token, leg.out.vault, io.input)
            /\ ledger' = recordVaultInput(recordVaultOutput(ledger, o, leg.out, io.input),
                                          o, leg.in, io.output)
            /\ store' = handleIO(store, leg, io.input)
            /\ take' = [take EXCEPT !.i = @ + 1, !.remaining = @ - spent,
                                    !.totalIn = @ + io.input, !.totalOut = @ + io.output,
                                    !.taken = Append(@, leg), !.ext = TRUE]
  BY DEF TakeOrder, Leg
<1> DEFINE io == TakerIO(c.IOIsInput, q, take.remaining)
           a == io.input
           b == io.output
           spent == RelevantIO(c.IOIsInput, a, b)
<1>4. /\ IsTaken(q, c.maximumIORatio)
      /\ CanDecrease(ledger, o, leg.out.token, leg.out.vault, a)
      /\ ledger' = recordVaultInput(recordVaultOutput(ledger, o, leg.out, a), o, leg.in, b)
      /\ store' = handleIO(store, leg, a)
      /\ take' = [take EXCEPT !.i = @ + 1, !.remaining = @ - spent, !.totalIn = @ + a,
                              !.totalOut = @ + b, !.taken = Append(@, leg), !.ext = TRUE]
  BY <1>3
<1>5. c.IOIsInput \in BOOLEAN /\ c.maximumIORatio \in Ratios /\ c.legs \in Seq(Legs)
  BY <1>1, ConfigTokens
<1>6. leg \in Legs
  BY <1>0, <1>1, <1>5, LenProperties
<1> HIDE DEF leg
<1>7. q \in Calculations
  BY <1>1, <1>6, CalculationBounds
<1>8. a \in Nat /\ b \in Nat
  BY <1>1, <1>4, <1>5, <1>7, TakerIOCorrect
<1> HIDE DEF io, a, b, spent
<1>9. /\ take'.phase = "loop" /\ take'.config = take.config
      /\ take'.totalOut = take.totalOut + b /\ take'.taken = Append(take.taken, leg)
  BY <1>1, <1>4 DEF TakeType
<1> QED
  BY <1>2, <1>4, <1>6, <1>8, <1>9

LEMMA WalletUnits ==
    ASSUME NEW L \in Ledgers, NEW t \in Tokens
    PROVE  FromUnits(t, L.wallet[Raindex][t]) \in Nat
<1>1. L.wallet[Raindex][t] \in Nat
  BY DEF Ledgers, Holders
<1> QED
  BY <1>1, UnitsInt

LEMMA RecordInputSlots ==
    ASSUME NEW L \in Ledgers, NEW o \in Accounts,
           NEW io \in [token : Tokens, vault : VaultIds], NEW q \in Nat
    PROVE  \A p \in Accounts, t \in Tokens :
              recordVaultInput(L, o, io, q).vault[p][t][0] =
                 IF io.vault = 0 /\ p = o /\ t = io.token THEN L.vault[p][t][0] + q
                 ELSE L.vault[p][t][0]
<1>1. recordVaultInput(L, o, io, q) = Credit(L, o, io.token, io.vault, q)
  BY DEF recordVaultInput, increaseVaultBalance
<1> QED
  BY <1>1, LedgerAssumption DEF Credit, Ledgers

LEMMA TakeOrderCovered ==
    ASSUME Inductive, Flushing, TakeOrder
    PROVE  Flushing'
<1> DEFINE t == InputToken(take.config)
<1>0. /\ InTake("loop") /\ stack # <<>> /\ Top.kind = "take" /\ take.phase = "loop"
      /\ ledger \in Ledgers /\ take.taken \in Seq(Legs) /\ take.totalOut \in Nat
  BY InBatch DEF TakeOrder
<1>1. t \in Tokens
  BY <1>0, BatchTokens
<1>2. PICK leg \in Legs, a \in Nat, b \in Nat :
         /\ leg.in.token = t
         /\ CanDecrease(ledger, leg.order.owner, leg.out.token, leg.out.vault, a)
         /\ ledger' = recordVaultInput(recordVaultOutput(ledger, leg.order.owner, leg.out, a),
                                       leg.order.owner, leg.in, b)
         /\ take'.phase = "loop" /\ take'.config = take.config
         /\ take'.totalOut = take.totalOut + b
         /\ take'.taken = Append(take.taken, leg)
         /\ stack' = stack
  BY FillStep
<1> DEFINE o == leg.order.owner
           L == recordVaultOutput(ledger, o, leg.out, a)
<1>3. /\ o \in Accounts /\ leg.in \in [token : Tokens, vault : VaultIds]
      /\ leg.out \in [token : Tokens, vault : VaultIds]
  BY LegFields
<1>4. L \in Ledgers /\ SameSlots(ledger, L)
  BY <1>0, <1>2, <1>3, OutputLeg DEF Moves
<1>5. /\ ledger' \in Ledgers
      /\ \A p \in Accounts :
            ledger'.vault[p][t][0] = IF leg.in.vault = 0 /\ p = o THEN L.vault[p][t][0] + b
                                     ELSE L.vault[p][t][0]
  <2>1. ledger' = recordVaultInput(L, o, leg.in, b)
    BY <1>2
  <2> HIDE DEF L, t, o
  <2>2. leg.in.token = t /\ b \in Nat
    BY <1>2
  <2>3. ledger' \in Ledgers
    BY <1>3, <1>4, <2>1, <2>2, RecordInputMoves DEF Moves
  <2>4. \A p \in Accounts, u \in Tokens :
           ledger'.vault[p][u][0] =
              IF leg.in.vault = 0 /\ p = o /\ u = leg.in.token THEN L.vault[p][u][0] + b
              ELSE L.vault[p][u][0]
    BY <1>3, <1>4, <2>1, <2>2, RecordInputSlots
  <2> QED
    BY <1>1, <2>2, <2>3, <2>4
<1> HIDE DEF L, t, o
<1>6. SlotSum(ledger', t) <= SlotSum(ledger, t) + b
  <2>1. SlotSum(L, t) = SlotSum(ledger, t)
    BY <1>1, <1>4, SlotSumSame DEF SameSlots
  <2>2. SlotSum(ledger', t) = SlotSum(L, t) - L.vault[o][t][0] + ledger'.vault[o][t][0]
    BY <1>1, <1>3, <1>4, <1>5, SlotSumSet
  <2>3. SlotSum(ledger, t) \in Nat
    BY <1>0, <1>1, SlotSumNat
  <2>4. L.vault[o][t][0] \in Nat
    BY <1>1, <1>3, <1>4, SlotWithinSum
  <2>5. ledger'.vault[o][t][0] = L.vault[o][t][0] + b \/ ledger'.vault[o][t][0] = L.vault[o][t][0]
    BY <1>3, <1>5
  <2> QED
    BY <2>1, <2>2, <2>3, <2>4, <2>5
<1>7. SlotSum(ledger, t) <= take.totalOut /\ \A j \in DOMAIN take.taken : take.taken[j].in.token = t
  BY <1>0 DEF Flushing, Covered, t
<1>8. SlotSum(ledger', t) <= take'.totalOut
  <2>1. SlotSum(ledger, t) \in Nat /\ SlotSum(ledger', t) \in Nat
    BY <1>0, <1>1, <1>5, SlotSumNat
  <2> QED
    BY <1>0, <1>2, <1>6, <1>7, <2>1
<1>9. \A j \in DOMAIN take'.taken : take'.taken[j].in.token = t
  BY <1>0, <1>2, <1>7, AppendLeg
<1>10. Covered(ledger', take')
  BY <1>2, <1>8, <1>9 DEF Covered, t
<1>11. RestoresCovered(stack', take')
  BY <1>0, <1>2, RetakeCovered
<1> QED
  BY <1>2, <1>10, <1>11 DEF Flushing

\* The taker has paid for all that the slots hold.
LEMMA TakePayCovered ==
    ASSUME Inductive, Flushing, TakePay
    PROVE  Flushing'
<1> DEFINE t == InputToken(take.config)
<1>0. /\ InTake("sent") /\ stack # <<>> /\ Top.kind = "take" /\ take.phase = "sent"
      /\ ledger \in Ledgers /\ take.totalOut \in Nat /\ take \in TakeType
      /\ take.config \in TakeConfigType /\ take.config.legs # <<>>
  BY InBatch DEF TakePay
<1>1. t \in Tokens /\ take.config.taker \in Accounts
  BY <1>0, ConfigTokens
<1>2. /\ CanPull(ledger, take.config.taker, t, take.totalOut)
      /\ ledger' = pullTokens(ledger, take.config.taker, t, take.totalOut)
      /\ take' = [take EXCEPT !.phase = "flush", !.ext = FALSE]
      /\ stack' = stack
  BY DEF TakePay
<1>3. /\ take'.phase = "flush" /\ take'.config = take.config /\ take'.taken = take.taken
      /\ ~take'.ext
  BY <1>0, <1>2 DEF TakeType
<1> HIDE DEF t
<1>4. /\ ledger'.vault = ledger.vault /\ ledger' \in Ledgers
      /\ ledger'.wallet[Raindex][t] \in Nat
      /\ take.totalOut <= FromUnits(t, ledger'.wallet[Raindex][t])
  BY <1>0, <1>1, <1>2, PullMoves, PullArrives DEF Moves
<1>5. SlotSum(ledger', t) = SlotSum(ledger, t)
  BY <1>4, SlotSumSame
<1>6. SlotSum(ledger, t) <= take.totalOut /\ \A j \in DOMAIN take.taken : take.taken[j].in.token = t
  BY <1>0 DEF Flushing, Covered, t
<1>7. SlotSum(ledger', t) <= FromUnits(t, ledger'.wallet[Raindex][t])
  <2>1. SlotSum(ledger, t) \in Nat /\ FromUnits(t, ledger'.wallet[Raindex][t]) \in Nat
    BY <1>0, <1>1, <1>4, SlotSumNat, UnitsInt
  <2> QED
    BY <1>0, <1>4, <1>5, <1>6, <2>1
<1>8. Covered(ledger', take')
  BY <1>3, <1>6, <1>7 DEF Covered, t
<1>9. RestoresCovered(stack', take') /\ Top' = Top
  BY <1>0, <1>2, RetakeCovered DEF Top
<1> QED
  BY <1>0, <1>3, <1>8, <1>9 DEF Flushing

\* A flush takes out of the wallet no more than it takes out of the slots.
LEMMA TakeFlushCovered ==
    ASSUME Inductive, Flushing, TakeFlush
    PROVE  Flushing'
<1> DEFINE t == InputToken(take.config)
           leg == take.taken[take.i]
           o == leg.order.owner
           q == Accrued(ledger, o, leg.in)
<1>0. /\ InTake("flush") /\ stack # <<>> /\ Top.kind = "take" /\ take.phase = "flush"
      /\ ledger \in Ledgers /\ take \in TakeType /\ take.taken \in Seq(Legs)
      /\ take.i \in Nat /\ take.i >= 1
  BY InBatch DEF TakeFlush
<1>1. /\ take.i <= Len(take.taken)
      /\ CanPush(ledger, leg.in.token, q)
      /\ ledger' = pushVaultZeroInput(ledger, o, leg.in)
      /\ take' = [take EXCEPT !.i = @ + 1]
      /\ stack' = stack
  BY DEF TakeFlush
<1>2. /\ take'.phase = "flush" /\ take'.config = take.config /\ take'.taken = take.taken
      /\ take'.ext = take.ext
  BY <1>0, <1>1 DEF TakeType
<1>3. take.i \in DOMAIN take.taken /\ leg \in Legs
  BY <1>0, <1>1, LenProperties
<1>4. /\ SlotSum(ledger, t) <= FromUnits(t, ledger.wallet[Raindex][t])
      /\ \A j \in DOMAIN take.taken : take.taken[j].in.token = t
      /\ ~take.ext
  BY <1>0 DEF Flushing, Covered
<1>5. leg.in.token = t /\ t \in Tokens
  BY <1>0, <1>3, <1>4, BatchTokens
<1> HIDE DEF t, leg
<1>6. o \in Accounts /\ leg.in \in [token : Tokens, vault : VaultIds]
  BY <1>3, LegFields
<1> HIDE DEF o
<1>7. q \in Nat /\ ledger.vault[o][t][0] \in Nat
  BY <1>0, <1>5, <1>6, LedgerAssumption DEF Accrued, Ledgers
<1>8. /\ ledger' \in Ledgers
      /\ SlotSum(ledger', t) = SlotSum(ledger, t) - q
  <2>1. /\ ledger' \in Ledgers
        /\ \A p \in Accounts :
              ledger'.vault[p][t][0] = IF leg.in.vault = 0 /\ p = o THEN 0 ELSE ledger.vault[p][t][0]
    BY <1>0, <1>1, <1>5, <1>6, FlushMoves DEF Moves
  <2>2. SlotSum(ledger', t) = SlotSum(ledger, t) - ledger.vault[o][t][0] + ledger'.vault[o][t][0]
    BY <1>0, <1>5, <1>6, <2>1, SlotSumSet
  <2>3. SlotSum(ledger, t) \in Nat
    BY <1>0, <1>5, SlotSumNat
  <2>4. ledger'.vault[o][t][0] = ledger.vault[o][t][0] - q
    BY <1>5, <1>6, <1>7, <2>1 DEF Accrued
  <2> QED
    BY <1>7, <2>1, <2>2, <2>3, <2>4
<1>9. FromUnits(t, ledger.wallet[Raindex][t]) - q <= FromUnits(t, ledger'.wallet[Raindex][t])
  <2>0. FromUnits(t, ledger.wallet[Raindex][t]) \in Nat
    BY <1>0, <1>5, WalletUnits
  <2>1. CASE q = 0
    <3>1. ledger' = ledger
      BY <1>1, <2>1 DEF pushVaultZeroInput
    <3> QED
      BY <2>0, <2>1, <3>1
  <2>2. CASE q # 0
    <3> DEFINE M == Debit(ledger, o, t, 0, q)
    <3>1. ledger' = pushTokens(M, o, t, q)
      BY <1>1, <1>5, <2>2 DEF pushVaultZeroInput
    <3>2. q = ledger.vault[o][t][0]
      BY <1>5, <2>2 DEF Accrued
    <3>3. M \in Ledgers
      BY <1>0, <1>5, <1>6, <1>7, <3>2, LedgerAssumption, DebitMoves DEF Moves
    <3>4. M.wallet = ledger.wallet
      BY <1>0 DEF Debit, Ledgers
    <3>5. CanPush(M, t, q)
      BY <1>1, <1>5, <3>4 DEF CanPush, CanTransferOut
    <3> HIDE DEF M, q
    <3>6. FromUnits(t, M.wallet[Raindex][t]) - q
            <= FromUnits(t, pushTokens(M, o, t, q).wallet[Raindex][t])
      BY <1>5, <1>6, <1>7, <3>3, <3>5, PushLeaves
    <3> QED
      BY <3>1, <3>4, <3>6
  <2> QED
    BY <2>1, <2>2
<1> HIDE DEF q
<1>10. SlotSum(ledger', t) <= FromUnits(t, ledger'.wallet[Raindex][t])
  <2>1. /\ SlotSum(ledger, t) \in Nat
        /\ FromUnits(t, ledger.wallet[Raindex][t]) \in Nat
        /\ FromUnits(t, ledger'.wallet[Raindex][t]) \in Nat
    BY <1>0, <1>5, <1>8, SlotSumNat, WalletUnits
  <2> QED
    BY <1>4, <1>7, <1>8, <1>9, <2>1
<1>11. Covered(ledger', take')
  BY <1>2, <1>4, <1>10 DEF Covered, t
<1>12. RestoresCovered(stack', take') /\ Top' = Top
  BY <1>0, <1>1, RetakeCovered DEF Top
<1> QED
  BY <1>0, <1>2, <1>4, <1>11, <1>12 DEF Flushing

\* Whatever runs beside the batch leaves its slots alone.
LEMMA AsideCovered ==
    ASSUME Inductive, Flushing, take' = take, take.phase # "flush",
           SameSlots(ledger, ledger'), RestoresCovered(stack', take)
    PROVE  Flushing'
<1>1. Covered(ledger', take')
  BY BatchTokens, SlotsStay DEF Flushing
<1> QED
  BY <1>1 DEF Flushing

LEMMA IdleCovered ==
    ASSUME Inductive, CanEnter, take' = take
    PROVE  Flushing'
  BY Idle, CoveredIdle

LEMMA TakeBeginCovered ==
    ASSUME Inductive, NEW c \in TakeConfigs, TakeBegin(c)
    PROVE  Flushing'
<1> DEFINE t == InputToken(c)
           f == [kind |-> "take", caller |-> c.taker, lent |-> Lent, saved |-> Saved]
<1>1. /\ CanEnter /\ c.legs # <<>> /\ ledger' = ledger
      /\ take' = [phase |-> "loop", config |-> c, i |-> 1, remaining |-> c.maximumIO,
                  totalIn |-> 0, totalOut |-> 0, taken |-> <<>>, ext |-> FALSE]
      /\ stack' = Append(stack, f)
  BY DEF TakeBegin
<1>2. c \in TakeConfigType /\ t \in Tokens /\ c.taker \in Accounts
  BY <1>1, RaindexAssumption, ConfigTokens
<1>3. /\ take = NoTake /\ ~entered /\ \A o \in Accounts, u \in Tokens : ledger.vault[o][u][0] = 0
      /\ Saved \in SavedType /\ Lent \in [Tokens -> Nat]
  BY <1>1, Idle, SoundNow
<1>4. /\ take'.phase = "loop" /\ take'.config = c /\ take'.totalOut = 0 /\ take'.taken = <<>>
  BY <1>1
<1>5. Covered(ledger', take')
  <2>1. SlotSum(ledger', t) = 0
    BY <1>1, <1>2, <1>3, NoSlots
  <2> QED
    BY <1>4, <2>1 DEF Covered
<1>6. Inductive' /\ stack' # <<>> /\ Top'.kind = "take"
  <2>1. f \in FrameType /\ stack \in Seq(FrameType) /\ f.kind = "take"
    BY <1>2, <1>3 DEF FrameType, Inductive, TypeOK
  <2> HIDE DEF f
  <2>2. stack' # <<>> /\ stack'[Len(stack')] = f
    BY <1>1, <2>1, Pushed
  <2> QED
    BY <2>1, <2>2, TakeBeginStep DEF Top
<1>7. RestoresCovered(stack', take')
  <2>1. /\ stack' \in Seq(FrameType) /\ Guarded(stack', entered', take')
        /\ Len(stack') \in Nat /\ Len(stack') \in 1 .. Len(stack')
    BY <1>6, TopFrame, LenProperties DEF Inductive, TypeOK
  <2>2. \A k \in 1 .. Len(stack') : stack'[k].kind = "take" => k = Len(stack')
    BY <1>6, <2>1 DEF Guarded, Top
  <2>3. ASSUME NEW k \in 1 .. Len(stack')
        PROVE  Covered(stack'[k].saved.ledger, TakeUnder(stack', take', k))
    <3>1. k \in Nat /\ \A j \in 1 .. (k - 1) : stack'[j].kind # "take"
      BY <2>1, <2>2
    <3>2. TakeUnder(stack', take', k) = NoTake
      BY <3>1, NoTakeUnder
    <3> QED
      BY <3>2, NoTakePhase DEF Covered
  <2> QED
    BY <2>3 DEF RestoresCovered
<1> QED
  BY <1>4, <1>5, <1>7 DEF Flushing

\* A skip, and the push of the taker's input, leave the slots and the total as
\* they are.
LEMMA SameTotalCovered ==
    ASSUME Inductive, Flushing, InTake("loop"), SameSlots(ledger, ledger'), stack' = stack,
           take'.phase \in {"loop", "sent"}, take'.config = take.config,
           take'.totalOut = take.totalOut, take'.taken = take.taken
    PROVE  Flushing'
<1>1. stack # <<>> /\ Top.kind = "take" /\ take.phase = "loop"
  BY DEF InTake
<1>2. RestoresCovered(stack', take')
  BY <1>1, RetakeCovered
<1>3. SlotSum(ledger', InputToken(take.config)) = SlotSum(ledger, InputToken(take.config))
  BY <1>1, BatchTokens, SlotSumSame DEF SameSlots
<1>4. Covered(ledger', take')
  BY <1>1, <1>3 DEF Flushing, Covered
<1> QED
  BY <1>2, <1>4 DEF Flushing

LEMMA TakeSkipCovered ==
    ASSUME Inductive, Flushing, TakeSkip
    PROVE  Flushing'
<1>1. /\ InTake("loop") /\ take' = [take EXCEPT !.i = @ + 1, !.ext = FALSE]
      /\ ledger' = ledger /\ stack' = stack
  BY DEF TakeSkip
<1>2. take \in TakeType /\ take.phase = "loop"
  BY <1>1, InBatch
<1>3. /\ take'.phase = "loop" /\ take'.config = take.config
      /\ take'.totalOut = take.totalOut /\ take'.taken = take.taken
  BY <1>1, <1>2 DEF TakeType
<1> QED
  BY <1>1, <1>3, SameTotalCovered DEF SameSlots

LEMMA TakeSendCovered ==
    ASSUME Inductive, Flushing, TakeSend
    PROVE  Flushing'
<1>1. /\ InTake("loop")
      /\ CanPush(ledger, OutputToken(take.config), take.totalIn)
      /\ ledger' = pushTokens(ledger, take.config.taker, OutputToken(take.config), take.totalIn)
      /\ take' = [take EXCEPT !.phase = "sent", !.i = 1,
                              !.ext = take.config.data /\ take.taken # <<>>]
      /\ stack' = stack
  BY DEF TakeSend
<1>2. /\ take \in TakeType /\ ledger \in Ledgers /\ take.totalIn \in Nat
      /\ take.config \in TakeConfigType /\ take.config.legs # <<>>
  BY <1>1, InBatch
<1>3. OutputToken(take.config) \in Tokens /\ take.config.taker \in Accounts
  BY <1>2, ConfigTokens
<1>4. /\ take'.phase = "sent" /\ take'.config = take.config
      /\ take'.totalOut = take.totalOut /\ take'.taken = take.taken
  BY <1>1, <1>2 DEF TakeType
<1>5. SameSlots(ledger, ledger')
  BY <1>1, <1>2, <1>3, PushMoves DEF SameSlots
<1> QED
  BY <1>1, <1>4, <1>5, SameTotalCovered

LEMMA TransferCovered ==
    ASSUME Inductive, Flushing, NEW x \in Transfers, Transfer(x)
    PROVE  Flushing'
<1>1. Window /\ take' = take /\ stack' = stack
  BY DEF Transfer
<1>2. ledger \in Ledgers
  BY DEF Inductive, TypeOK
<1>3. ledger'.vault = ledger.vault
  BY <1>2 DEF Transfer, Ledgers
<1> QED
  BY <1>1, <1>3, FlushShut, AsideCovered DEF Flushing, SameSlots

LEMMA ApproveCovered ==
    ASSUME Inductive, Flushing, NEW a, NEW t, NEW n, Approve(a, t, n)
    PROVE  Flushing'
<1>1. Window /\ take' = take /\ stack' = stack
  BY DEF Approve
<1>2. ledger \in Ledgers
  BY DEF Inductive, TypeOK
<1>3. ledger'.vault = ledger.vault
  BY <1>2 DEF Approve, Ledgers
<1> QED
  BY <1>1, <1>3, FlushShut, AsideCovered DEF Flushing, SameSlots

LEMMA FlashLoanCovered ==
    ASSUME Inductive, Flushing, NEW a \in Accounts, NEW t \in Tokens, NEW n \in LoanAmounts,
           FlashLoan(a, t, n)
    PROVE  Flushing'
<1> DEFINE f == [kind |-> "flash", caller |-> a, token |-> t, amount |-> n,
                 lent |-> [Lent EXCEPT ![t] = @ + n], saved |-> Saved]
<1>1. /\ Window /\ CanTransferOut(ledger, t, n) /\ ledger' = TransferOut(ledger, a, t, n)
      /\ stack' = Append(stack, f) /\ take' = take
  BY DEF FlashLoan
<1>2. n \in Nat /\ ledger \in Ledgers /\ Saved \in SavedType /\ Lent \in [Tokens -> Nat]
  BY RaindexAssumption, SoundNow DEF Inductive, TypeOK
<1>3. f \in FrameType /\ f.saved = Saved
  <2>1. [Lent EXCEPT ![t] = @ + n] \in [Tokens -> Nat]
    BY <1>2
  <2> QED
    BY <1>2, <2>1 DEF FrameType
<1>4. SameSlots(ledger, ledger')
  BY <1>1, <1>2, TransferOutMoves DEF SameSlots
<1> HIDE DEF f
<1>5. RestoresCovered(stack', take)
  BY <1>1, <1>3, PushCovered
<1> QED
  BY <1>1, <1>4, <1>5, FlushShut, AsideCovered

LEMMA FlashRepayCovered ==
    ASSUME Inductive, Flushing, FlashRepay
    PROVE  Flushing'
<1>1. /\ stack # <<>> /\ Top.kind = "flash" /\ stack' = Below /\ take' = take
      /\ CanTransferIn(ledger, Top.caller, Top.token, Top.amount)
      /\ ledger' = TransferIn(ledger, Top.caller, Top.token, Top.amount)
  BY DEF FlashRepay
<1>2. Top \in FrameType /\ ledger \in Ledgers
  BY <1>1, TopFrame DEF Inductive, TypeOK, Top
<1>3. Top.caller \in Accounts /\ Top.token \in Tokens /\ Top.amount \in Nat
  BY <1>1, <1>2, FrameFields
<1>4. SameSlots(ledger, ledger')
  BY <1>1, <1>2, <1>3, TransferInMoves DEF SameSlots
<1>5. take.phase # "flush" /\ RestoresCovered(stack', take)
  BY <1>1, PopCovered DEF Flushing
<1> QED
  BY <1>1, <1>4, <1>5, AsideCovered

LEMMA RevertCovered ==
    ASSUME Inductive, Flushing, Revert
    PROVE  Flushing'
<1>1. /\ stack # <<>> /\ ledger' = Top.saved.ledger /\ stack' = Below
      /\ take' = IF Top.kind = "take" THEN NoTake ELSE take
  BY DEF Revert
<1>2. CASE Top.kind = "take" \/ take.phase = "none"
  <2>1. take' = NoTake
    BY <1>1, <1>2, TakePhases DEF Inductive, TypeOK, Takes
  <2> QED
    BY <2>1, CoveredIdle
<1>3. CASE Top.kind # "take" /\ take.phase # "none"
  <2>1. /\ stack \in Seq(FrameType) /\ Guarded(stack, entered, take)
        /\ Len(stack) \in Nat /\ Len(stack) \in 1 .. Len(stack)
    BY <1>1, TopFrame, LenProperties DEF Inductive, TypeOK
  <2>2. PICK k \in 1 .. Len(stack) : stack[k].kind = "take"
    BY <1>3, <2>1 DEF Guarded
  <2>3. k \in 1 .. (Len(stack) - 1)
    BY <1>3, <2>1, <2>2 DEF Top
  <2>4. TakeUnder(stack, take, Len(stack)) = take
    BY <2>2, <2>3 DEF TakeUnder
  <2>5. Covered(Top.saved.ledger, TakeUnder(stack, take, Len(stack)))
    BY <2>1 DEF Flushing, RestoresCovered, Top
  <2>6. Covered(ledger', take') /\ take' = take
    BY <1>1, <1>3, <2>4, <2>5
  <2>7. take.phase # "flush"
    BY <1>3 DEF Flushing
  <2> QED
    BY <1>1, <2>6, <2>7, PopCovered DEF Flushing
<1> QED
  BY <1>2, <1>3

LEMMA FlushingStep ==
    ASSUME Inductive, Flushing, [Next]_vars
    PROVE  Flushing'
<1>1. ASSUME NEW a \in Accounts, NEW t \in Tokens, NEW n \in Approvals, Approve(a, t, n)
      PROVE  Flushing'
  BY <1>1, ApproveCovered
<1>2. ASSUME NEW x \in Transfers, Transfer(x) PROVE Flushing'
  BY <1>2, TransferCovered
<1>3. ASSUME NEW a, NEW t, NEW v, NEW q, Deposit(a, t, v, q) \/ Withdraw(a, t, v, q)
      PROVE  Flushing'
  BY <1>3, IdleCovered DEF Deposit, Withdraw, EnterPost, EnterAs
<1>4. ASSUME NEW a, Entask(a) \/ AddOrder(a) PROVE Flushing'
  BY <1>4, IdleCovered DEF Entask, AddOrder, EnterPost, EnterAs
<1>5. ASSUME NEW a, NEW o, RemoveOrder(a, o) PROVE Flushing'
  BY <1>5, IdleCovered DEF RemoveOrder, EnterPost, EnterAs
<1>6. ASSUME NEW a, NEW p, NEW q, NEW v, NEW w, Clear(a, p, q, v, w) PROVE Flushing'
  BY <1>6, IdleCovered DEF Clear, EnterAs
<1>7. ASSUME NEW c \in TakeConfigs, TakeBegin(c) PROVE Flushing'
  BY <1>7, TakeBeginCovered
<1>8. CASE TakeSkip
  BY <1>8, TakeSkipCovered
<1>9. CASE TakeOrder
  BY <1>9, TakeOrderCovered
<1>10. CASE TakeSend
  BY <1>10, TakeSendCovered
<1>11. CASE TakePay
  BY <1>11, TakePayCovered
<1>12. CASE TakeFlush
  BY <1>12, TakeFlushCovered
<1>13. CASE TakeReturn
  BY <1>13, CoveredIdle DEF TakeReturn
<1>14. ASSUME NEW a \in Accounts, NEW t \in Tokens, NEW n \in LoanAmounts, FlashLoan(a, t, n)
       PROVE  Flushing'
  BY <1>14, FlashLoanCovered
<1>15. CASE FlashRepay
  BY <1>15, FlashRepayCovered
<1>16. CASE PostReturn
  <2>1. /\ stack # <<>> /\ Top.kind # "take" /\ stack' = Below
        /\ take' = take /\ ledger' = ledger
    BY <1>16 DEF PostReturn
  <2> QED
    BY <2>1, PopCovered DEF Flushing
<1>17. CASE PostTask \/ UNCHANGED vars
  <2>1. stack' = stack /\ take' = take /\ ledger' = ledger
    BY <1>17 DEF PostTask, vars
  <2> QED
    BY <2>1 DEF Flushing, Top
<1>18. CASE Revert
  BY <1>18, RevertCovered
<1> QED
  BY <1>1, <1>2, <1>3, <1>4, <1>5, <1>6, <1>7, <1>8, <1>9, <1>10, <1>11, <1>12, <1>13,
     <1>14, <1>15, <1>16, <1>17, <1>18 DEF Next

\* Once the taker has paid, every push of an accrued vault 0 input succeeds,
\* whatever flash loans are out below the call and however often its window let
\* others move tokens: takeOrders5 cannot be made to fail in its flush.
THEOREM FlushAlwaysCovered == Spec => []FlushCovered
<1>1. Init => Flushing
  <2> SUFFICES ASSUME Init PROVE Flushing
    OBVIOUS
  <2>1. take = NoTake /\ stack = <<>> /\ Len(stack) = 0
    BY DEF Init
  <2> QED
    BY <2>1, NoTakePhase DEF Flushing, Covered, RestoresCovered
<1>2. Inductive /\ Flushing /\ [Next]_vars => Flushing'
  BY FlushingStep
<1>3. Inductive /\ Flushing => FlushCovered
  <2> SUFFICES ASSUME Inductive, Flushing, take.phase = "flush",
                      NEW j \in take.i .. Len(take.taken)
               PROVE  CanPush(ledger, take.taken[j].in.token,
                              Accrued(ledger, take.taken[j].order.owner, take.taken[j].in))
    BY DEF FlushCovered
  <2> DEFINE t == InputToken(take.config)
             leg == take.taken[j]
             q == Accrued(ledger, leg.order.owner, leg.in)
  <2>1. /\ take \in TakeType /\ t \in Tokens /\ ledger \in Ledgers /\ take.taken \in Seq(Legs)
        /\ take.i \in Nat /\ take.i >= 1
    BY BatchTokens, TakeFields DEF Inductive, TypeOK, BatchOK
  <2>2. j \in DOMAIN take.taken /\ leg \in Legs
    BY <2>1, LenProperties
  <2>3. leg.in.token = t /\ SlotSum(ledger, t) <= FromUnits(t, ledger.wallet[Raindex][t])
    BY <2>2 DEF Flushing, Covered
  <2> HIDE DEF t, leg
  <2>4. leg.order.owner \in Accounts
    BY <2>2, LegFields
  <2>5. q \in Nat /\ q <= SlotSum(ledger, t)
    BY <2>1, <2>3, <2>4, SlotWithinSum, SlotSumNat DEF Accrued
  <2>6. SlotSum(ledger, t) \in Nat /\ FromUnits(t, ledger.wallet[Raindex][t]) \in Nat
    BY <2>1, SlotSumNat, WalletUnits
  <2> HIDE DEF q
  <2>7. q <= FromUnits(t, ledger.wallet[Raindex][t])
    BY <2>3, <2>5, <2>6
  <2> QED
    BY <2>1, <2>3, <2>5, <2>7, CoveredPush DEF q, leg
<1> QED
  BY <1>1, <1>2, <1>3, AlwaysInductive, PTL DEF Spec

-----------------------------------------------------------------------------
(* Who lowers a vault.                                                     *)

\* No vault other than 0 has less in M than in L.
NoneLower(L, M) ==
    \A o \in Accounts, t \in Tokens, v \in VaultIds \ {0} :
        ~(M.vault[o][t][v] < L.vault[o][t][v])

\* None has but the vault io of o, and q is taken out of that one.
OnlyLower(L, M, o, io, q) ==
    \A p \in Accounts, t \in Tokens, v \in VaultIds \ {0} :
        M.vault[p][t][v] < L.vault[p][t][v] =>
            p = o /\ io = [token |-> t, vault |-> v] /\ q > 0

LEMMA SameVaults ==
    ASSUME NEW L \in Ledgers, NEW M, M.vault = L.vault
    PROVE  NoneLower(L, M)
<1>1. \A o \in Accounts, t \in Tokens, v \in VaultIds : L.vault[o][t][v] \in Nat
  BY DEF Ledgers
<1> QED
  BY <1>1 DEF NoneLower

LEMMA CreditRaises ==
    ASSUME NEW L \in Ledgers, NEW o \in Accounts, NEW t \in Tokens, NEW v \in VaultIds,
           NEW q \in Nat
    PROVE  Credit(L, o, t, v, q) \in Ledgers /\ NoneLower(L, Credit(L, o, t, v, q))
<1>1. Credit(L, o, t, v, q) \in Ledgers
  BY CreditMoves DEF Moves
<1>2. \A p \in Accounts, s \in Tokens, w \in VaultIds :
         Credit(L, o, t, v, q).vault[p][s][w] =
            IF p = o /\ s = t /\ w = v THEN L.vault[p][s][w] + q ELSE L.vault[p][s][w]
  BY DEF Credit, Ledgers
<1>3. \A p \in Accounts, s \in Tokens, w \in VaultIds : L.vault[p][s][w] \in Nat
  BY DEF Ledgers
<1> QED
  BY <1>1, <1>2, <1>3 DEF NoneLower

LEMMA DebitLowers ==
    ASSUME NEW L \in Ledgers, NEW o \in Accounts, NEW io \in [token : Tokens, vault : VaultIds],
           NEW q \in Nat
    PROVE  OnlyLower(L, Debit(L, o, io.token, io.vault, q), o, io, q)
<1>1. \A p \in Accounts, s \in Tokens, w \in VaultIds :
         Debit(L, o, io.token, io.vault, q).vault[p][s][w] =
            IF p = o /\ s = io.token /\ w = io.vault THEN L.vault[p][s][w] - q ELSE L.vault[p][s][w]
  BY DEF Debit, Ledgers
<1>2. \A p \in Accounts, s \in Tokens, w \in VaultIds : L.vault[p][s][w] \in Nat
  BY DEF Ledgers
<1> QED
  BY <1>1, <1>2 DEF OnlyLower

LEMMA IncreaseRaises ==
    ASSUME NEW L \in Ledgers, NEW o \in Accounts, NEW t \in Tokens, NEW v \in VaultIds,
           NEW q \in Nat, CanIncrease(L, t, v, q)
    PROVE  /\ increaseVaultBalance(L, o, t, v, q) \in Ledgers
           /\ NoneLower(L, increaseVaultBalance(L, o, t, v, q))
<1>1. CASE v = 0
  <2>1. increaseVaultBalance(L, o, t, v, q) = pushTokens(L, o, t, q) /\ CanPush(L, t, q)
    BY <1>1 DEF increaseVaultBalance, CanIncrease
  <2> QED
    BY <2>1, PushMoves, SameVaults DEF Moves
<1>2. CASE v # 0
  BY <1>2, CreditRaises DEF increaseVaultBalance
<1> QED
  BY <1>1, <1>2

LEMMA DecreaseLowers ==
    ASSUME NEW L \in Ledgers, NEW o \in Accounts, NEW io \in [token : Tokens, vault : VaultIds],
           NEW q \in Nat, CanDecrease(L, o, io.token, io.vault, q)
    PROVE  /\ decreaseVaultBalance(L, o, io.token, io.vault, q) \in Ledgers
           /\ OnlyLower(L, decreaseVaultBalance(L, o, io.token, io.vault, q), o, io, q)
<1>0. decreaseVaultBalance(L, o, io.token, io.vault, q) \in Ledgers
  BY DecreaseMoves DEF Moves
<1>1. CASE io.vault = 0
  <2>1. decreaseVaultBalance(L, o, io.token, io.vault, q) = pullTokens(L, o, io.token, q)
    BY <1>1 DEF decreaseVaultBalance
  <2>2. CanPull(L, o, io.token, q)
    BY <1>1 DEF CanDecrease
  <2>3. NoneLower(L, pullTokens(L, o, io.token, q))
    BY <2>2, PullMoves, SameVaults
  <2> QED
    BY <1>0, <2>1, <2>3 DEF NoneLower, OnlyLower
<1>2. CASE io.vault # 0
  BY <1>0, <1>2, DebitLowers DEF decreaseVaultBalance
<1> QED
  BY <1>1, <1>2

LEMMA RecordInputRaises ==
    ASSUME NEW L \in Ledgers, NEW o \in Accounts,
           NEW io \in [token : Tokens, vault : VaultIds], NEW q \in Nat
    PROVE  /\ recordVaultInput(L, o, io, q) \in Ledgers
           /\ NoneLower(L, recordVaultInput(L, o, io, q))
<1>1. recordVaultInput(L, o, io, q) = Credit(L, o, io.token, io.vault, q)
  BY DEF recordVaultInput, increaseVaultBalance
<1> QED
  BY <1>1, CreditRaises

LEMMA FlushRaises ==
    ASSUME NEW L \in Ledgers, NEW o \in Accounts,
           NEW io \in [token : Tokens, vault : VaultIds],
           CanPush(L, io.token, Accrued(L, o, io))
    PROVE  /\ pushVaultZeroInput(L, o, io) \in Ledgers
           /\ NoneLower(L, pushVaultZeroInput(L, o, io))
<1> DEFINE q == Accrued(L, o, io)
           M == Debit(L, o, io.token, 0, q)
<1>0. pushVaultZeroInput(L, o, io) \in Ledgers
  BY FlushMoves DEF Moves
<1>1. CASE q = 0
  BY <1>0, <1>1, SameVaults DEF pushVaultZeroInput
<1>2. CASE q # 0
  <2>1. io.vault = 0 /\ q = L.vault[o][io.token][0] /\ q \in Nat
    BY <1>2, LedgerAssumption DEF Accrued, Ledgers
  <2>2. M \in Ledgers
    BY <2>1, LedgerAssumption, DebitMoves DEF Moves
  <2>3. M.wallet = L.wallet
    BY DEF Debit, Ledgers
  <2>4. CanPush(M, io.token, q)
    BY <2>3 DEF CanPush, CanTransferOut
  <2>5. pushVaultZeroInput(L, o, io) = pushTokens(M, o, io.token, q)
    BY <1>2 DEF pushVaultZeroInput
  <2>6. OnlyLower(L, M, o, io, q)
    BY <2>1, DebitLowers
  <2> HIDE DEF M, q
  <2>7. pushTokens(M, o, io.token, q).vault = M.vault
    BY <2>1, <2>2, <2>4, PushMoves
  <2>8. NoneLower(L, M)
    BY <2>1, <2>6 DEF NoneLower, OnlyLower
  <2> QED
    BY <1>0, <2>5, <2>7, <2>8 DEF NoneLower
<1> QED
  BY <1>1, <1>2

LEMMA VaultNat ==
    ASSUME NEW L \in Ledgers
    PROVE  \A o \in Accounts, t \in Tokens, v \in VaultIds : L.vault[o][t][v] \in Nat
  BY DEF Ledgers

LEMMA LowerTrans ==
    ASSUME NEW L \in Ledgers, NEW M \in Ledgers, NEW N \in Ledgers,
           NoneLower(L, M), NoneLower(M, N)
    PROVE  NoneLower(L, N)
  BY VaultNat DEF NoneLower

\* A trade of a live order takes from the vault of its output only, and the
\* owner's store goes up by what it took.
LEMMA TradeByOwner ==
    ASSUME NEW L \in Ledgers, NEW M \in Ledgers, NEW leg \in Legs, NEW q \in Nat,
           leg.order \in live, OnlyLower(L, M, leg.order.owner, leg.out, q),
           NEW o \in Accounts, NEW t \in Tokens, NEW v \in VaultIds \ {0},
           M.vault[o][t][v] < L.vault[o][t][v]
    PROVE  /\ o = leg.order.owner /\ q > 0
           /\ \E order \in live : order.owner = o /\ [token |-> t, vault |-> v] \in order.outputs
<1>1. o = leg.order.owner /\ leg.out = [token |-> t, vault |-> v] /\ q > 0
  BY DEF OnlyLower
<1>2. leg.out \in leg.order.outputs
  BY DEF Legs
<1> QED
  BY <1>1, <1>2

\* What the action property says of one step.
LowersAllowed ==
    \A o \in Accounts, t \in Tokens, v \in VaultIds \ {0} :
        ledger'.vault[o][t][v] < ledger.vault[o][t][v] => LoweredByOwner(o, t, v)

LEMMA RaisesAllowed ==
    ASSUME NoneLower(ledger, ledger')
    PROVE  LowersAllowed
  BY DEF NoneLower, LowersAllowed

LEMMA SameAllowed ==
    ASSUME Inductive, ledger'.vault = ledger.vault
    PROVE  LowersAllowed
  BY SameVaults, RaisesAllowed DEF Inductive, TypeOK

LEMMA PopAllowed ==
    ASSUME Inductive, stack # <<>>, stack' = Below
    PROVE  LowersAllowed
<1>1. Len(stack') = Len(stack) - 1 /\ Len(stack) \in Nat \ {0}
  BY Popped DEF Inductive, TypeOK, Below
<1>2. Len(stack') < Len(stack)
  BY <1>1
<1> QED
  BY <1>2 DEF LowersAllowed, LoweredByOwner

LEMMA EnterTop ==
    ASSUME Inductive, NEW kind \in {"post", "handle"}, NEW caller \in Accounts,
           EnterAs(kind, caller)
    PROVE  Len(stack') > Len(stack) /\ stack'[Len(stack')].caller = caller
<1> DEFINE f == [kind |-> kind, caller |-> caller, lent |-> Lent, saved |-> Saved]
<1>1. stack' = Append(stack, f)
  BY DEF EnterAs
<1>2. Saved \in SavedType /\ Lent \in [Tokens -> Nat] /\ stack \in Seq(FrameType)
  BY SoundNow DEF Inductive, TypeOK
<1>3. f \in FrameType /\ f.caller = caller
  BY <1>2 DEF FrameType
<1> HIDE DEF f
<1>4. Len(stack') = Len(stack) + 1 /\ stack'[Len(stack) + 1] = f /\ Len(stack) \in Nat
  BY <1>1, <1>2, <1>3, Pushed
<1> QED
  BY <1>3, <1>4

LEMMA DepositAllowed ==
    ASSUME Inductive, NEW a \in Accounts, NEW t \in Tokens, NEW v \in VaultIds, NEW q \in Amounts,
           Deposit(a, t, v, q)
    PROVE  LowersAllowed
<1> DEFINE L == pullTokens(ledger, a, t, q)
<1>1. v # 0 /\ CanPull(ledger, a, t, q) /\ ledger' = increaseVaultBalance(L, a, t, v, q)
  BY DEF Deposit
<1>2. q \in Nat /\ ledger \in Ledgers
  BY RaindexAssumption DEF Deposit, Inductive, TypeOK
<1>3. L \in Ledgers /\ L.vault = ledger.vault
  BY <1>1, <1>2, PullMoves DEF Moves
<1> HIDE DEF L
<1>4. CanIncrease(L, t, v, q)
  BY <1>1, <1>2 DEF CanIncrease
<1>5. ledger' \in Ledgers /\ NoneLower(L, ledger')
  BY <1>1, <1>2, <1>3, <1>4, IncreaseRaises
<1> QED
  BY <1>2, <1>3, <1>5, SameVaults, LowerTrans, RaisesAllowed

LEMMA WithdrawAllowed ==
    ASSUME Inductive, NEW a \in Accounts, NEW t \in Tokens, NEW v \in VaultIds,
           NEW target \in Amounts, Withdraw(a, t, v, target)
    PROVE  LowersAllowed
<1> DEFINE q == MinOf(target, vaultBalance(ledger, a, t, v))
           io == [token |-> t, vault |-> v]
           L == decreaseVaultBalance(ledger, a, io.token, io.vault, q)
<1>1. /\ EnterAs("post", a) /\ v # 0 /\ CanDecrease(ledger, a, io.token, io.vault, q)
      /\ CanPush(L, t, q) /\ ledger' = pushTokens(L, a, t, q)
  BY DEF Withdraw, EnterPost
<1>2. ledger \in Ledgers /\ io \in [token : Tokens, vault : VaultIds]
  BY DEF Inductive, TypeOK
<1>3. q \in Nat
  <2>1. target \in Int /\ target > 0
    BY RaindexAssumption DEF Withdraw
  <2>2. vaultBalance(ledger, a, t, v) \in Nat
    BY <1>1, <1>2 DEF vaultBalance, Ledgers
  <2> QED
    BY <2>1, <2>2, MinOfProperties
<1> HIDE DEF q, io
<1>4. L \in Ledgers /\ OnlyLower(ledger, L, a, io, q)
  BY <1>1, <1>2, <1>3, DecreaseLowers
<1> HIDE DEF L
<1>5. ledger'.vault = L.vault
  BY <1>1, <1>3, <1>4, PushMoves
<1>6. Len(stack') > Len(stack) /\ stack'[Len(stack')].caller = a
  BY <1>1, EnterTop
<1> QED
  BY <1>4, <1>5, <1>6 DEF OnlyLower, LowersAllowed, LoweredByOwner

LEMMA TakeOrderAllowed ==
    ASSUME Inductive, TakeOrder
    PROVE  LowersAllowed
<1>1. PICK leg \in Legs, a \in Nat, b \in Nat :
             /\ leg.order \in live
             /\ CanDecrease(ledger, leg.order.owner, leg.out.token, leg.out.vault, a)
             /\ ledger' = recordVaultInput(recordVaultOutput(ledger, leg.order.owner, leg.out, a),
                                           leg.order.owner, leg.in, b)
             /\ store' = handleIO(store, leg, a)
  BY FillStep
<1> DEFINE L == recordVaultOutput(ledger, leg.order.owner, leg.out, a)
<1>2. ledger \in Ledgers /\ store \in [Accounts -> Nat]
  BY DEF Inductive, TypeOK
<1>3. L \in Ledgers /\ OnlyLower(ledger, L, leg.order.owner, leg.out, a)
  BY <1>1, <1>2, LegFields, DecreaseLowers DEF recordVaultOutput
<1> HIDE DEF L
<1>4. ledger' \in Ledgers /\ NoneLower(L, ledger')
  BY <1>1, <1>3, LegFields, RecordInputRaises DEF L
<1>5. OnlyLower(ledger, ledger', leg.order.owner, leg.out, a)
  BY <1>2, <1>3, <1>4, VaultNat DEF OnlyLower, NoneLower
<1>6. store[leg.order.owner] \in Nat /\ store'[leg.order.owner] = store[leg.order.owner] + a
  BY <1>1, <1>2, HandledStore, LegFields
<1> SUFFICES ASSUME NEW o \in Accounts, NEW t \in Tokens, NEW v \in VaultIds \ {0},
                    ledger'.vault[o][t][v] < ledger.vault[o][t][v]
             PROVE  LoweredByOwner(o, t, v)
  BY DEF LowersAllowed
<1>7. /\ o = leg.order.owner /\ a > 0
      /\ \E order \in live : order.owner = o /\ [token |-> t, vault |-> v] \in order.outputs
  BY <1>1, <1>2, <1>4, <1>5, TradeByOwner
<1>8. store'[o] > store[o]
  BY <1>6, <1>7
<1> QED
  BY <1>7, <1>8 DEF LoweredByOwner

LEMMA ClearAllowed ==
    ASSUME Inductive, NEW caller \in Accounts, NEW alice \in Legs, NEW bob \in Legs,
           NEW v \in VaultIds, NEW w \in VaultIds, Clear(caller, alice, bob, v, w)
    PROVE  LowersAllowed
<1> DEFINE A == alice.order.owner
           B == bob.order.owner
           X == alice.out.token
<1>0. CanEnter /\ A # B /\ alice.order \in live /\ bob.order \in live
  BY DEF Clear, CanMeet, IsLive
<1>1. PICK p \in calculateOrderIO(alice), q \in calculateOrderIO(bob) :
        LET change == calculateClearStateChange(p, q)
            L1 == recordVaultOutput(ledger, A, alice.out, change.alice.output)
            L2 == recordVaultOutput(L1, B, bob.out, change.bob.output)
            L3 == recordVaultInput(L2, A, alice.in, change.alice.input)
            L4 == recordVaultInput(L3, B, bob.in, change.bob.input)
            L5 == pushVaultZeroInput(L4, A, alice.in)
            L6 == pushVaultZeroInput(L5, B, bob.in)
            L7 == increaseVaultBalance(L6, caller, X, v, change.aliceBounty)
        IN  /\ IsClearable(p)
            /\ IsClearable(q)
            /\ change.aliceBounty >= 0
            /\ change.bobBounty >= 0
            /\ CanDecrease(ledger, A, alice.out.token, alice.out.vault, change.alice.output)
            /\ CanDecrease(L1, B, bob.out.token, bob.out.vault, change.bob.output)
            /\ CanPush(L4, alice.in.token, Accrued(L4, A, alice.in))
            /\ CanPush(L5, bob.in.token, Accrued(L5, B, bob.in))
            /\ CanIncrease(L6, X, v, change.aliceBounty)
            /\ CanIncrease(L7, bob.out.token, w, change.bobBounty)
            /\ ledger' = increaseVaultBalance(L7, caller, bob.out.token, w, change.bobBounty)
            /\ store' = handleIO(handleIO(store, alice, change.alice.output),
                                 bob, change.bob.output)
  BY DEF Clear
<1> DEFINE change == calculateClearStateChange(p, q)
           ao == change.alice.output
           ai == change.alice.input
           bo == change.bob.output
           bi == change.bob.input
           ab == change.aliceBounty
           bb == change.bobBounty
           L1 == recordVaultOutput(ledger, A, alice.out, ao)
           L2 == recordVaultOutput(L1, B, bob.out, bo)
           L3 == recordVaultInput(L2, A, alice.in, ai)
           L4 == recordVaultInput(L3, B, bob.in, bi)
           L5 == pushVaultZeroInput(L4, A, alice.in)
           L6 == pushVaultZeroInput(L5, B, bob.in)
           L7 == increaseVaultBalance(L6, caller, X, v, ab)
<1>2. /\ IsClearable(p) /\ IsClearable(q) /\ ab >= 0 /\ bb >= 0
      /\ CanDecrease(ledger, A, alice.out.token, alice.out.vault, ao)
      /\ CanDecrease(L1, B, bob.out.token, bob.out.vault, bo)
      /\ CanPush(L4, alice.in.token, Accrued(L4, A, alice.in))
      /\ CanPush(L5, bob.in.token, Accrued(L5, B, bob.in))
      /\ CanIncrease(L6, X, v, ab)
      /\ CanIncrease(L7, bob.out.token, w, bb)
      /\ ledger' = increaseVaultBalance(L7, caller, bob.out.token, w, bb)
      /\ store' = handleIO(handleIO(store, alice, ao), bob, bo)
  BY <1>1
<1>3. ledger \in Ledgers /\ store \in [Accounts -> Nat]
  BY DEF Inductive, TypeOK
<1>4. p \in Calculations /\ q \in Calculations
  BY <1>0, <1>3, Idle, CalculationBounds
<1>5. /\ ai \in Nat /\ ao \in Nat /\ bi \in Nat /\ bo \in Nat /\ ab = ao - bi /\ bb = bo - ai
  BY <1>2, <1>4, ClearStateCorrect
<1>6. ab \in Nat /\ bb \in Nat
  <2> HIDE DEF ao, ai, bo, bi, ab, bb
  <2> QED
    BY <1>2, <1>5
<1>7. /\ A \in Accounts /\ B \in Accounts /\ X \in Tokens /\ bob.out.token \in Tokens
      /\ alice.in \in [token : Tokens, vault : VaultIds]
      /\ alice.out \in [token : Tokens, vault : VaultIds]
      /\ bob.in \in [token : Tokens, vault : VaultIds]
      /\ bob.out \in [token : Tokens, vault : VaultIds]
  BY LegFields
<1> HIDE DEF change, ao, ai, bo, bi, ab, bb
<1>8. L1 \in Ledgers /\ OnlyLower(ledger, L1, A, alice.out, ao)
  BY <1>2, <1>3, <1>5, <1>7, DecreaseLowers DEF recordVaultOutput
<1> HIDE DEF L1
<1>9. L2 \in Ledgers /\ OnlyLower(L1, L2, B, bob.out, bo)
  BY <1>2, <1>5, <1>7, <1>8, DecreaseLowers DEF recordVaultOutput
<1> HIDE DEF L2
<1>10. L3 \in Ledgers /\ NoneLower(L2, L3)
  BY <1>5, <1>7, <1>9, RecordInputRaises
<1> HIDE DEF L3
<1>11. L4 \in Ledgers /\ NoneLower(L3, L4)
  BY <1>5, <1>7, <1>10, RecordInputRaises
<1> HIDE DEF L4
<1>12. L5 \in Ledgers /\ NoneLower(L4, L5)
  BY <1>2, <1>7, <1>11, FlushRaises
<1> HIDE DEF L5
<1>13. L6 \in Ledgers /\ NoneLower(L5, L6)
  BY <1>2, <1>7, <1>12, FlushRaises
<1> HIDE DEF L6
<1>14. L7 \in Ledgers /\ NoneLower(L6, L7)
  BY <1>2, <1>6, <1>7, <1>13, IncreaseRaises
<1> HIDE DEF L7
<1>15. ledger' \in Ledgers /\ NoneLower(L7, ledger')
  BY <1>2, <1>6, <1>7, <1>14, IncreaseRaises
<1>16. NoneLower(L2, ledger')
  <2>1. NoneLower(L2, L4)
    BY <1>9, <1>10, <1>11, LowerTrans
  <2>2. NoneLower(L2, L5)
    BY <2>1, <1>9, <1>11, <1>12, LowerTrans
  <2>3. NoneLower(L2, L6)
    BY <2>2, <1>9, <1>12, <1>13, LowerTrans
  <2>4. NoneLower(L2, L7)
    BY <2>3, <1>9, <1>13, <1>14, LowerTrans
  <2> QED
    BY <2>4, <1>9, <1>14, <1>15, LowerTrans
<1>17. store'[A] = store[A] + ao /\ store'[B] = store[B] + bo /\ store[A] \in Nat /\ store[B] \in Nat
  <2> DEFINE s == handleIO(store, alice, ao)
  <2>1. /\ s \in [Accounts -> Nat]
        /\ \A o \in Accounts : s[o] = IF o = A THEN store[o] + ao ELSE store[o]
    BY <1>3, <1>5, HandledStore
  <2>2. store' = handleIO(s, bob, bo)
    BY <1>2
  <2> HIDE DEF s
  <2>3. \A o \in Accounts : store'[o] = IF o = B THEN s[o] + bo ELSE s[o]
    <3>1. \A o \in Accounts : handleIO(s, bob, bo)[o] = IF o = B THEN s[o] + bo ELSE s[o]
      BY <1>5, <2>1, HandledStore
    <3> QED
      BY <2>2, <3>1
  <2> HIDE DEF A, B
  <2> QED
    BY <1>0, <1>3, <1>7, <2>1, <2>3
<1> SUFFICES ASSUME NEW o \in Accounts, NEW t \in Tokens, NEW z \in VaultIds \ {0},
                    ledger'.vault[o][t][z] < ledger.vault[o][t][z]
             PROVE  LoweredByOwner(o, t, z)
  BY DEF LowersAllowed
<1>18. L1.vault[o][t][z] < ledger.vault[o][t][z] \/ L2.vault[o][t][z] < L1.vault[o][t][z]
  BY <1>3, <1>8, <1>9, <1>15, <1>16, VaultNat DEF NoneLower
<1>19. CASE L1.vault[o][t][z] < ledger.vault[o][t][z]
  <2>1. /\ o = A /\ ao > 0
        /\ \E order \in live : order.owner = o /\ [token |-> t, vault |-> z] \in order.outputs
    BY <1>0, <1>3, <1>5, <1>8, <1>19, TradeByOwner
  <2>2. store'[o] > store[o]
    BY <1>5, <1>17, <2>1
  <2> QED
    BY <2>1, <2>2 DEF LoweredByOwner
<1>20. CASE L2.vault[o][t][z] < L1.vault[o][t][z]
  <2>1. /\ o = B /\ bo > 0
        /\ \E order \in live : order.owner = o /\ [token |-> t, vault |-> z] \in order.outputs
    BY <1>0, <1>5, <1>8, <1>9, <1>20, TradeByOwner
  <2>2. store'[o] > store[o]
    BY <1>5, <1>17, <2>1
  <2> QED
    BY <2>1, <2>2 DEF LoweredByOwner
<1> QED
  BY <1>18, <1>19, <1>20

LEMMA TakeMovesAllowed ==
    ASSUME Inductive, TakeSend \/ TakePay \/ TakeFlush
    PROVE  LowersAllowed
<1>1. PICK phase \in {"loop", "sent", "flush"} : InTake(phase)
  BY DEF TakeSend, TakePay, TakeFlush, InTake
<1> DEFINE c == take.config
<1>2. /\ take \in TakeType /\ ledger \in Ledgers /\ c.taker \in Accounts
      /\ InputToken(c) \in Tokens /\ OutputToken(c) \in Tokens
      /\ take.totalIn \in Nat /\ take.totalOut \in Nat /\ take.taken \in Seq(Legs)
      /\ take.i \in Nat /\ take.i >= 1
  BY <1>1, InBatch, ConfigTokens
<1>3. CASE TakeSend
  BY <1>2, <1>3, PushMoves, SameAllowed DEF TakeSend
<1>4. CASE TakePay
  BY <1>2, <1>4, PullMoves, SameAllowed DEF TakePay
<1>5. CASE TakeFlush
  <2> DEFINE leg == take.taken[take.i]
  <2>1. /\ take.i <= Len(take.taken)
        /\ CanPush(ledger, leg.in.token, Accrued(ledger, leg.order.owner, leg.in))
        /\ ledger' = pushVaultZeroInput(ledger, leg.order.owner, leg.in)
    BY <1>5 DEF TakeFlush
  <2>2. leg \in Legs
    BY <1>2, <2>1, LenProperties
  <2> HIDE DEF leg
  <2> QED
    BY <1>2, <2>1, <2>2, LegFields, FlushRaises, RaisesAllowed
<1> QED
  BY <1>3, <1>4, <1>5

LEMMA AllowedStep ==
    ASSUME Inductive, [Next]_vars
    PROVE  LowersAllowed
<1>0. ledger \in Ledgers
  BY DEF Inductive, TypeOK
<1>1. ASSUME NEW a \in Accounts, NEW t \in Tokens, NEW n \in Approvals, Approve(a, t, n)
      PROVE  LowersAllowed
  <2>1. ledger'.vault = ledger.vault
    BY <1>0, <1>1 DEF Approve, Ledgers
  <2> QED
    BY <2>1, SameAllowed
<1>2. ASSUME NEW x \in Transfers, Transfer(x) PROVE LowersAllowed
  <2>1. ledger'.vault = ledger.vault
    BY <1>0, <1>2 DEF Transfer, Ledgers
  <2> QED
    BY <2>1, SameAllowed
<1>3. ASSUME NEW a \in Accounts, NEW t \in Tokens, NEW v \in VaultIds, NEW q \in Amounts,
             Deposit(a, t, v, q) \/ Withdraw(a, t, v, q)
      PROVE  LowersAllowed
  BY <1>3, DepositAllowed, WithdrawAllowed
<1>4. ASSUME NEW a, Entask(a) \/ AddOrder(a) PROVE LowersAllowed
  BY <1>4, SameAllowed DEF Entask, AddOrder
<1>5. ASSUME NEW a, NEW o, RemoveOrder(a, o) PROVE LowersAllowed
  BY <1>5, SameAllowed DEF RemoveOrder
<1>6. ASSUME NEW a \in Accounts, NEW p \in Legs, NEW q \in Legs, NEW v \in VaultIds,
             NEW w \in VaultIds, Clear(a, p, q, v, w)
      PROVE  LowersAllowed
  BY <1>6, ClearAllowed
<1>7. ASSUME NEW c, TakeBegin(c) PROVE LowersAllowed
  BY <1>7, SameAllowed DEF TakeBegin
<1>8. CASE TakeSkip
  BY <1>8, SameAllowed DEF TakeSkip
<1>9. CASE TakeOrder
  BY <1>9, TakeOrderAllowed
<1>10. CASE TakeSend \/ TakePay \/ TakeFlush
  BY <1>10, TakeMovesAllowed
<1>11. CASE TakeReturn
  BY <1>11, SameAllowed DEF TakeReturn
<1>12. ASSUME NEW a \in Accounts, NEW t \in Tokens, NEW n \in LoanAmounts, FlashLoan(a, t, n)
       PROVE  LowersAllowed
  BY <1>0, <1>12, RaindexAssumption, TransferOutMoves, SameAllowed DEF FlashLoan
<1>13. CASE FlashRepay
  BY <1>13, PopAllowed DEF FlashRepay
<1>14. CASE PostReturn \/ Revert
  BY <1>14, PopAllowed DEF PostReturn, Revert
<1>15. CASE PostTask \/ UNCHANGED vars
  BY <1>15, SameAllowed DEF PostTask, vars
<1> QED
  BY <1>1, <1>2, <1>3, <1>4, <1>5, <1>6, <1>7, <1>8, <1>9, <1>10, <1>11, <1>12, <1>13,
     <1>14, <1>15 DEF Next

\* Nobody else takes from an owner's vault: what is in a vault other than 0
\* goes down only when a call of its owner enters the contract, when a live
\* order of the owner with that vault among its outputs trades and the owner's
\* store records it (takeOrders5, clear4), or when a call returns by reverting.
THEOREM OnlyOwnersLower == Spec => OwnersOnly
<1> DEFINE P == \A o \in Accounts, t \in Tokens, v \in VaultIds \ {0} :
                   ledger'.vault[o][t][v] < ledger.vault[o][t][v] => LoweredByOwner(o, t, v)
<1>1. Inductive /\ [Next]_vars => [P]_vars
  BY AllowedStep DEF LowersAllowed
<1> QED
  BY <1>1, AlwaysInductive, PTL DEF Spec, OwnersOnly
=============================================================================
