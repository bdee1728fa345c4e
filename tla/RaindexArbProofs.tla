-------------------------- MODULE RaindexArbProofs ---------------------------
(***************************************************************************)
(* What the arb contracts promise, for any set of tokens, any amounts and  *)
(* any nesting of calls: between uses the contract's own approvals are     *)
(* taken back and nothing is held but stray coins (EmptyBetweenUses), and  *)
(* during an arb nobody gets a right over the sender's coins that an       *)
(* earlier caller's call had not left (OnlyOwnSteps).                      *)
(***************************************************************************)
EXTENDS RaindexArb, SequenceTheorems, TLAPS

-----------------------------------------------------------------------------
(* The inductive invariant: every approval and every coin belongs to an    *)
(* open call that will still take it back or sweep it, or was left by a    *)
(* call of somebody's choice.                                              *)

Trading == {"loan", "take", "callback", "pull", "repay", "revoke"}

FrameType ==
    [op : {"arb"}, pc : Trading \cup {"sweepIn", "sweepOut", "sweepEth"},
     by : {Sender, Other, Self}, tok : Token, out : Token]
    \cup
    [op : {"exchange"}, spender : {Pool, Other}, tok : Token]

\* The approvals that a call of a contract of kind k takes back before it
\* returns.
Granted(k, f) ==
    IF f.op = "exchange" THEN {<<f.tok, f.spender>>}
    ELSE IF f.pc \in Trading
         THEN {<<f.tok, Raindex>>} \cup (IF k = "flash" THEN {<<f.out, Raindex>>} ELSE {})
         ELSE {}

Frames(s) == 1 .. Len(s)

Typed ==
    /\ kind \in {"generic", "route", "flash"}
    /\ held \in [Coin -> Nat]
    /\ stack \in Seq(FrameType)

Attributed(k, s, a, p) ==
    \A q \in a : q \in p \/ \E i \in Frames(s) : q \in Granted(k, s[i])

Accounted(s, h, g) ==
    \A c \in Coin : h[c] > 0 => c \in g \/ \E i \in Frames(s) : c \in Unswept(s[i])

\* An arb is the innermost call, or it waits for its own exchange: the guard
\* keeps every other call of the contract out.  Sender's exchange is a call of
\* its pool.
Nested(s) ==
    \A i \in Frames(s) : s[i].op = "arb" =>
        \/ i = Len(s)
        \/ /\ i = Len(s) - 1 /\ s[i].pc \in {"take", "pull"}
           /\ s[Len(s)].op = "exchange"
           /\ s[i].by = Sender => s[Len(s)].spender = Pool

\* What callers' calls approved is still approved, and the route processor's
\* contract makes no such call.
PoolsOnly(k, s) ==
    k = "route" => \A i \in Frames(s) : s[i].op = "exchange" => s[i].spender = Pool

LeftBehind(k, a, p, o) == p \subseteq a /\ (k = "route" => p = {} /\ o = {})

\* What a revert restores is at rest.
SavedAtRest ==
    stack # <<>> =>
        /\ saved.held \in [Coin -> Nat] /\ saved.allow = saved.planted
        /\ LeftBehind(kind, saved.allow, saved.planted, saved.orders)
        /\ \A c \in Coin : saved.held[c] > 0 => c \in saved.stray

Unlost == ~SenderRuns => lost = {}

Kept ==
    /\ Typed /\ Attributed(kind, stack, allow, planted) /\ Accounted(stack, held, stray)
    /\ Nested(stack) /\ PoolsOnly(kind, stack) /\ LeftBehind(kind, allow, planted, orders)
    /\ SavedAtRest /\ Unlost /\ OnlyOwnSteps

-----------------------------------------------------------------------------
(* Frames.                                                                 *)

LEMMA Names ==
    /\ Other # Raindex /\ Other # Sender /\ Other # Pool /\ Self # Sender /\ Eth \in Coin /\ Eth \notin Token
    /\ \A t \in Token : t \in Coin /\ t # Eth
  BY ArbAssumption DEF Coin

LEMMA FrameFields ==
    ASSUME NEW f \in FrameType
    PROVE  /\ f.tok \in Token
           /\ f.op \in {"arb", "exchange"}
           /\ f.op = "arb" =>
                 f.out \in Token /\ f.by \in {Sender, Other, Self}
           /\ f.op = "arb" => f.pc \in Trading \cup {"sweepIn", "sweepOut", "sweepEth"}
           /\ f.op = "exchange" => f.spender \in {Pool, Other}
  BY DEF FrameType

LEMMA Pushed ==
    ASSUME NEW s \in Seq(FrameType), NEW f \in FrameType
    PROVE  /\ Append(s, f) \in Seq(FrameType)
           /\ Append(s, f) # <<>>
           /\ Len(s) \in Nat /\ Len(Append(s, f)) = Len(s) + 1
           /\ \A i \in 1 .. Len(s) : Append(s, f)[i] = s[i]
           /\ Append(s, f)[Len(s) + 1] = f
  BY AppendProperties, LenProperties

LEMMA Popped ==
    ASSUME stack \in Seq(FrameType), stack # <<>>
    PROVE  /\ Len(stack) \in Nat \ {0} /\ Top \in FrameType
           /\ Below \in Seq(FrameType) /\ Len(Below) = Len(stack) - 1
           /\ \A i \in 1 .. (Len(stack) - 1) : Below[i] = stack[i]
<1>1. Len(stack) \in Nat /\ Len(stack) # 0 /\ \A i \in 1 .. Len(stack) : stack[i] \in FrameType
  BY LenProperties, EmptySeq
<1> DEFINE n == Len(stack) - 1
<1>2. n \in Nat /\ \A i \in 1 .. n : stack[i] \in FrameType
  BY <1>1
<1> HIDE DEF n
<1>3. /\ SubSeq(stack, 1, n) \in Seq(FrameType)
      /\ Len(SubSeq(stack, 1, n)) = IF 1 <= n THEN n - 1 + 1 ELSE 0
      /\ \A i \in 1 .. (n - 1 + 1) : SubSeq(stack, 1, n)[i] = stack[1 + i - 1]
  BY <1>2, SubSeqProperties
<1>4. Len(SubSeq(stack, 1, n)) = n /\ \A i \in 1 .. n : SubSeq(stack, 1, n)[i] = stack[i]
  BY <1>2, <1>3
<1>5. Below = SubSeq(stack, 1, n)
  BY DEF Below, n
<1>6. Top \in FrameType
  BY <1>1 DEF Top
<1> QED
  BY <1>1, <1>3, <1>4, <1>5, <1>6 DEF n

LEMMA MovedFrame ==
    ASSUME stack \in Seq(FrameType), stack # <<>>, Top.op = "arb",
           NEW pc \in Trading \cup {"sweepIn", "sweepOut", "sweepEth"}
    PROVE  /\ Len(stack) \in Nat \ {0}
           /\ MoveTo(pc) \in Seq(FrameType) /\ Len(MoveTo(pc)) = Len(stack)
           /\ \A i \in 1 .. (Len(stack) - 1) : MoveTo(pc)[i] = stack[i]
           /\ MoveTo(pc)[Len(stack)].op = "arb" /\ MoveTo(pc)[Len(stack)].pc = pc
           /\ MoveTo(pc)[Len(stack)].by = Top.by
           /\ MoveTo(pc)[Len(stack)].tok = Top.tok /\ MoveTo(pc)[Len(stack)].out = Top.out
           /\ MoveTo(pc) # <<>>
<1> DEFINE f == [Top EXCEPT !.pc = pc]
           n == Len(stack)
<1>1. Top \in FrameType /\ n \in Nat \ {0} /\ n \in 1 .. n
  BY Popped
<1>2. f \in FrameType
  BY <1>1 DEF FrameType
<1>3. f.op = "arb" /\ f.pc = pc /\ f.by = Top.by /\ f.tok = Top.tok /\ f.out = Top.out
  BY <1>1 DEF FrameType
<1>4. MoveTo(pc) = [stack EXCEPT ![n] = f]
  BY <1>1 DEF MoveTo, Top
<1> HIDE DEF f
<1>5. /\ MoveTo(pc) \in Seq(FrameType) /\ Len(MoveTo(pc)) = n
      /\ \A i \in 1 .. n : MoveTo(pc)[i] = IF i = n THEN f ELSE stack[i]
  BY <1>1, <1>2, <1>4, ExceptSeq
<1>6. \A i \in 1 .. (n - 1) : MoveTo(pc)[i] = stack[i]
  BY <1>1, <1>5
<1>7. MoveTo(pc)[n] = f /\ MoveTo(pc) # <<>>
  BY <1>1, <1>5, EmptySeq
<1> QED
  BY <1>1, <1>3, <1>5, <1>6, <1>7

\* Every call of s is in r, with what it will take back and sweep.
Covers(k, r, s) ==
    \A i \in Frames(s) : \E j \in Frames(r) :
        Granted(k, s[i]) \subseteq Granted(k, r[j]) /\ Unswept(s[i]) \subseteq Unswept(r[j])

LEMMA CoversPush ==
    ASSUME NEW k, NEW s \in Seq(FrameType), NEW f \in FrameType
    PROVE  Covers(k, Append(s, f), s)
<1>1. \A i \in Frames(s) : i \in Frames(Append(s, f)) /\ Append(s, f)[i] = s[i]
  BY Pushed DEF Frames
<1> QED
  BY <1>1 DEF Covers

LEMMA CoversTrans ==
    ASSUME NEW k, NEW q, NEW r, NEW s, Covers(k, q, r), Covers(k, r, s)
    PROVE  Covers(k, q, s)
<1> SUFFICES ASSUME NEW i \in Frames(s)
             PROVE  \E j \in Frames(q) : /\ Granted(k, s[i]) \subseteq Granted(k, q[j])
                                         /\ Unswept(s[i]) \subseteq Unswept(q[j])
  BY DEF Covers
<1>1. PICK j \in Frames(r) : /\ Granted(k, s[i]) \subseteq Granted(k, r[j])
                             /\ Unswept(s[i]) \subseteq Unswept(r[j])
  BY DEF Covers
<1>2. PICK l \in Frames(q) : /\ Granted(k, r[j]) \subseteq Granted(k, q[l])
                             /\ Unswept(r[j]) \subseteq Unswept(q[l])
  BY DEF Covers
<1> QED
  BY <1>1, <1>2

\* A trade that goes on still takes back and sweeps the same.
LEMMA CoversMove ==
    ASSUME NEW k, stack \in Seq(FrameType), stack # <<>>, Top.op = "arb", Top.pc \in Trading,
           NEW pc \in Trading
    PROVE  Covers(k, MoveTo(pc), stack)
<1> DEFINE n == Len(stack)
           f == MoveTo(pc)[n]
<1>1. /\ n \in Nat \ {0} /\ Len(MoveTo(pc)) = n /\ f.op = "arb" /\ f.pc = pc
      /\ \A i \in 1 .. (n - 1) : MoveTo(pc)[i] = stack[i]
      /\ f.tok = Top.tok /\ f.out = Top.out
  BY MovedFrame DEF Trading
<1>2. Granted(k, f) = Granted(k, Top) /\ Unswept(f) = Unswept(Top)
  BY <1>1 DEF Granted, Unswept, Trading
<1>3. Frames(stack) = 1 .. n /\ Frames(MoveTo(pc)) = 1 .. n /\ stack[n] = Top
  BY <1>1 DEF Frames, Top
<1>4. ASSUME NEW i \in 1 .. n PROVE Granted(k, stack[i]) \subseteq Granted(k, MoveTo(pc)[i])
                                    /\ Unswept(stack[i]) \subseteq Unswept(MoveTo(pc)[i])
  <2>1. CASE i = n
    BY <1>2, <1>3, <2>1
  <2>2. CASE i # n
    BY <1>1, <2>2
  <2> QED
    BY <2>1, <2>2
<1> QED
  BY <1>3, <1>4 DEF Covers

LEMMA CoversKeeps ==
    ASSUME NEW k, NEW r, NEW s, Covers(k, r, s), NEW a, NEW p, Attributed(k, s, a, p),
           NEW h, NEW g, Accounted(s, h, g)
    PROVE  Attributed(k, r, a, p) /\ Accounted(r, h, g)
<1>1. Attributed(k, r, a, p)
  BY DEF Covers, Attributed
<1>2. Accounted(r, h, g)
  BY DEF Covers, Accounted
<1> QED
  BY <1>1, <1>2

LEMMA EnteredSame ==
    ASSUME NEW s \in Seq(FrameType)
    PROVE  DOMAIN s = Frames(s)
  BY LenProperties DEF Frames

\* With no call open, only what callers' calls left is approved and only stray
\* coins are held.
LEMMA AtRest ==
    ASSUME Kept, stack = <<>>
    PROVE  /\ allow = planted /\ \A c \in Coin : held[c] > 0 => c \in stray
           /\ LeftBehind(kind, allow, planted, orders)
<1>1. Len(stack) = 0
  OBVIOUS
<1>2. Frames(stack) = {}
  BY <1>1 DEF Frames
<1>3. allow \subseteq planted
  BY <1>2 DEF Kept, Attributed
<1>4. \A c \in Coin : held[c] > 0 => c \in stray
  BY <1>2 DEF Kept, Accounted
<1> QED
  BY <1>3, <1>4 DEF Kept, LeftBehind

LEMMA SavedKept ==
    ASSUME Kept
    PROVE  /\ Saved.held \in [Coin -> Nat] /\ Saved.allow = Saved.planted
           /\ LeftBehind(kind, Saved.allow, Saved.planted, Saved.orders)
           /\ \A c \in Coin : Saved.held[c] > 0 => c \in Saved.stray
<1>1. CASE stack = <<>>
  <2>1. Saved = Rest
    BY <1>1 DEF Saved
  <2>2. /\ Saved.held = held /\ Saved.allow = allow /\ Saved.planted = planted
        /\ Saved.orders = orders /\ Saved.stray = stray
    BY <2>1 DEF Rest
  <2>3. held \in [Coin -> Nat]
    BY DEF Kept, Typed
  <2> QED
    BY <1>1, <2>2, <2>3, AtRest
<1>2. CASE stack # <<>>
  BY <1>2 DEF Saved, Kept, SavedAtRest
<1> QED
  BY <1>1, <1>2

LEMMA OutermostArb ==
    ASSUME Kept, stack # <<>>, Top.op = "arb"
    PROVE  /\ \A i \in Frames(stack) : stack[i].op = "arb" => i = Len(stack)
           /\ Len(stack) \in Frames(stack) /\ stack[Len(stack)] = Top
           /\ Entered /\ (SenderRuns <=> Top.by = Sender)
<1>1. Len(stack) \in Nat \ {0} /\ stack \in Seq(FrameType) /\ DOMAIN stack = 1 .. Len(stack)
  BY Popped, LenProperties DEF Kept, Typed
<1>2. \A i \in Frames(stack) : stack[i].op = "arb" => i = Len(stack)
  BY DEF Kept, Nested, Top
<1>3. Len(stack) \in Frames(stack) /\ stack[Len(stack)] = Top /\ Frames(stack) = DOMAIN stack
  BY <1>1 DEF Frames, Top
<1>4. Entered
  BY <1>3 DEF Entered
<1>5. SenderRuns <=> Top.by = Sender
  BY <1>2, <1>3 DEF SenderRuns
<1> QED
  BY <1>2, <1>3, <1>4, <1>5

\* The contract makes no call of Other's choice while Sender's arb runs, and
\* the route processor's contract never does.
LEMMA OthersCallAlone ==
    ASSUME Kept, OthersCall
    PROVE  ~SenderRuns /\ kind # "route"
<1>1. stack # <<>> /\ Top.op = "exchange" /\ Top.spender = Other /\ stack \in Seq(FrameType)
  BY DEF OthersCall, InPool, Kept, Typed
<1>2. Len(stack) \in Frames(stack) /\ Len(stack) \in Nat \ {0}
  BY <1>1, Popped DEF Frames
<1>3. kind # "route"
  BY <1>1, <1>2, Names DEF Kept, PoolsOnly, Top
<1>4. ~SenderRuns
  <2> SUFFICES ASSUME NEW i \in Frames(stack), stack[i].op = "arb", stack[i].by = Sender
               PROVE  FALSE
    BY <1>1, EnteredSame DEF SenderRuns
  <2> QED
    BY <1>1, Names DEF Kept, Nested, Top
<1> QED
  BY <1>3, <1>4

-----------------------------------------------------------------------------
(* One lemma per kind of step.                                             *)

\* Coins move and the calls and rights stay.
LEMMA StillStep ==
    ASSUME Kept, kind' = kind, stack' = stack, saved' = saved, allow' = allow,
           planted' = planted, orders' = orders, held' \in [Coin -> Nat],
           Accounted(stack, held', stray'),
           ~SenderRuns => lost' = lost,
           \A c \in lost' \ lost : <<c, Other>> \in saved.allow \/ c \in saved.orders
    PROVE  Kept'
<1>1. Typed' /\ Nested(stack)' /\ SavedAtRest'
  BY DEF Kept, Typed, SavedAtRest
<1>2. Attributed(kind, stack, allow, planted)' /\ Accounted(stack, held, stray)'
  BY DEF Kept
<1>3. PoolsOnly(kind, stack)' /\ LeftBehind(kind, allow, planted, orders)'
  BY DEF Kept
<1>4. SenderRuns' = SenderRuns
  BY DEF SenderRuns
<1>5. OnlyOwnSteps' /\ Unlost'
  BY <1>4 DEF Kept, OnlyOwnSteps, Unlost
<1> QED
  BY <1>1, <1>2, <1>3, <1>5 DEF Kept

LEMMA TakenAway ==
    ASSUME Kept, NEW c \in Coin, held[c] > 0
    PROVE  /\ Minus(c, 1) \in [Coin -> Nat]
           /\ \A s : Accounted(s, held, stray) => Accounted(s, Minus(c, 1), stray)
<1>1. held \in [Coin -> Nat]
  BY DEF Kept, Typed
<1>2. \A d \in Coin : Minus(c, 1)[d] = IF d = c THEN held[d] - 1 ELSE held[d]
  BY <1>1 DEF Minus
<1>3. \A d \in Coin : Minus(c, 1)[d] > 0 => held[d] > 0
  BY <1>1, <1>2
<1>4. Minus(c, 1) \in [Coin -> Nat]
  BY <1>1 DEF Minus
<1> QED
  BY <1>3, <1>4 DEF Accounted

LEMMA BroughtIn ==
    ASSUME Kept, NEW c \in Coin, NEW n \in Nat
    PROVE  /\ Plus(c, n) \in [Coin -> Nat]
           /\ \A d \in Coin : Plus(c, n)[d] > 0 => held[d] > 0 \/ (d = c /\ n > 0)
<1>1. held \in [Coin -> Nat]
  BY DEF Kept, Typed
<1>2. \A d \in Coin : Plus(c, n)[d] = IF d = c THEN held[d] + n ELSE held[d]
  BY <1>1 DEF Plus
<1>3. Plus(c, n) \in [Coin -> Nat]
  BY <1>1 DEF Plus
<1> QED
  BY <1>1, <1>2, <1>3

LEMMA PoolPullsStep == ASSUME Kept, PoolPulls PROVE Kept'
<1>1. /\ InPool /\ held[Top.tok] > 0 /\ held' = Minus(Top.tok, 1)
      /\ kind' = kind /\ allow' = allow /\ planted' = planted /\ orders' = orders
      /\ stray' = stray /\ lost' = lost /\ stack' = stack /\ saved' = saved
  BY DEF PoolPulls
<1>2. Top.tok \in Coin
  BY <1>1, Popped, FrameFields, Names DEF InPool, Kept, Typed
<1>3. held' \in [Coin -> Nat] /\ Accounted(stack, held', stray')
  BY <1>1, <1>2, TakenAway DEF Kept
<1> QED
  BY <1>1, <1>3, StillStep

\* Others take a coin only where nobody's arb is disturbed, or by a right from
\* before the transaction.
LEMMA TakenStep ==
    ASSUME Kept, NEW c \in Coin, Taken(c),
           SenderRuns => <<c, Other>> \in saved.allow \/ c \in saved.orders
    PROVE  Kept'
<1>1. /\ held[c] > 0 /\ held' = Minus(c, 1)
      /\ lost' = lost \cup (IF SenderRuns THEN {c} ELSE {})
      /\ kind' = kind /\ allow' = allow /\ planted' = planted /\ orders' = orders
      /\ stray' = stray /\ stack' = stack /\ saved' = saved
  BY DEF Taken
<1>2. held' \in [Coin -> Nat] /\ Accounted(stack, held', stray')
  BY <1>1, TakenAway DEF Kept
<1>3. ~SenderRuns => lost' = lost
  BY <1>1
<1>4. \A d \in lost' \ lost : <<d, Other>> \in saved.allow \/ d \in saved.orders
  BY <1>1
<1> QED
  BY <1>1, <1>2, <1>3, <1>4, StillStep

LEMMA OtherTakesStep ==
    ASSUME Kept, NEW tok \in Token, OtherPulls(tok) \/ OwnOrderTaken(tok)
    PROVE  Kept'
<1>1. SenderRuns => <<tok, Other>> \in saved.allow \/ tok \in saved.orders
  BY DEF Kept, OnlyOwnSteps, OtherPulls, OwnOrderTaken
<1>2. Taken(tok) /\ tok \in Coin
  BY Names DEF OtherPulls, OwnOrderTaken
<1> QED
  BY <1>1, <1>2, TakenStep

LEMMA CallSendsStep == ASSUME Kept, NEW c \in Coin, CallSends(c) PROVE Kept'
  BY OthersCallAlone, TakenStep DEF CallSends

\* A call of Other's choice leaves an approval or an order.
LEMMA CallLeavesStep ==
    ASSUME Kept, OthersCall, kind' = kind, held' = held, stray' = stray, lost' = lost,
           stack' = stack, saved' = saved,
           NEW p, allow' = allow \cup p, planted' = planted \cup p
    PROVE  Kept'
<1>1. ~SenderRuns /\ kind # "route"
  BY OthersCallAlone
<1>2. Typed' /\ Nested(stack)' /\ SavedAtRest' /\ Accounted(stack, held, stray)'
  BY DEF Kept, Typed, SavedAtRest
<1>3. Attributed(kind, stack, allow, planted)'
  BY DEF Kept, Attributed
<1>4. PoolsOnly(kind, stack)' /\ LeftBehind(kind, allow, planted, orders)'
  BY <1>1 DEF Kept, PoolsOnly, LeftBehind
<1>5. ~SenderRuns'
  BY <1>1 DEF SenderRuns
<1>6. OnlyOwnSteps' /\ Unlost'
  BY <1>1, <1>5 DEF Kept, OnlyOwnSteps, Unlost
<1> QED
  BY <1>2, <1>3, <1>4, <1>6 DEF Kept

LEMMA CallStep ==
    ASSUME Kept, NEW tok, NEW spender, CallApproves(tok, spender) \/ CallAddsOrder(tok)
    PROVE  Kept'
<1>1. CASE CallApproves(tok, spender)
  BY <1>1, CallLeavesStep DEF CallApproves
<1>2. CASE CallAddsOrder(tok)
  <2>1. allow' = allow \cup {} /\ planted' = planted \cup {}
    BY <1>2 DEF CallAddsOrder
  <2> QED
    BY <1>2, <2>1, CallLeavesStep DEF CallAddsOrder
<1> QED
  BY <1>1, <1>2

\* What comes in is swept by the arb that runs, or it is stray.
LEMMA ReceivesStep == ASSUME Kept, NEW c \in Coin, Receives(c) PROVE Kept'
<1>1. /\ held' = Plus(c, 1)
      /\ \/ (\E i \in DOMAIN stack : c \in Unswept(stack[i])) /\ stray' = stray
         \/ stray' = stray \cup {c}
      /\ kind' = kind /\ allow' = allow /\ planted' = planted /\ orders' = orders
      /\ lost' = lost /\ stack' = stack /\ saved' = saved
  BY DEF Receives, Strays
<1>2. /\ held' \in [Coin -> Nat]
      /\ \A d \in Coin : held'[d] > 0 => held[d] > 0 \/ d = c
  BY <1>1, BroughtIn
<1>3. c \in stray' \/ \E i \in Frames(stack) : c \in Unswept(stack[i])
  BY <1>1, EnteredSame DEF Kept, Typed
<1>4. Accounted(stack, held', stray')
  BY <1>1, <1>2, <1>3 DEF Kept, Accounted
<1> QED
  BY <1>1, <1>2, <1>4, StillStep

LEMMA RevertStep == ASSUME Kept, Revert PROVE Kept'
<1>1. /\ stack # <<>> /\ held' = saved.held /\ allow' = saved.allow
      /\ planted' = saved.planted /\ orders' = saved.orders /\ stray' = saved.stray
      /\ lost' = {} /\ stack' = <<>> /\ kind' = kind
  BY DEF Revert
<1>2. /\ held' \in [Coin -> Nat] /\ allow' = planted'
      /\ LeftBehind(kind', allow', planted', orders')
      /\ \A c \in Coin : held'[c] > 0 => c \in stray'
  BY <1>1 DEF Kept, SavedAtRest
<1>3. stack' \in Seq(FrameType) /\ Len(stack') = 0
  BY <1>1
<1>4. Frames(stack') = {} /\ DOMAIN stack' = {}
  BY <1>3, EnteredSame DEF Frames
<1>5. Typed' /\ SavedAtRest'
  BY <1>1, <1>2, <1>3 DEF Typed, SavedAtRest, Kept
<1>6. Attributed(kind, stack, allow, planted)' /\ Accounted(stack, held, stray)'
  BY <1>2 DEF Attributed, Accounted
<1>7. Nested(stack)' /\ PoolsOnly(kind, stack)'
  BY <1>4 DEF Nested, PoolsOnly
<1>8. Unlost' /\ OnlyOwnSteps'
  BY <1>1, <1>4 DEF Unlost, OnlyOwnSteps, SenderRuns
<1> QED
  BY <1>2, <1>5, <1>6, <1>7, <1>8 DEF Kept

\* The callback is open to Other only while no arb runs.
LEMMA DirectCallbackStep ==
    ASSUME Kept, NEW tok \in Token, DirectCallback(tok)
    PROVE  Kept'
<1> DEFINE sp == SpenderOf(Other)
           f == [op |-> "exchange", spender |-> sp, tok |-> tok]
<1>1. /\ ~Entered /\ allow' = allow \cup {<<tok, sp>>}
      /\ held' = IF kind = "route" THEN held ELSE [held EXCEPT ![Eth] = 0]
      /\ stack' = Append(stack, f) /\ saved' = Saved
      /\ kind' = kind /\ planted' = planted /\ orders' = orders /\ stray' = stray /\ lost' = lost
  BY Names DEF DirectCallback, CallerAccepted, exchange
<1>2. sp \in {Pool, Other} /\ (kind = "route" => sp = Pool)
  BY DEF SpenderOf
<1> HIDE DEF sp
<1>3. /\ f \in FrameType /\ f.op = "exchange" /\ f.spender = sp
      /\ Granted(kind, f) = {<<tok, sp>>}
  BY <1>2 DEF FrameType, Granted
<1> HIDE DEF f
<1>4. stack \in Seq(FrameType) /\ held \in [Coin -> Nat]
  BY DEF Kept, Typed
<1>5. /\ stack' \in Seq(FrameType) /\ Len(stack') = Len(stack) + 1 /\ Len(stack) \in Nat
      /\ stack' # <<>> /\ Covers(kind, stack', stack) /\ stack'[Len(stack) + 1] = f
      /\ \A i \in 1 .. Len(stack) : stack'[i] = stack[i]
  BY <1>1, <1>3, <1>4, Pushed, CoversPush
<1>6. held' \in [Coin -> Nat] /\ \A c \in Coin : held'[c] > 0 => held[c] > 0
  BY <1>1, <1>4, Names
<1>7. Attributed(kind', stack', allow', planted')
  <2>1. Attributed(kind, stack', allow, planted)
    BY <1>5, CoversKeeps DEF Kept
  <2>2. Len(stack) + 1 \in Frames(stack') /\ <<tok, sp>> \in Granted(kind, stack'[Len(stack) + 1])
    BY <1>3, <1>5 DEF Frames
  <2> QED
    BY <1>1, <2>1, <2>2 DEF Attributed
<1>8. Accounted(stack', held', stray')
  <2>1. Accounted(stack', held, stray)
    BY <1>5, CoversKeeps DEF Kept
  <2> QED
    BY <1>1, <1>6, <2>1 DEF Accounted
<1>9. (\A i \in Frames(stack') : stack'[i].op # "arb") /\ ~SenderRuns
  <2>1. \A i \in 1 .. Len(stack) : stack[i].op # "arb"
    BY <1>1, <1>4, EnteredSame DEF Entered, Frames
  <2>2. ~SenderRuns
    BY <1>1 DEF Entered, SenderRuns
  <2> QED
    BY <1>3, <1>5, <2>1, <2>2 DEF Frames
<1>10. Nested(stack') /\ ~SenderRuns'
  BY <1>5, <1>9, EnteredSame DEF Nested, SenderRuns
<1>11. OnlyOwnSteps' /\ Unlost'
  BY <1>1, <1>9, <1>10 DEF OnlyOwnSteps, Unlost, Kept
<1>12. PoolsOnly(kind', stack') /\ LeftBehind(kind', allow', planted', orders')
  <2>1. LeftBehind(kind', allow', planted', orders')
    BY <1>1 DEF Kept, LeftBehind
  <2>2. ASSUME kind = "route", NEW i \in 1 .. (Len(stack) + 1), stack'[i].op = "exchange"
        PROVE  stack'[i].spender = Pool
    <3>1. CASE i = Len(stack) + 1
      BY <1>2, <1>3, <1>5, <2>2, <3>1
    <3>2. CASE i # Len(stack) + 1
      BY <1>5, <2>2, <3>2 DEF Kept, PoolsOnly, Frames
    <3> QED
      BY <3>1, <3>2
  <2> QED
    BY <1>1, <1>5, <2>1, <2>2 DEF PoolsOnly, Frames
<1>13. SavedAtRest' /\ Typed'
  BY <1>1, <1>5, <1>6, SavedKept DEF SavedAtRest, Typed, Kept
<1> QED
  BY <1>7, <1>8, <1>10, <1>11, <1>12, <1>13 DEF Kept

LEMMA arbStep ==
    ASSUME Kept, NEW in \in Token, NEW out \in Token, NEW by \in {Sender, Other, Self},
           NEW value \in {0, 1}, arb(by, in, out, value)
    PROVE  Kept'
<1> DEFINE pc == IF kind = "flash" THEN "loan" ELSE "take"
           f == [op |-> "arb", pc |-> pc, by |-> by, tok |-> in, out |-> out]
<1>1. /\ by = Sender => stack = <<>>
      /\ ~Entered /\ held' = Plus(Eth, value)
      /\ allow' = allow \cup {<<in, Raindex>>}
                        \cup (IF kind = "flash" THEN {<<out, Raindex>>} ELSE {})
      /\ stack' = Append(stack, f) /\ saved' = Saved
      /\ kind' = kind /\ planted' = planted /\ orders' = orders /\ stray' = stray /\ lost' = lost
  BY DEF arb
<1>20. pc \in {"loan", "take"}
  OBVIOUS
<1> HIDE DEF pc
<1>21. f \in FrameType
  BY <1>20 DEF FrameType, Trading
<1>22. f.op = "arb" /\ f.by = by /\ f.tok = in /\ f.out = out /\ f.pc = pc
  OBVIOUS
<1> HIDE DEF f
<1>2. /\ f \in FrameType /\ f.op = "arb" /\ f.by = by /\ Unswept(f) = {in, out, Eth}
      /\ Granted(kind, f) = {<<in, Raindex>>}
                            \cup (IF kind = "flash" THEN {<<out, Raindex>>} ELSE {})
  BY <1>20, <1>21, <1>22 DEF Granted, Unswept, Trading
<1>3. stack \in Seq(FrameType) /\ held \in [Coin -> Nat]
  BY DEF Kept, Typed
<1>4. /\ stack' \in Seq(FrameType) /\ Len(stack') = Len(stack) + 1 /\ Len(stack) \in Nat
      /\ stack' # <<>> /\ Covers(kind, stack', stack) /\ stack'[Len(stack) + 1] = f
      /\ \A i \in 1 .. Len(stack) : stack'[i] = stack[i]
  BY <1>1, <1>2, <1>3, Pushed, CoversPush
<1>5. Len(stack) + 1 \in Frames(stack')
  BY <1>4 DEF Frames
<1>6. held' \in [Coin -> Nat] /\ \A c \in Coin : held'[c] > 0 => held[c] > 0 \/ c = Eth
  <2>1. value \in Nat /\ Eth \in Coin
    BY Names
  <2> QED
    BY <1>1, <2>1, BroughtIn
<1>7. Attributed(kind', stack', allow', planted')
  <2>1. Attributed(kind, stack', allow, planted)
    BY <1>4, CoversKeeps DEF Kept
  <2>2. allow' = allow \cup Granted(kind, stack'[Len(stack) + 1])
    BY <1>1, <1>2, <1>4
  <2> QED
    BY <1>1, <1>5, <2>1, <2>2 DEF Attributed
<1>8. Accounted(stack', held', stray')
  <2>1. Accounted(stack', held, stray)
    BY <1>4, CoversKeeps DEF Kept
  <2>2. Eth \in Unswept(stack'[Len(stack) + 1])
    BY <1>2, <1>4
  <2> QED
    BY <1>1, <1>5, <1>6, <2>1, <2>2 DEF Accounted
<1>9. (\A i \in Frames(stack') : stack'[i].op = "arb" => i = Len(stack')) /\ ~SenderRuns
  <2>1. \A i \in 1 .. Len(stack) : stack[i].op # "arb"
    BY <1>1, <1>3, EnteredSame DEF Entered, Frames
  <2>2. ~SenderRuns
    BY <1>1 DEF Entered, SenderRuns
  <2> QED
    BY <1>4, <2>1, <2>2 DEF Frames
<1>10. Nested(stack')
  BY <1>9 DEF Nested
<1>11. lost' = {} /\ Unlost'
  BY <1>1, <1>9 DEF Kept, Unlost
<1>12. OnlyOwnSteps'
  <2> SUFFICES ASSUME SenderRuns'
               PROVE  /\ \A tok \in Token : <<tok, Other>> \in allow' => <<tok, Other>> \in saved'.allow
                      /\ orders' \subseteq saved'.orders
    BY <1>11 DEF OnlyOwnSteps
  <2>1. by = Sender
    BY <1>2, <1>4, <1>9, EnteredSame DEF SenderRuns
  <2>2. saved'.allow = allow /\ saved'.orders = orders
    BY <1>1, <2>1 DEF Saved, Rest
  <2> QED
    BY <1>1, <2>2, Names
<1>13. PoolsOnly(kind', stack') /\ LeftBehind(kind', allow', planted', orders')
  <2>1. LeftBehind(kind', allow', planted', orders')
    BY <1>1 DEF Kept, LeftBehind
  <2>2. ASSUME kind = "route", NEW i \in 1 .. (Len(stack) + 1), stack'[i].op = "exchange"
        PROVE  stack'[i].spender = Pool
    <3>1. i # Len(stack) + 1
      BY <1>2, <1>4, <2>2
    <3> QED
      BY <1>4, <2>2, <3>1 DEF Kept, PoolsOnly, Frames
  <2> QED
    BY <1>1, <1>4, <2>1, <2>2 DEF PoolsOnly, Frames
<1>14. SavedAtRest' /\ Typed'
  BY <1>1, <1>4, <1>6, SavedKept DEF SavedAtRest, Typed, Kept
<1> QED
  BY <1>7, <1>8, <1>10, <1>11, <1>12, <1>13, <1>14 DEF Kept

\* The innermost arb moves on: the calls around it are no arbs, and Sender's arb
\* runs after the step if and only if it ran before.
LEMMA MoveKeeps ==
    ASSUME Kept, stack # <<>>, Top.op = "arb",
           NEW pc \in Trading \cup {"sweepIn", "sweepOut", "sweepEth"},
           stack' = MoveTo(pc), kind' = kind
    PROVE  /\ Nested(stack') /\ PoolsOnly(kind', stack') /\ SenderRuns' = SenderRuns
<1> DEFINE n == Len(stack)
<1>1. stack \in Seq(FrameType)
  BY DEF Kept, Typed
<1>2. /\ n \in Nat \ {0} /\ stack' \in Seq(FrameType) /\ Len(stack') = n /\ stack' # <<>>
      /\ \A i \in 1 .. (n - 1) : stack'[i] = stack[i]
      /\ stack'[n].op = "arb" /\ stack'[n].by = Top.by
  BY <1>1, MovedFrame
<1>3. \A i \in Frames(stack') : stack'[i].op = "arb" => i = n
  <2>1. \A i \in Frames(stack) : stack[i].op = "arb" => i = n
    BY OutermostArb
  <2> QED
    BY <1>2, <2>1 DEF Frames
<1>4. Nested(stack')
  BY <1>2, <1>3 DEF Nested
<1>5. PoolsOnly(kind', stack')
  <2>1. ASSUME kind = "route", NEW i \in 1 .. n, stack'[i].op = "exchange"
        PROVE  stack'[i].spender = Pool
    <3>1. i # n
      BY <1>2, <2>1
    <3> QED
      BY <1>2, <2>1, <3>1 DEF Kept, PoolsOnly, Frames
  <2> QED
    BY <1>2, <2>1 DEF PoolsOnly, Frames
<1>6. n \in DOMAIN stack' /\ \A i \in DOMAIN stack' : stack'[i].op = "arb" => i = n
  BY <1>2, <1>3, EnteredSame DEF Frames
<1>7. SenderRuns' <=> Top.by = Sender
  BY <1>2, <1>6 DEF SenderRuns
<1>8. SenderRuns' = SenderRuns
  BY <1>7, OutermostArb DEF SenderRuns
<1> QED
  BY <1>4, <1>5, <1>8

\* The arb that is the innermost call goes on trading.
LEMMA TradeStep ==
    ASSUME Kept, stack # <<>>, Top.op = "arb", Top.pc \in Trading, NEW pc \in Trading,
           stack' = MoveTo(pc), kind' = kind, allow' = allow, planted' = planted,
           orders' = orders, stray' = stray, lost' = lost,
           saved' = saved, held' \in [Coin -> Nat],
           \A c \in Coin : held'[c] > 0 => held[c] > 0 \/ c = Top.out
    PROVE  Kept'
<1> DEFINE n == Len(stack)
<1>1. stack \in Seq(FrameType) /\ Top \in FrameType
  BY Popped DEF Kept, Typed
<1>2. /\ n \in Nat \ {0} /\ stack' \in Seq(FrameType) /\ Len(stack') = n /\ stack' # <<>>
      /\ stack'[n].op = "arb" /\ stack'[n].pc = pc /\ stack'[n].out = Top.out
  BY <1>1, MovedFrame DEF Trading
<1>3. Covers(kind, stack', stack)
  BY <1>1, CoversMove
<1>4. Attributed(kind', stack', allow', planted') /\ Accounted(stack', held, stray)
  BY <1>3, CoversKeeps DEF Kept
<1>5. Accounted(stack', held', stray')
  <2>1. n \in Frames(stack') /\ Top.out \in Unswept(stack'[n])
    BY <1>2 DEF Frames, Unswept, Trading
  <2> QED
    BY <1>4, <2>1 DEF Accounted
<1>6. Nested(stack') /\ PoolsOnly(kind', stack') /\ SenderRuns' = SenderRuns
  BY MoveKeeps
<1>7. OnlyOwnSteps' /\ Unlost' /\ LeftBehind(kind', allow', planted', orders')
  BY <1>6 DEF Kept, OnlyOwnSteps, Unlost
<1>8. SavedAtRest' /\ Typed'
  BY <1>2 DEF SavedAtRest, Typed, Kept
<1> QED
  BY <1>4, <1>5, <1>6, <1>7, <1>8 DEF Kept

LEMMA AtArb ==
    ASSUME Kept, NEW pc, At(pc)
    PROVE  /\ stack # <<>> /\ Top.op = "arb" /\ Top.pc = pc /\ Top \in FrameType
           /\ Top.tok \in Coin /\ Top.out \in Coin /\ Top.tok \in Token /\ Top.out \in Token
  BY Popped, FrameFields, Names DEF At, Kept, Typed

LEMMA TakeStep ==
    ASSUME Kept, TakeSends \/ TakeNoCallback \/ TakePulls \/ LoanPulls
    PROVE  Kept'
<1>0. held \in [Coin -> Nat]
  BY DEF Kept, Typed
<1>1. CASE TakeSends
  <2>1. /\ At("take") /\ held' = Plus(Top.out, 1)
        /\ stack' = MoveTo(IF kind = "flash" THEN "pull" ELSE "callback")
        /\ kind' = kind /\ allow' = allow /\ planted' = planted /\ orders' = orders
        /\ stray' = stray /\ lost' = lost /\ saved' = saved
    BY <1>1 DEF TakeSends
  <2> DEFINE pc == IF kind = "flash" THEN "pull" ELSE "callback"
  <2>2. pc \in Trading
    BY DEF Trading
  <2>3. Top.out \in Coin /\ Top.op = "arb" /\ stack # <<>> /\ Top.pc \in Trading
    BY <2>1, AtArb DEF Trading
  <2>4. /\ held' \in [Coin -> Nat]
        /\ \A c \in Coin : held'[c] > 0 => held[c] > 0 \/ c = Top.out
    BY <2>1, <2>3, BroughtIn
  <2> HIDE DEF pc
  <2>5. stack' = MoveTo(pc)
    BY <2>1 DEF pc
  <2> QED
    BY <2>1, <2>2, <2>3, <2>4, <2>5, TradeStep
<1>2. CASE TakeNoCallback
  <2>1. /\ At("callback") /\ stack' = MoveTo("pull") /\ held' = held
        /\ kind' = kind /\ allow' = allow /\ planted' = planted /\ orders' = orders
        /\ stray' = stray /\ lost' = lost /\ saved' = saved
    BY <1>2 DEF TakeNoCallback
  <2>2. Top.op = "arb" /\ stack # <<>> /\ Top.pc \in Trading /\ "pull" \in Trading
    BY <2>1, AtArb DEF Trading
  <2> QED
    BY <1>0, <2>1, <2>2, TradeStep
<1>3. CASE TakePulls
  <2>1. /\ At("pull") /\ held[Top.tok] > 0 /\ held' = Minus(Top.tok, 1)
        /\ stack' = MoveTo(IF kind = "flash" THEN "repay" ELSE "revoke")
        /\ kind' = kind /\ allow' = allow /\ planted' = planted /\ orders' = orders
        /\ stray' = stray /\ lost' = lost /\ saved' = saved
    BY <1>3 DEF TakePulls
  <2> DEFINE pc == IF kind = "flash" THEN "repay" ELSE "revoke"
  <2>2. pc \in Trading
    BY DEF Trading
  <2>3. Top.tok \in Coin /\ Top.op = "arb" /\ stack # <<>> /\ Top.pc \in Trading
    BY <2>1, AtArb DEF Trading
  <2>4. held' \in [Coin -> Nat] /\ \A c \in Coin : held'[c] > 0 => held[c] > 0
    BY <1>0, <2>1, <2>3 DEF Minus
  <2> HIDE DEF pc
  <2>5. stack' = MoveTo(pc)
    BY <2>1 DEF pc
  <2> QED
    BY <2>1, <2>2, <2>3, <2>4, <2>5, TradeStep
<1>4. CASE LoanPulls
  <2>1. /\ At("repay") /\ held[Top.out] > 0 /\ held' = Minus(Top.out, 1)
        /\ stack' = MoveTo("revoke")
        /\ kind' = kind /\ allow' = allow /\ planted' = planted /\ orders' = orders
        /\ stray' = stray /\ lost' = lost /\ saved' = saved
    BY <1>4 DEF LoanPulls
  <2>2. /\ Top.out \in Coin /\ Top.op = "arb" /\ stack # <<>> /\ Top.pc \in Trading
        /\ "revoke" \in Trading
    BY <2>1, AtArb DEF Trading
  <2>3. held' \in [Coin -> Nat] /\ \A c \in Coin : held'[c] > 0 => held[c] > 0
    BY <1>0, <2>1, <2>2 DEF Minus
  <2> QED
    BY <2>1, <2>2, <2>3, TradeStep
<1> QED
  BY <1>1, <1>2, <1>3, <1>4

\* An arb's own exchange: the call of the pool that its sender named.
LEMMA OwnExchangeStep ==
    ASSUME Kept, stack # <<>>, Top.op = "arb", Top.pc \in Trading, NEW pc \in {"take", "pull"},
           NEW coins \in [Coin -> Nat],
           \A c \in Coin : coins[c] > 0 => held[c] > 0 \/ c = Top.out,
           exchange(MoveTo(pc), SpenderOf(Top.by), Top.out, coins)
    PROVE  Kept'
<1> DEFINE n == Len(stack)
           sp == SpenderOf(Top.by)
           f == [op |-> "exchange", spender |-> sp, tok |-> Top.out]
           r == MoveTo(pc)
<1>1. stack \in Seq(FrameType) /\ Top \in FrameType /\ Top.tok \in Token /\ Top.out \in Token
  BY Popped, FrameFields DEF Kept, Typed
<1>2. /\ allow' = allow \cup {<<Top.out, sp>>}
      /\ held' = IF kind = "route" THEN coins ELSE [coins EXCEPT ![Eth] = 0]
      /\ stack' = Append(r, f) /\ saved' = saved
      /\ kind' = kind /\ planted' = planted /\ orders' = orders /\ stray' = stray /\ lost' = lost
  BY DEF exchange, Saved
<1>3. sp \in {Pool, Other} /\ (Top.by = Sender => sp = Pool) /\ (kind = "route" => sp = Pool)
  BY DEF SpenderOf
<1> HIDE DEF sp
<1>4. /\ f \in FrameType /\ f.op = "exchange" /\ f.spender = sp
      /\ Granted(kind, f) = {<<Top.out, sp>>}
  BY <1>1, <1>3 DEF FrameType, Granted
<1> HIDE DEF f
<1>5. pc \in Trading /\ pc \in Trading \cup {"sweepIn", "sweepOut", "sweepEth"}
  BY DEF Trading
<1>6. /\ n \in Nat \ {0} /\ r \in Seq(FrameType) /\ Len(r) = n
      /\ \A i \in 1 .. (n - 1) : r[i] = stack[i]
      /\ r[n].op = "arb" /\ r[n].pc = pc /\ r[n].by = Top.by
      /\ r[n].tok = Top.tok /\ r[n].out = Top.out
  BY <1>1, <1>5, MovedFrame
<1>7. Covers(kind, r, stack)
  BY <1>1, <1>5, CoversMove
<1> HIDE DEF r
<1>8. /\ stack' \in Seq(FrameType) /\ Len(stack') = n + 1 /\ stack' # <<>>
      /\ Covers(kind, stack', r) /\ stack'[n + 1] = f
      /\ \A i \in 1 .. n : stack'[i] = r[i]
  BY <1>2, <1>4, <1>6, Pushed, CoversPush
<1>9. Covers(kind, stack', stack)
  BY <1>7, <1>8, CoversTrans
<1>10. /\ Frames(stack') = 1 .. (n + 1) /\ n \in Frames(stack') /\ n + 1 \in Frames(stack')
       /\ stack'[n] = r[n]
  BY <1>6, <1>8 DEF Frames
<1>11. held' \in [Coin -> Nat] /\ \A c \in Coin : held'[c] > 0 => held[c] > 0 \/ c = Top.out
  BY <1>2, Names
<1>12. Attributed(kind', stack', allow', planted')
  <2>1. Attributed(kind, stack', allow, planted)
    BY <1>9, CoversKeeps DEF Kept
  <2>2. <<Top.out, sp>> \in Granted(kind, stack'[n + 1])
    BY <1>4, <1>8
  <2> QED
    BY <1>2, <1>10, <2>1, <2>2 DEF Attributed
<1>13. Accounted(stack', held', stray')
  <2>1. Accounted(stack', held, stray)
    BY <1>9, CoversKeeps DEF Kept
  <2>2. Top.out \in Unswept(stack'[n])
    BY <1>6, <1>10 DEF Unswept
  <2> QED
    BY <1>2, <1>10, <1>11, <2>1, <2>2 DEF Accounted
<1>14. \A i \in Frames(stack') : stack'[i].op = "arb" => i = n
  <2>1. \A i \in Frames(stack) : stack[i].op = "arb" => i = n
    BY OutermostArb
  <2>2. \A i \in 1 .. (n - 1) : stack'[i] = stack[i] /\ i \in Frames(stack)
    BY <1>6, <1>8 DEF Frames
  <2>3. stack'[n + 1].op # "arb"
    BY <1>4, <1>8
  <2>4. ASSUME NEW i \in 1 .. (n + 1), stack'[i].op = "arb" PROVE i = n
    <3>1. i \in 1 .. (n - 1) \/ i = n \/ i = n + 1
      BY <1>6
    <3> QED
      BY <1>6, <2>1, <2>2, <2>3, <2>4, <3>1
  <2> QED
    BY <1>10, <2>4
<1>15. Nested(stack')
  <2>1. /\ n = Len(stack') - 1 /\ stack'[n].pc \in {"take", "pull"}
        /\ stack'[Len(stack')].op = "exchange"
        /\ stack'[n].by = Sender => stack'[Len(stack')].spender = Pool
    BY <1>3, <1>4, <1>6, <1>8, <1>10
  <2> QED
    BY <1>14, <2>1 DEF Nested
<1>16. PoolsOnly(kind', stack') /\ LeftBehind(kind', allow', planted', orders')
  <2>1. LeftBehind(kind', allow', planted', orders')
    BY <1>2 DEF Kept, LeftBehind
  <2>2. ASSUME kind = "route", NEW i \in 1 .. (n + 1), stack'[i].op = "exchange"
        PROVE  stack'[i].spender = Pool
    <3>1. i \in 1 .. (n - 1) \/ i = n \/ i = n + 1
      BY <1>6
    <3>2. CASE i = n + 1
      BY <1>3, <1>4, <1>8, <2>2, <3>2
    <3>3. CASE i = n
      BY <1>6, <1>10, <2>2, <3>3
    <3>4. CASE i \in 1 .. (n - 1)
      BY <1>6, <1>8, <2>2, <3>4 DEF Kept, PoolsOnly, Frames
    <3> QED
      BY <3>1, <3>2, <3>3, <3>4
  <2> QED
    BY <1>2, <1>10, <2>1, <2>2 DEF PoolsOnly
<1>17. SenderRuns' = SenderRuns
  <2>1. n \in DOMAIN stack' /\ \A i \in DOMAIN stack' : stack'[i].op = "arb" => i = n
    BY <1>8, <1>10, <1>14, EnteredSame
  <2>2. SenderRuns' <=> Top.by = Sender
    BY <1>6, <1>10, <2>1 DEF SenderRuns
  <2> QED
    BY <2>2, OutermostArb DEF SenderRuns
<1>18. OnlyOwnSteps' /\ Unlost'
  <2>1. Unlost'
    BY <1>2, <1>17 DEF Kept, Unlost
  <2>2. ASSUME SenderRuns', NEW tok \in Token, <<tok, Other>> \in allow'
        PROVE  <<tok, Other>> \in saved'.allow
    <3>1. sp # Other
      BY <1>3, <1>17, <2>2, OutermostArb, Names
    <3>2. <<tok, Other>> \in allow
      BY <1>2, <2>2, <3>1
    <3> QED
      BY <1>2, <1>17, <2>2, <3>2 DEF Kept, OnlyOwnSteps
  <2> QED
    BY <1>2, <1>17, <2>1, <2>2 DEF Kept, OnlyOwnSteps
<1>19. SavedAtRest' /\ Typed'
  BY <1>2, <1>8, <1>11 DEF SavedAtRest, Typed, Kept
<1> QED
  BY <1>12, <1>13, <1>15, <1>16, <1>18, <1>19 DEF Kept

LEMMA CallbackStep ==
    ASSUME Kept, FlashLoan \/ TakeCallback
    PROVE  Kept'
<1>0. held \in [Coin -> Nat]
  BY DEF Kept, Typed
<1>1. CASE FlashLoan
  <2>1. /\ At("loan")
        /\ exchange(MoveTo("take"), SpenderOf(Top.by), Top.out, Plus(Top.out, 1))
    BY <1>1 DEF FlashLoan
  <2>2. Top.out \in Coin /\ Top.op = "arb" /\ stack # <<>> /\ Top.pc \in Trading
    BY <2>1, AtArb DEF Trading
  <2>3. /\ Plus(Top.out, 1) \in [Coin -> Nat]
        /\ \A c \in Coin : Plus(Top.out, 1)[c] > 0 => held[c] > 0 \/ c = Top.out
    BY <2>2, BroughtIn
  <2> QED
    BY <2>1, <2>2, <2>3, OwnExchangeStep
<1>2. CASE TakeCallback
  <2>1. At("callback") /\ exchange(MoveTo("pull"), SpenderOf(Top.by), Top.out, held)
    BY <1>2 DEF TakeCallback
  <2>2. Top.op = "arb" /\ stack # <<>> /\ Top.pc \in Trading
    BY <2>1, AtArb DEF Trading
  <2> QED
    BY <1>0, <2>1, <2>2, OwnExchangeStep
<1> QED
  BY <1>1, <1>2

\* The approvals of Raindex are taken back before the first coin is swept.
LEMMA RevokeStep == ASSUME Kept, Revoke PROVE Kept'
<1> DEFINE n == Len(stack)
           G == Revoked(Top)
<1>1. /\ At("revoke") /\ allow' = allow \ G /\ planted' = planted \ G
      /\ stack' = MoveTo("sweepIn") /\ kind' = kind /\ held' = held /\ orders' = orders
      /\ stray' = stray /\ lost' = lost /\ saved' = saved
  BY DEF Revoke, TakeBack
<1>2. /\ stack # <<>> /\ Top.op = "arb" /\ Top.pc = "revoke" /\ stack \in Seq(FrameType)
  BY <1>1, AtArb DEF Kept, Typed
<1>3. /\ n \in Nat \ {0} /\ stack' \in Seq(FrameType) /\ Len(stack') = n /\ stack' # <<>>
      /\ \A i \in 1 .. (n - 1) : stack'[i] = stack[i]
      /\ stack'[n].op = "arb" /\ stack'[n].pc = "sweepIn" /\ stack'[n].by = Top.by
      /\ stack'[n].tok = Top.tok /\ stack'[n].out = Top.out
  BY <1>1, <1>2, MovedFrame
<1>4. Granted(kind, Top) = G /\ Unswept(stack'[n]) = Unswept(Top) /\ stack[n] = Top
  BY <1>2, <1>3 DEF Granted, Revoked, Unswept, Trading, Top
<1> HIDE DEF G
<1>5. Attributed(kind', stack', allow', planted')
  <2> SUFFICES ASSUME NEW p \in allow', p \notin planted'
               PROVE  \E i \in Frames(stack') : p \in Granted(kind, stack'[i])
    BY <1>1 DEF Attributed
  <2>1. p \in allow /\ p \notin Granted(kind, Top) /\ p \notin planted
    BY <1>1, <1>4
  <2>2. PICK i \in 1 .. n : p \in Granted(kind, stack[i])
    BY <2>1 DEF Kept, Attributed, Frames
  <2>3. i \in 1 .. (n - 1)
    BY <1>3, <1>4, <2>1, <2>2
  <2> QED
    BY <1>3, <2>2, <2>3 DEF Frames
<1>6. Accounted(stack', held', stray')
  <2>1. \A i \in 1 .. n : Unswept(stack'[i]) = Unswept(stack[i])
    BY <1>3, <1>4
  <2> QED
    BY <1>1, <1>3, <2>1 DEF Kept, Accounted, Frames
<1>7. Nested(stack') /\ PoolsOnly(kind', stack') /\ SenderRuns' = SenderRuns
  BY <1>1, <1>2, MoveKeeps
<1>8. OnlyOwnSteps' /\ Unlost' /\ LeftBehind(kind', allow', planted', orders')
  BY <1>1, <1>7 DEF Kept, OnlyOwnSteps, Unlost, LeftBehind
<1>9. SavedAtRest' /\ Typed'
  BY <1>1, <1>2, <1>3 DEF SavedAtRest, Typed, Kept
<1> QED
  BY <1>5, <1>6, <1>7, <1>8, <1>9 DEF Kept

\* The coin that is swept is gone, stray units of it included, or it went to the
\* contract itself and is stray.
LEMMA Swept ==
    ASSUME Kept, NEW d \in Coin,
           \/ stray' = stray \cup {d} /\ held' = held
           \/ stray' = stray \ {d} /\ held' = [held EXCEPT ![d] = 0]
    PROVE  /\ held' \in [Coin -> Nat]
           /\ \A c \in Coin : held'[c] > 0 => held[c] > 0 /\ (c = d \/ c \in stray => c \in stray')
<1>1. held \in [Coin -> Nat]
  BY DEF Kept, Typed
<1>2. CASE stray' = stray \cup {d} /\ held' = held
  BY <1>1, <1>2
<1>3. CASE stray' = stray \ {d} /\ held' = [held EXCEPT ![d] = 0]
  <2>1. held' \in [Coin -> Nat] /\ held'[d] = 0 /\ \A c \in Coin : c # d => held'[c] = held[c]
    BY <1>1, <1>3
  <2> QED
    BY <1>3, <2>1
<1> QED
  BY <1>2, <1>3

LEMMA SweepStep ==
    ASSUME Kept, NEW at \in {"sweepIn", "sweepOut"}, finalizeArb(at)
    PROVE  Kept'
<1> DEFINE n == Len(stack)
           pc == IF at = "sweepIn" THEN "sweepOut" ELSE "sweepEth"
           d == IF at = "sweepIn" THEN Top.tok ELSE Top.out
<1>1. /\ At(at)
      /\ \/ stray' = stray \cup {d} /\ held' = held
         \/ stray' = stray \ {d} /\ held' = [held EXCEPT ![d] = 0]
      /\ stack' = MoveTo(pc) /\ kind' = kind /\ allow' = allow /\ planted' = planted
      /\ orders' = orders /\ lost' = lost /\ saved' = saved
  <2>1. SweptAt(at) = d
    BY DEF SweptAt
  <2>2. stack' = MoveTo(pc) /\ lost' = lost
    BY DEF finalizeArb
  <2> QED
    BY <2>1, <2>2 DEF finalizeArb, Strays
<1>2. /\ stack # <<>> /\ Top.op = "arb" /\ Top.pc = at /\ stack \in Seq(FrameType) /\ d \in Coin
      /\ Top.tok \in Token /\ Top.out \in Token
  BY <1>1, AtArb DEF Kept, Typed
<1>3. pc \in Trading \cup {"sweepIn", "sweepOut", "sweepEth"}
  OBVIOUS
<1>4. /\ n \in Nat \ {0} /\ stack' \in Seq(FrameType) /\ Len(stack') = n /\ stack' # <<>>
      /\ \A i \in 1 .. (n - 1) : stack'[i] = stack[i]
      /\ stack'[n].op = "arb" /\ stack'[n].pc = pc /\ stack'[n].by = Top.by
      /\ stack'[n].tok = Top.tok /\ stack'[n].out = Top.out
  BY <1>1, <1>2, <1>3, MovedFrame
<1>5. /\ Granted(kind, Top) = {} /\ Unswept(Top) \ {d} \subseteq Unswept(stack'[n])
      /\ stack[n] = Top
  <2>1. stack[n] = Top
    BY DEF Top
  <2>2. Granted(kind, Top) = {}
    BY <1>2 DEF Granted, Trading
  <2>3. CASE at = "sweepIn"
    BY <1>2, <1>4, <2>1, <2>2, <2>3 DEF Unswept
  <2>4. CASE at = "sweepOut"
    BY <1>2, <1>4, <2>1, <2>2, <2>4 DEF Unswept
  <2> QED
    BY <2>3, <2>4
<1> HIDE DEF pc, d
<1>6. Attributed(kind', stack', allow', planted')
  <2> SUFFICES ASSUME NEW p \in allow, p \notin planted
               PROVE  \E i \in Frames(stack') : p \in Granted(kind, stack'[i])
    BY <1>1 DEF Attributed
  <2>1. PICK i \in 1 .. n : p \in Granted(kind, stack[i])
    BY DEF Kept, Attributed, Frames
  <2>2. i \in 1 .. (n - 1)
    BY <1>4, <1>5, <2>1
  <2> QED
    BY <1>4, <2>1, <2>2 DEF Frames
<1>7. /\ held' \in [Coin -> Nat]
      /\ \A c \in Coin : held'[c] > 0 => held[c] > 0 /\ (c = d \/ c \in stray => c \in stray')
  BY <1>1, <1>2, Swept
<1>8. Accounted(stack', held', stray')
  <2> SUFFICES ASSUME NEW c \in Coin, held'[c] > 0, c \notin stray'
               PROVE  \E i \in Frames(stack') : c \in Unswept(stack'[i])
    BY DEF Accounted
  <2>1. c # d /\ held[c] > 0 /\ c \notin stray
    BY <1>7
  <2>2. PICK i \in 1 .. n : c \in Unswept(stack[i])
    BY <2>1 DEF Kept, Accounted, Frames
  <2>3. c \in Unswept(stack'[i]) /\ i \in Frames(stack')
    BY <1>4, <1>5, <2>1, <2>2 DEF Frames
  <2> QED
    BY <2>3
<1>9. Nested(stack') /\ PoolsOnly(kind', stack') /\ SenderRuns' = SenderRuns
  BY <1>1, <1>2, <1>3, MoveKeeps
<1>10. OnlyOwnSteps' /\ Unlost' /\ LeftBehind(kind', allow', planted', orders')
  BY <1>1, <1>9 DEF Kept, OnlyOwnSteps, Unlost
<1>11. SavedAtRest' /\ Typed'
  BY <1>1, <1>2, <1>4, <1>7 DEF SavedAtRest, Typed, Kept
<1> QED
  BY <1>6, <1>8, <1>9, <1>10, <1>11 DEF Kept

\* A call returns: what it granted is taken back, what it had to sweep is swept
\* or stray.
LEMMA ReturnStep ==
    ASSUME Kept, stack # <<>>, stack' = Below, kind' = kind, saved' = saved, orders' = orders,
           allow' = allow \ Granted(kind, Top), planted' = planted \ Granted(kind, Top),
           held' \in [Coin -> Nat], Unlost', lost' \subseteq lost,
           \A c \in Coin : held'[c] > 0 =>
              held[c] > 0 /\ (c \in stray \/ c \in Unswept(Top) => c \in stray')
    PROVE  Kept'
<1> DEFINE n == Len(stack)
<1>1. stack \in Seq(FrameType)
  BY DEF Kept, Typed
<1>2. /\ n \in Nat \ {0} /\ stack' \in Seq(FrameType) /\ Len(stack') = n - 1
      /\ \A i \in 1 .. (n - 1) : stack'[i] = stack[i]
  BY <1>1, Popped
<1>3. stack[n] = Top /\ Frames(stack') = 1 .. (n - 1) /\ Frames(stack) = 1 .. n
  BY <1>2 DEF Top, Frames
<1>4. Attributed(kind', stack', allow', planted')
  <2> SUFFICES ASSUME NEW p \in allow', p \notin planted'
               PROVE  \E i \in Frames(stack') : p \in Granted(kind, stack'[i])
    BY DEF Attributed
  <2>1. PICK i \in 1 .. n : p \in Granted(kind, stack[i])
    BY <1>3 DEF Kept, Attributed
  <2>2. i # n
    BY <1>3, <2>1
  <2>3. i \in 1 .. (n - 1)
    BY <1>2, <2>2
  <2> QED
    BY <1>2, <1>3, <2>1, <2>3
<1>5. Accounted(stack', held', stray')
  <2> SUFFICES ASSUME NEW c \in Coin, held'[c] > 0, c \notin stray'
               PROVE  \E i \in Frames(stack') : c \in Unswept(stack'[i])
    BY DEF Accounted
  <2>1. held[c] > 0 /\ c \notin stray /\ c \notin Unswept(Top)
    OBVIOUS
  <2>2. PICK i \in 1 .. n : c \in Unswept(stack[i])
    BY <1>3, <2>1 DEF Kept, Accounted
  <2>3. i \in 1 .. (n - 1)
    BY <1>2, <1>3, <2>1, <2>2
  <2> QED
    BY <1>2, <1>3, <2>2, <2>3
<1>6. Nested(stack')
  <2> SUFFICES ASSUME NEW i \in 1 .. (n - 1), stack'[i].op = "arb" PROVE i = n - 1
    BY <1>2, <1>3 DEF Nested
  <2>1. stack[i].op = "arb" /\ i \in 1 .. n /\ i # n
    BY <1>2
  <2> QED
    BY <1>3, <2>1 DEF Kept, Nested
<1>7. SenderRuns' => SenderRuns
  <2> SUFFICES ASSUME SenderRuns' PROVE SenderRuns
    OBVIOUS
  <2>1. PICK i \in 1 .. (n - 1) : stack'[i].op = "arb" /\ stack'[i].by = Sender
    BY <1>2, <1>3, EnteredSame DEF SenderRuns
  <2>2. i \in DOMAIN stack /\ stack[i].op = "arb" /\ stack[i].by = Sender
    BY <1>1, <1>2, <1>3, <2>1, EnteredSame
  <2> QED
    BY <2>2 DEF SenderRuns
<1>8. OnlyOwnSteps'
  BY <1>7 DEF Kept, OnlyOwnSteps
<1>9. PoolsOnly(kind', stack') /\ LeftBehind(kind', allow', planted', orders')
  <2>1. \A i \in Frames(stack') : i \in Frames(stack) /\ stack'[i] = stack[i]
    BY <1>2, <1>3
  <2> QED
    BY <2>1 DEF Kept, PoolsOnly, LeftBehind
<1>10. SavedAtRest' /\ Typed'
  BY <1>2 DEF SavedAtRest, Typed, Kept
<1> QED
  BY <1>4, <1>5, <1>6, <1>8, <1>9, <1>10 DEF Kept

LEMMA ArbReturnsStep == ASSUME Kept, finalizeArb("sweepEth") PROVE Kept'
<1>1. /\ At("sweepEth")
      /\ \/ stray' = stray \cup {Eth} /\ held' = held
         \/ stray' = stray \ {Eth} /\ held' = [held EXCEPT ![Eth] = 0]
      /\ stack' = Below /\ kind' = kind /\ allow' = allow /\ planted' = planted
      /\ orders' = orders /\ lost' = {} /\ saved' = saved
  <2>1. SweptAt("sweepEth") = Eth
    BY DEF SweptAt
  <2>2. stack' = Below /\ lost' = {}
    BY DEF finalizeArb
  <2> QED
    BY <2>1, <2>2 DEF finalizeArb, Strays
<1>2. stack # <<>> /\ Granted(kind, Top) = {} /\ Unswept(Top) = {Eth}
  BY <1>1, AtArb DEF Granted, Unswept, Trading
<1>3. /\ held' \in [Coin -> Nat]
      /\ \A c \in Coin : held'[c] > 0 => held[c] > 0 /\ (c = Eth \/ c \in stray => c \in stray')
  BY <1>1, Names, Swept
<1>4. Unlost' /\ lost' \subseteq lost
  BY <1>1 DEF Unlost
<1>5. allow' = allow \ Granted(kind, Top) /\ planted' = planted \ Granted(kind, Top)
  BY <1>1, <1>2
<1> QED
  BY <1>1, <1>2, <1>3, <1>4, <1>5, ReturnStep

LEMMA ExchangeReturnsStep == ASSUME Kept, ExchangeReturns PROVE Kept'
<1>1. /\ InPool /\ allow' = allow \ {<<Top.tok, Top.spender>>}
      /\ planted' = planted \ {<<Top.tok, Top.spender>>} /\ stack' = Below
      /\ kind' = kind /\ held' = held /\ orders' = orders /\ stray' = stray
      /\ lost' = lost /\ saved' = saved
  BY DEF ExchangeReturns, TakeBack
<1>2. /\ stack # <<>> /\ Top.op = "exchange" /\ Granted(kind, Top) = {<<Top.tok, Top.spender>>}
      /\ Unswept(Top) = {} /\ held \in [Coin -> Nat] /\ stack \in Seq(FrameType)
  BY <1>1 DEF InPool, Granted, Unswept, Kept, Typed
<1>3. SenderRuns => SenderRuns'
  <2> SUFFICES ASSUME NEW i \in Frames(stack), stack[i].op = "arb", stack[i].by = Sender
               PROVE  SenderRuns'
    BY <1>2, EnteredSame DEF SenderRuns
  <2>1. i # Len(stack)
    BY <1>2 DEF Top
  <2>2. i \in Frames(stack') /\ stack'[i] = stack[i] /\ stack' \in Seq(FrameType)
    BY <1>1, <1>2, <2>1, Popped DEF Frames
  <2> QED
    BY <2>2, EnteredSame DEF SenderRuns
<1>4. Unlost'
  BY <1>1, <1>3 DEF Kept, Unlost
<1> QED
  BY <1>1, <1>2, <1>4, ReturnStep

-----------------------------------------------------------------------------
(* The theorems.                                                           *)

LEMMA InitKept == Init => Kept
<1> SUFFICES ASSUME Init PROVE Kept
  OBVIOUS
<1>1. /\ stack = <<>> /\ allow = {} /\ planted = {} /\ orders = {} /\ lost = {}
      /\ held = [c \in Coin |-> 0] /\ kind \in {"generic", "route", "flash"}
  BY DEF Init
<1>2. stack \in Seq(FrameType) /\ Len(stack) = 0
  BY <1>1
<1>3. Frames(stack) = {} /\ DOMAIN stack = {}
  BY <1>2, EnteredSame DEF Frames
<1>4. Typed /\ Attributed(kind, stack, allow, planted) /\ Accounted(stack, held, stray)
  BY <1>1, <1>2 DEF Typed, Attributed, Accounted
<1>5. Nested(stack) /\ PoolsOnly(kind, stack) /\ LeftBehind(kind, allow, planted, orders)
  BY <1>1, <1>3 DEF Nested, PoolsOnly, LeftBehind
<1>6. SavedAtRest /\ Unlost /\ OnlyOwnSteps
  BY <1>1, <1>3 DEF SavedAtRest, Unlost, OnlyOwnSteps, SenderRuns
<1> QED
  BY <1>4, <1>5, <1>6 DEF Kept

LEMMA NextKept == Kept /\ [Next]_vars => Kept'
<1> SUFFICES ASSUME Kept, [Next]_vars PROVE Kept'
  OBVIOUS
<1>1. CASE UNCHANGED vars
  <2>1. /\ kind' = kind /\ held' = held /\ allow' = allow /\ planted' = planted
        /\ orders' = orders /\ stray' = stray /\ lost' = lost /\ stack' = stack /\ saved' = saved
    BY <1>1 DEF vars
  <2> QED
    BY <2>1, StillStep DEF Kept, Typed
<1>2. ASSUME NEW in \in Token, NEW out \in Token, NEW by \in {Sender, Other, Self},
             NEW value \in {0, 1}, arb(by, in, out, value)
      PROVE  Kept'
  BY <1>2, arbStep
<1>3. ASSUME NEW tok \in Token, DirectCallback(tok) PROVE Kept'
  BY <1>3, DirectCallbackStep
<1>4. CASE FlashLoan \/ TakeCallback
  BY <1>4, CallbackStep
<1>5. CASE TakeSends \/ TakeNoCallback \/ TakePulls \/ LoanPulls
  BY <1>5, TakeStep
<1>6. CASE Revoke \/ PoolPulls \/ ExchangeReturns \/ Revert
  BY <1>6, RevokeStep, PoolPullsStep, ExchangeReturnsStep, RevertStep
<1>7. ASSUME NEW pc \in {"sweepIn", "sweepOut", "sweepEth"}, finalizeArb(pc) PROVE Kept'
  BY <1>7, SweepStep, ArbReturnsStep
<1>8. ASSUME NEW tok \in Token, OtherPulls(tok) \/ OwnOrderTaken(tok) \/ CallAddsOrder(tok)
      PROVE  Kept'
  BY <1>8, OtherTakesStep, CallStep
<1>9. ASSUME NEW tok \in Token, NEW spender \in {Raindex, Pool, Other}, CallApproves(tok, spender)
      PROVE  Kept'
  BY <1>9, CallStep
<1>10. ASSUME NEW c \in Coin, Receives(c) \/ CallSends(c) PROVE Kept'
  BY <1>10, ReceivesStep, CallSendsStep
<1> QED
  BY <1>1, <1>2, <1>3, <1>4, <1>5, <1>6, <1>7, <1>8, <1>9, <1>10 DEF Next

\* Every approval and every coin of an arb contract belongs to an open call that
\* will take it back or sweep it, or is what a call of a caller's choice
\* (LibGenericPoolExchange.sol:46) or a stray coin left, however the calls nest.
THEOREM ArbAlwaysKept == Spec => []Kept
  BY InitKept, NextKept, PTL DEF Spec

\* "This contract should be empty of all gas and tokens between uses": with no
\* call open the contract's own approvals are taken back and only stray coins
\* are held, whatever the pool kept or returned and wherever a transaction
\* reverted.  What a caller's own call approved may be left; in the route
\* processor's contract, nothing is.
THEOREM AlwaysEmptyBetweenUses == Spec => []EmptyBetweenUses
<1>1. Kept => EmptyBetweenUses
  BY AtRest DEF EmptyBetweenUses, LeftBehind
<1> QED
  BY <1>1, ArbAlwaysKept, PTL

\* While a sender's arb runs nobody gets an approval or an order over its coins,
\* and what others take was open to them before it began, by what an earlier
\* caller's own call left; from whichever hook they call in.
THEOREM AlwaysOnlyOwnSteps == Spec => []OnlyOwnSteps
<1>1. Kept => OnlyOwnSteps
  BY DEF Kept
<1> QED
  BY <1>1, ArbAlwaysKept, PTL
=============================================================================
