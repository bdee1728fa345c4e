------------------------ MODULE RaindexIndexersProofs ------------------------
(***************************************************************************)
(* The subgraph's balances and orders are the contract's after every       *)
(* event, but for the deposits of tokens whose decimals it does not know,  *)
(* and those of the local DB are the contract's at its watermark,   *)
(* with a trade for every side of a take or a clear: for all owners,       *)
(* tokens, vaults, orders and amounts, any number of clears in one         *)
(* transaction and any cut of the blocks into windows.                     *)
(*                                                                         *)
(* Both run behind the contract, so the invariant speaks of the whole log: *)
(* every event explains the step from the state before it to the state     *)
(* after it, and a ClearV3 is followed by its AfterClearV2.  The tables of *)
(* the local DB are then sums and joins over a prefix of that log.         *)
(***************************************************************************)
EXTENDS RaindexIndexers, FiniteSetTheorems, SequenceTheorems, TLAPS

Balances == [Keys -> Int]

\* Balances that differ at most in wallets.
Same(b, c) == \A k \in Keys : Wallet(k) \/ b[k] = c[k]

Zero == State([k \in Keys |-> 0], [k \in Keys |-> 0], {})

\* The contract before the event i of a log.
Before(states, i) == IF i = 1 THEN Zero ELSE states[i - 1]

\* What AfterClearV2 makes of the balances b.
Settled(b, c, e) ==
    LET s      == e.change
        half   == Traded(b, c.alice, s.aliceInput, s.aliceOutput)
        traded == Traded(half, c.bob, s.bobInput, s.bobOutput)
        first  == Bounty(traded, <<e.sender, c.alice.output.token, c.bounties[1]>>,
                         s.aliceOutput - s.bobInput)
    IN  Bounty(first, <<e.sender, c.bob.output.token, c.bounties[2]>>,
               s.bobOutput - s.aliceInput)

Taken(b, e) == Balanced(Balanced(b, OutKey(e.order), -e.input), InKey(e.order), e.output)

IsState(s) == s.balance \in Balances

\* An event that is not of a clear leads from the state p to the state s.
Explains(e, p, s) ==
    \/ /\ e.kind = "DepositV2" /\ e.key \in Keys /\ e.amount \in Int
       /\ Same(s.balance, Balanced(p.balance, e.key, e.amount)) /\ s.live = p.live
    \/ /\ e.kind = "WithdrawV2" /\ e.key \in Keys /\ e.amount \in Int
       /\ Same(s.balance, Balanced(p.balance, e.key, -e.amount)) /\ s.live = p.live
    \/ /\ e.kind = "AddOrderV3" /\ e.order \in Orders
       /\ Same(s.balance, p.balance) /\ s.live = p.live \cup {e.order}
    \/ /\ e.kind = "RemoveOrderV3" /\ e.order \in Orders
       /\ Same(s.balance, p.balance) /\ s.live = p.live \ {e.order}
    \/ /\ e.kind = "TakeOrderV4" /\ e.order \in Orders /\ e.input \in Int /\ e.output \in Int
       /\ Same(s.balance, Taken(p.balance, e)) /\ s.live = p.live

\* The two events of a clear lead from the state p to the state s.
Clears(c, e, p, s) ==
    /\ c.e.kind = "ClearV3" /\ e.e.kind = "AfterClearV2" /\ c.tx = e.tx /\ c.block = e.block
    /\ c.e.alice \in Orders /\ c.e.bob \in Orders /\ c.e.bounties \in VaultIds \X VaultIds
    /\ e.e.sender \in Senders /\ c.e.sender = e.e.sender /\ e.e.change \in ClearStates
    /\ Same(s.balance, Settled(p.balance, c.e, e.e)) /\ s.live = p.live

\* Every event of a log explains the states around it.
Explained(l, states, i) ==
    \/ Explains(l[i].e, Before(states, i), states[i])
    \/ /\ l[i].e.kind = "ClearV3" /\ i > 1 /\ i + 1 \in DOMAIN l
       /\ Clears(l[i], l[i + 1], states[i - 1], states[i + 1]) /\ states[i] = states[i + 1]
    \/ /\ l[i].e.kind = "AfterClearV2" /\ i > 2
       /\ Clears(l[i - 1], l[i], states[i - 2], states[i])

Sequence(s) == \E S : s \in Seq(S)

Replays ==
    /\ Sequence(log)
    /\ Sequence(after)
    /\ Len(log) = Len(after)
    /\ \A i \in DOMAIN log : IsState(after[i]) /\ Explained(log, after, i)

\* The contract's state is that after the last event.
Current ==
    /\ vaults \in Balances /\ dust \in Balances /\ live \subseteq Orders
    /\ State(vaults, dust, live) = Before(after, Len(log) + 1)
    /\ live # {} => Len(log) > 0

\* The subgraph's balances together with the deposits that it has left out.
Whole == [k \in Keys |-> sg.balance[k] + LeftOut(k)]

\* The tokens of the deposits so far have been asked for their decimals.
Known ==
    /\ sg.erc20 \in [Tokens -> {"none", "null", "read"}]
    /\ \A i \in 1 .. sg.next - 1 :
          log[i].e.kind = "DepositV2" => sg.erc20[log[i].e.key[2]] # "none"

\* The subgraph has made of the events up to sg.next what the contract did.
Follows ==
    /\ sg.next \in 1 .. Len(log) + 1
    /\ sg.balance \in Balances
    /\ Known
    /\ IF sg.next > 1 /\ log[sg.next - 1].e.kind = "ClearV3"
       THEN /\ Same(Whole, after[sg.next - 2].balance)
            /\ sg.active = after[sg.next - 2].live
            /\ sg.temp = {log[sg.next - 1]}
       ELSE /\ Same(Whole, Before(after, sg.next).balance)
            /\ sg.active = Before(after, sg.next).live
            /\ sg.temp = {}

IndexInv == Replays /\ Current /\ Follows

-----------------------------------------------------------------------------
(* Sums of changes.  SumOf is a recursive function over the subsets of its *)
(* argument; a closed form that satisfies the recursion, a difference of   *)
(* two cardinalities, is the only one that does.                           *)

LEMMA SmallestOf ==
    ASSUME NEW T, T \subseteq Nat, T # {}
    PROVE  \E x \in T : \A y \in T : x <= y
<1> DEFINE less == {p \in Nat \X Nat : p[1] < p[2]}
<1>1. IsWellFoundedOn(less, Nat)
  BY NatLessThanWellFounded, Zenon DEF OpToRel
<1>2. \A x, y \in Nat : ~(<<y, x>> \in less) => x <= y
  OBVIOUS
<1> HIDE DEF less
<1>3. \E x \in T : \A y \in T : ~(<<y, x>> \in less)
  BY <1>1, WFMin
<1> QED
  BY <1>2, <1>3, Zenon

\* A pile of w[x] for every x whose w is positive.
Piles(S, w) == UNION {{x} \X (1 .. w[x]) : x \in S}

LEMMA PilesFinite ==
    ASSUME NEW S, IsFiniteSet(S), NEW w, \A x \in S : w[x] \in Int
    PROVE  IsFiniteSet(Piles(S, w)) /\ Cardinality(Piles(S, w)) \in Nat
<1> DEFINE pile == [x \in S |-> {x} \X (1 .. w[x])]
           P == {pile[x] : x \in S}
<1>1. pile \in Surjection(S, P)
  BY DEF Surjection
<1>2. IsFiniteSet(P)
  BY <1>1, FS_Surjection
<1>3. \A p \in P : IsFiniteSet(p)
  <2> SUFFICES ASSUME NEW x \in S PROVE IsFiniteSet({x} \X (1 .. w[x]))
    OBVIOUS
  <2> DEFINE n == w[x]
  <2>1. n \in Int
    OBVIOUS
  <2> HIDE DEF n
  <2>2. IsFiniteSet(1 .. n)
    BY <2>1, FS_Interval
  <2>3. IsFiniteSet({x})
    BY FS_Singleton
  <2> QED
    BY <2>2, <2>3, FS_Product DEF n
<1>4. Piles(S, w) = UNION P
  BY DEF Piles
<1> HIDE DEF P
<1> QED
  BY <1>2, <1>3, <1>4, FS_UNION, FS_CardinalityType

LEMMA PilesStep ==
    ASSUME NEW S, IsFiniteSet(S), NEW w, \A x \in S : w[x] \in Int, NEW y \in S
    PROVE  Cardinality(Piles(S, w)) =
              Cardinality(Piles(S \ {y}, w)) + (IF w[y] > 0 THEN w[y] ELSE 0)
<1> DEFINE rest == Piles(S \ {y}, w)
           own == {y} \X (1 .. w[y])
<1>1. IsFiniteSet(rest) /\ Cardinality(rest) \in Nat
  BY PilesFinite, FS_RemoveElement
<1>2. IsFiniteSet(own) /\ Cardinality(own) = IF w[y] > 0 THEN w[y] ELSE 0
  <2> DEFINE n == w[y]
  <2>1. n \in Int
    OBVIOUS
  <2> HIDE DEF n
  <2>2. IsFiniteSet(1 .. n) /\ Cardinality(1 .. n) = IF 1 > n THEN 0 ELSE n - 1 + 1
    BY <2>1, FS_Interval
  <2>3. IsFiniteSet({y}) /\ Cardinality({y}) = 1
    BY FS_Singleton
  <2>4. /\ IsFiniteSet({y} \X (1 .. n))
        /\ Cardinality({y} \X (1 .. n)) = Cardinality({y}) * Cardinality(1 .. n)
    BY <2>2, <2>3, FS_Product
  <2> QED
    BY <2>1, <2>2, <2>3, <2>4 DEF n
<1>3. Piles(S, w) = rest \cup own
  BY DEF Piles
<1>4. rest \cap own = {}
  BY DEF Piles
<1> HIDE DEF rest, own
<1>5. Cardinality(rest \cup own) = Cardinality(rest) + Cardinality(own) - Cardinality({})
  BY <1>1, <1>2, <1>4, FS_Union
<1> QED
  BY <1>1, <1>2, <1>3, <1>5, FS_EmptySet DEF rest

\* Finite sets of changes.
Changes(S) == IsFiniteSet(S) /\ \A x \in S : x.delta \in Int

One(s) == CHOOSE x \in s : TRUE

LEMMA SumUnfolds ==
    ASSUME NEW S
    PROVE  SumOf(S) = (CHOOSE g : g = [s \in SUBSET S |->
                          IF s = {} THEN 0 ELSE One(s).delta + g[s \ {One(s)}]])[S]
  BY Zenon DEF SumOf, MapThenSumSet, MapThenFoldSet, One

LEMMA SumStep ==
    ASSUME NEW S, Changes(S)
    PROVE  /\ SumOf(S) \in Int
           /\ S = {} => SumOf(S) = 0
           /\ \A R \in SUBSET S : SumOf(R) \in Int
           /\ \A R \in SUBSET S, y \in S : y \in R => SumOf(R) = SumOf(R \ {y}) + y.delta
<1> DEFINE up == [x \in S |-> x.delta]
           down == [x \in S |-> -x.delta]
           Net(s) == Cardinality(Piles(s, up)) - Cardinality(Piles(s, down))
<1>1. \A x \in S : up[x] \in Int /\ down[x] \in Int /\ up[x] = x.delta /\ down[x] = -x.delta
  BY DEF Changes
<1> HIDE DEF up, down
<1>2. \A s \in SUBSET S : IsFiniteSet(s)
  BY FS_Subset DEF Changes
<1>3. \A s \in SUBSET S : Net(s) \in Int
  <2> TAKE s \in SUBSET S
  <2>1. Cardinality(Piles(s, up)) \in Nat /\ Cardinality(Piles(s, down)) \in Nat
    BY <1>1, <1>2, PilesFinite
  <2> QED
    BY <2>1
<1>4. Net({}) = 0
  <2>1. \A w : Piles({}, w) = {}
    BY DEF Piles
  <2> QED
    BY <2>1, FS_EmptySet
<1>5. \A s \in SUBSET S, y \in S : y \in s => Net(s) = y.delta + Net(s \ {y})
  <2> SUFFICES ASSUME NEW s \in SUBSET S, NEW y \in S, y \in s
               PROVE  Net(s) = y.delta + Net(s \ {y})
    OBVIOUS
  <2> DEFINE r == s \ {y}
  <2>1. Cardinality(Piles(s, up)) = Cardinality(Piles(r, up)) + (IF up[y] > 0 THEN up[y] ELSE 0)
    BY <1>1, <1>2, PilesStep
  <2>2. Cardinality(Piles(s, down)) = Cardinality(Piles(r, down)) + (IF down[y] > 0 THEN down[y] ELSE 0)
    BY <1>1, <1>2, PilesStep
  <2>3. Cardinality(Piles(r, up)) \in Nat /\ Cardinality(Piles(r, down)) \in Nat
    BY <1>1, <1>2, PilesFinite
  <2>4. y.delta \in Int
    BY DEF Changes
  <2> HIDE DEF r
  <2> QED
    BY <1>1, <2>1, <2>2, <2>3, <2>4 DEF r
<1> HIDE DEF Net
<1>6. \A s : s # {} => One(s) \in s
  BY DEF One
<1>7. ASSUME NEW R \in SUBSET S
      PROVE  SumOf(R) = Net(R)
  <2> DEFINE rule(g) == [s \in SUBSET R |-> IF s = {} THEN 0 ELSE One(s).delta + g[s \ {One(s)}]]
             net == [s \in SUBSET R |-> Net(s)]
             sum == CHOOSE g : g = rule(g)
  <2>1. net = rule(net)
    <3>1. ASSUME NEW s \in SUBSET R
          PROVE  Net(s) = IF s = {} THEN 0 ELSE One(s).delta + net[s \ {One(s)}]
      <4>1. CASE s = {}
        BY <1>4, <4>1
      <4>2. CASE s # {}
        <5>1. One(s) \in s
          BY <1>6, <4>2
        <5>2. Net(s) = One(s).delta + Net(s \ {One(s)})
          BY <1>5, <5>1
        <5>3. net[s \ {One(s)}] = Net(s \ {One(s)})
          OBVIOUS
        <5> QED
          BY <4>2, <5>2, <5>3
      <4> QED
        BY <4>1, <4>2
    <3> HIDE DEF net
    <3>2. net = [s \in SUBSET R |-> Net(s)]
      BY DEF net
    <3> QED
      BY <3>1, <3>2
  <2>2. sum = rule(sum)
    <3> HIDE DEF net
    <3> QED
      BY <2>1, Zenon
  <2> HIDE DEF sum
  <2>3. \A s \in SUBSET R : sum[s] = IF s = {} THEN 0 ELSE One(s).delta + sum[s \ {One(s)}]
    <3>1. \A s \in SUBSET R : rule(sum)[s] = IF s = {} THEN 0 ELSE One(s).delta + sum[s \ {One(s)}]
      OBVIOUS
    <3> HIDE DEF rule
    <3> QED
      BY <2>2, <3>1, Zenon
  <2> DEFINE wrong == {s \in SUBSET R : sum[s] # Net(s)}
             sizes == {Cardinality(s) : s \in wrong}
  <2>4. wrong = {}
    <3> SUFFICES ASSUME wrong # {} PROVE FALSE
      OBVIOUS
    <3>1. sizes \subseteq Nat /\ sizes # {}
      BY <1>2, FS_CardinalityType
    <3> HIDE DEF sizes
    <3>2. PICK n \in sizes : \A m \in sizes : n <= m
      BY <3>1, SmallestOf
    <3>3. PICK s \in wrong : Cardinality(s) = n
      BY <3>2 DEF sizes
    <3>4. s \in SUBSET R /\ sum[s] # Net(s) /\ IsFiniteSet(s)
      BY <1>2, <3>3
    <3>5. s # {}
      BY <1>4, <2>3, <3>4
    <3>6. One(s) \in s
      BY <1>6, <3>5
    <3> DEFINE r == s \ {One(s)}
    <3>7. Cardinality(r) = Cardinality(s) - 1 /\ r \in SUBSET R
      BY <3>4, <3>6, FS_RemoveElement
    <3>8. n \in Nat
      BY <3>1, <3>2
    <3>9. r \notin wrong
      <4>1. SUFFICES ASSUME r \in wrong PROVE FALSE
        OBVIOUS
      <4>2. Cardinality(r) \in sizes
        BY <4>1 DEF sizes
      <4> QED
        BY <3>2, <3>3, <3>7, <3>8, <4>2
    <3>10. sum[r] = Net(r)
      BY <3>7, <3>9
    <3>11. sum[s] = One(s).delta + sum[r]
      BY <2>3, <3>4, <3>5
    <3>12. Net(s) = One(s).delta + Net(r)
      BY <1>5, <3>4, <3>6
    <3> QED
      BY <3>4, <3>10, <3>11, <3>12
  <2>5. SumOf(R) = sum[R]
    BY SumUnfolds, Zenon DEF sum
  <2> QED
    BY <2>4, <2>5
<1>8. \A R \in SUBSET S : SumOf(R) \in Int
  BY <1>3, <1>7
<1>9. SumOf(S) \in Int /\ (S = {} => SumOf(S) = 0)
  BY <1>4, <1>7, <1>8
<1>10. ASSUME NEW R \in SUBSET S, NEW y \in S, y \in R
       PROVE  SumOf(R) = SumOf(R \ {y}) + y.delta
  <2>1. SumOf(R) = Net(R) /\ SumOf(R \ {y}) = Net(R \ {y})
    BY <1>7
  <2>2. Net(R) = y.delta + Net(R \ {y}) /\ Net(R \ {y}) \in Int /\ y.delta \in Int
    BY <1>3, <1>5, <1>10 DEF Changes
  <2> QED
    BY <2>1, <2>2
<1> QED
  BY <1>8, <1>9, <1>10

-----------------------------------------------------------------------------
(* Balances                                                                *)

\* What a change by a at the key k is at the key x.
Part(x, k, a) == IF x = k THEN a ELSE 0

LEMMA BalancedAt ==
    ASSUME NEW b \in Balances, NEW k \in Keys, NEW a \in Int
    PROVE  /\ Balanced(b, k, a) \in Balances
           /\ \A x \in Keys : Balanced(b, k, a)[x] = b[x] + Part(x, k, a)
<1>1. \A x \in Keys : b[x] \in Int
  BY DEF Balances
<1> QED
  BY <1>1 DEF Balanced, Balances, Part

LEMMA MovedAt ==
    ASSUME NEW v \in Balances, NEW k \in Keys, NEW a \in Int
    PROVE  /\ Moved(v, k, a) \in Balances
           /\ \A x \in Keys : Wallet(x) \/ Moved(v, k, a)[x] = v[x] + Part(x, k, a)
<1>1. \A x \in Keys : v[x] \in Int
  BY DEF Balances
<1>2. CASE k[3] = 0
  BY <1>1, <1>2 DEF Moved, Wallet, Balances, Part
<1>3. CASE k[3] # 0
  BY <1>1, <1>3 DEF Moved, Balances, Part
<1> QED
  BY <1>2, <1>3

LEMMA StateAt ==
    ASSUME NEW v \in Balances, NEW d \in Balances, NEW l
    PROVE  /\ State(v, d, l).balance \in Balances
           /\ State(v, d, l).live = l
           /\ \A x \in Keys : State(v, d, l).balance[x] = v[x] + d[x]
<1>1. \A x \in Keys : v[x] \in Int /\ d[x] \in Int
  BY DEF Balances
<1> QED
  BY <1>1 DEF State, Balances

\* Handlers make the same of balances that are the same.
LEMMA BalancedSame ==
    ASSUME NEW b \in Balances, NEW c \in Balances, NEW k \in Keys, NEW a \in Int, Same(b, c)
    PROVE  Same(Balanced(b, k, a), Balanced(c, k, a))
  BY BalancedAt DEF Same

LEMMA SameTrans ==
    ASSUME NEW b, NEW c, NEW d, Same(b, c), Same(c, d)
    PROVE  Same(b, d)
  BY DEF Same

LEMMA SameSym ==
    ASSUME NEW b, NEW c, Same(b, c)
    PROVE  Same(c, b)
  BY DEF Same

LEMMA OrderKeys ==
    ASSUME NEW o \in Orders
    PROVE  /\ InKey(o) \in Keys /\ OutKey(o) \in Keys
           /\ o.input.token \in Tokens /\ o.output.token \in Tokens
<1>1. InKey(o) \in Keys /\ OutKey(o) \in Keys
  BY IndexersAssumption
<1> QED
  BY <1>1 DEF Keys, InKey, OutKey, Key

-----------------------------------------------------------------------------
(* The contract appends to its log                                         *)

LEMMA LogFields ==
    ASSUME Replays
    PROVE  /\ Len(log) \in Nat /\ Len(after) = Len(log)
           /\ DOMAIN log = 1 .. Len(log) /\ DOMAIN after = 1 .. Len(log)
<1>1. PICK S : log \in Seq(S)
  BY DEF Replays, Sequence
<1>2. PICK T : after \in Seq(T)
  BY DEF Replays, Sequence
<1> QED
  BY <1>1, <1>2 DEF Replays

LEMMA Emitted ==
    ASSUME Replays, NEW E, NEW events \in Seq(E), NEW v, NEW d, NEW l, Emit(events, v, d, l)
    PROVE  /\ Sequence(log')
           /\ Sequence(after')
           /\ Len(log') = Len(log) + Len(events) /\ Len(after') = Len(log')
           /\ DOMAIN log' = 1 .. Len(log')
           /\ \A i \in 1 .. Len(log) : log'[i] = log[i] /\ after'[i] = after[i]
           /\ \A i \in 1 .. Len(events) :
                 /\ log'[Len(log) + i] = At(events[i])
                 /\ after'[Len(log) + i] = State(v, d, l)
<1> DEFINE new == [i \in DOMAIN events |-> At(events[i])]
           left == [i \in DOMAIN events |-> State(v, d, l)]
           N == {At(events[i]) : i \in DOMAIN events}
           M == {State(v, d, l)}
<1>1. PICK S : log \in Seq(S)
  BY DEF Replays, Sequence
<1>2. PICK T : after \in Seq(T)
  BY DEF Replays, Sequence
<1>3. DOMAIN events = 1 .. Len(events) /\ Len(events) \in Nat
  OBVIOUS
<1>4. new \in Seq(N) /\ Len(new) = Len(events)
  <2>1. new \in [1 .. Len(events) -> N]
    BY <1>3
  <2> HIDE DEF new, N
  <2> QED
    BY <1>3, <2>1
<1>5. left \in Seq(M) /\ Len(left) = Len(events)
  <2>1. left \in [1 .. Len(events) -> M]
    BY <1>3
  <2> HIDE DEF left, M
  <2> QED
    BY <1>3, <2>1
<1>6. \A i \in 1 .. Len(events) : new[i] = At(events[i]) /\ left[i] = State(v, d, l)
  BY <1>3
<1>7. log' = log \o new /\ after' = after \o left
  BY DEF Emit
<1>8. Len(after) = Len(log) /\ Len(log) \in Nat
  BY LogFields
<1> HIDE DEF new, left, N, M
<1>9. /\ Sequence(log')
      /\ Len(log') = Len(log) + Len(events)
      /\ \A i \in 1 .. Len(log) : log'[i] = log[i]
      /\ \A i \in 1 .. Len(events) : log'[Len(log) + i] = new[i]
  <2>1. log \in Seq(S \cup N) /\ new \in Seq(S \cup N)
    BY <1>1, <1>4
  <2> DEFINE U == S \cup N
  <2> HIDE DEF U
  <2>2. log \in Seq(U) /\ new \in Seq(U)
    BY <2>1 DEF U
  <2>3. log' \in Seq(U) /\ Len(log') = Len(log) + Len(new)
    BY <1>7, <2>2
  <2>4. \A i \in 1 .. Len(log) : log'[i] = log[i]
    BY <1>7, <2>2
  <2>5. \A i \in 1 .. Len(new) : log'[Len(log) + i] = new[i]
    BY <1>7, <2>2
  <2> QED
    BY <1>4, <1>8, <2>3, <2>4, <2>5 DEF Sequence
<1>10. /\ Sequence(after')
       /\ Len(after') = Len(log) + Len(events)
       /\ \A i \in 1 .. Len(log) : after'[i] = after[i]
       /\ \A i \in 1 .. Len(events) : after'[Len(log) + i] = left[i]
  <2>1. after \in Seq(T \cup M) /\ left \in Seq(T \cup M)
    BY <1>2, <1>5
  <2> DEFINE U == T \cup M
  <2> HIDE DEF U
  <2>2. after \in Seq(U) /\ left \in Seq(U)
    BY <2>1 DEF U
  <2>3. after' \in Seq(U) /\ Len(after') = Len(after) + Len(left)
    BY <1>7, <2>2
  <2>4. \A i \in 1 .. Len(after) : after'[i] = after[i]
    BY <1>7, <2>2
  <2>5. \A i \in 1 .. Len(left) : after'[Len(after) + i] = left[i]
    BY <1>7, <2>2
  <2> QED
    BY <1>5, <1>8, <2>3, <2>4, <2>5 DEF Sequence
<1>11. DOMAIN log' = 1 .. Len(log')
  BY <1>9 DEF Sequence
<1> QED
  BY <1>6, <1>9, <1>10, <1>11

\* The kinds of the events tell the disjuncts of Explained apart.
LEMMA ClearAt ==
    ASSUME Replays, NEW i \in DOMAIN log
    PROVE  /\ log[i].e.kind = "ClearV3" =>
                 /\ i > 1 /\ i + 1 \in DOMAIN log
                 /\ Clears(log[i], log[i + 1], after[i - 1], after[i + 1])
                 /\ after[i] = after[i + 1]
           /\ log[i].e.kind = "AfterClearV2" =>
                 i > 2 /\ Clears(log[i - 1], log[i], after[i - 2], after[i])
           /\ log[i].e.kind \notin {"ClearV3", "AfterClearV2"} =>
                 Explains(log[i].e, Before(after, i), after[i])
           /\ IsState(after[i])
<1>1. Explained(log, after, i) /\ IsState(after[i])
  BY DEF Replays
<1>2. Explains(log[i].e, Before(after, i), after[i]) =>
          log[i].e.kind \notin {"ClearV3", "AfterClearV2"}
  BY DEF Explains
<1> QED
  BY <1>1, <1>2 DEF Explained

-----------------------------------------------------------------------------
(* What the subgraph leaves out                                            *)

\* The deposits to k among the first n events of a log.
Gains(l, n, k) ==
    {[row |-> i, delta |-> l[i].e.amount] :
        i \in {i \in 1 .. n : l[i].e.kind = "DepositV2" /\ l[i].e.key = k}}

LEMMA LeftOutIs ==
    ASSUME NEW k
    PROVE  LeftOut(k) = IF sg.erc20[k[2]] = "null" THEN SumOf(Gains(log, sg.next - 1, k)) ELSE 0
<1>1. {i \in Rows(1 .. sg.next - 1, "DepositV2") : log[i].e.key = k}
          = {i \in 1 .. sg.next - 1 : log[i].e.kind = "DepositV2" /\ log[i].e.key = k}
  BY DEF Rows
<1> QED
  BY <1>1, Zenon DEF LeftOut, Gains

LEMMA LeftOutNext ==
    ASSUME NEW k
    PROVE  LeftOut(k)' = IF sg'.erc20[k[2]] = "null" THEN SumOf(Gains(log', sg'.next - 1, k)) ELSE 0
<1>1. {i \in {j \in 1 .. sg'.next - 1 : log'[j].e.kind = "DepositV2"} : log'[i].e.key = k}
          = {i \in 1 .. sg'.next - 1 : log'[i].e.kind = "DepositV2" /\ log'[i].e.key = k}
  OBVIOUS
<1> QED
  BY <1>1, Zenon DEF LeftOut, Gains, Rows

LEMMA GainsKept ==
    ASSUME NEW l, NEW m, NEW n, NEW k, \A i \in 1 .. n : l[i] = m[i]
    PROVE  Gains(l, n, k) = Gains(m, n, k)
<1> DEFINE D(x) == {i \in 1 .. n : x[i].e.kind = "DepositV2" /\ x[i].e.key = k}
<1>1. D(l) = D(m)
  OBVIOUS
<1>2. D(l) \subseteq 1 .. n
  OBVIOUS
<1>3. Gains(l, n, k) = {[row |-> i, delta |-> l[i].e.amount] : i \in D(l)}
  BY DEF Gains
<1>4. Gains(m, n, k) = {[row |-> i, delta |-> m[i].e.amount] : i \in D(l)}
  BY <1>1 DEF Gains
<1> HIDE DEF D
<1>5. \A i \in D(l) : l[i].e.amount = m[i].e.amount
  BY <1>2
<1> QED
  BY <1>3, <1>4, <1>5

LEMMA GainsChange ==
    ASSUME Replays, NEW n \in 0 .. Len(log), NEW k
    PROVE  Changes(Gains(log, n, k))
<1> DEFINE D == {i \in 1 .. n : log[i].e.kind = "DepositV2" /\ log[i].e.key = k}
           g == [i \in D |-> [row |-> i, delta |-> log[i].e.amount]]
<1>1. Len(log) \in Nat /\ DOMAIN log = 1 .. Len(log)
  BY LogFields
<1>2. g \in Surjection(D, Gains(log, n, k))
  BY DEF Surjection, Gains
<1>3. IsFiniteSet(1 .. n)
  BY <1>1, FS_Interval
<1>4. IsFiniteSet(D)
  BY <1>3, FS_Subset
<1>5. IsFiniteSet(Gains(log, n, k))
  BY <1>2, <1>4, FS_Surjection
<1>6. ASSUME NEW i \in D PROVE log[i].e.amount \in Int
  <2>1. i \in DOMAIN log /\ log[i].e.kind = "DepositV2"
    BY <1>1
  <2>2. Explains(log[i].e, Before(after, i), after[i])
    BY <2>1, ClearAt
  <2> QED
    BY <2>1, <2>2 DEF Explains
<1> QED
  BY <1>5, <1>6 DEF Changes, Gains

\* One more event.
LEMMA GainsStep ==
    ASSUME Replays, NEW i \in DOMAIN log, NEW k
    PROVE  /\ SumOf(Gains(log, i - 1, k)) \in Int
           /\ SumOf(Gains(log, i, k)) =
                IF log[i].e.kind = "DepositV2" /\ log[i].e.key = k
                THEN SumOf(Gains(log, i - 1, k)) + log[i].e.amount
                ELSE SumOf(Gains(log, i - 1, k))
<1> DEFINE old == Gains(log, i - 1, k)
           new == Gains(log, i, k)
           y   == [row |-> i, delta |-> log[i].e.amount]
<1>1. Len(log) \in Nat /\ DOMAIN log = 1 .. Len(log) /\ i \in Nat
  BY LogFields
<1>2. i - 1 \in 0 .. Len(log) /\ i \in 0 .. Len(log) /\ 1 .. i = (1 .. i - 1) \cup {i}
  BY <1>1
<1>3. Changes(old) /\ Changes(new)
  BY <1>2, GainsChange
<1>4. SumOf(old) \in Int
  BY <1>3, SumStep
<1>5. CASE log[i].e.kind = "DepositV2" /\ log[i].e.key = k
  <2>1. new = old \cup {y}
    BY <1>2, <1>5 DEF Gains
  <2>2. y \notin old
    <3>1. \A x \in old : x.row \in 1 .. i - 1
      BY DEF Gains
    <3>2. y.row = i /\ i \notin 1 .. i - 1
      BY <1>1
    <3> HIDE DEF y, old
    <3> QED
      BY <3>1, <3>2
  <2>3. y.delta = log[i].e.amount
    OBVIOUS
  <2> HIDE DEF old, new, y
  <2>4. y \in new /\ new \ {y} = old
    BY <2>1, <2>2
  <2>5. SumOf(new) = SumOf(new \ {y}) + y.delta
    BY <1>3, <2>4, SumStep
  <2> QED
    BY <1>4, <1>5, <2>3, <2>4, <2>5 DEF old, new
<1>6. CASE ~(log[i].e.kind = "DepositV2" /\ log[i].e.key = k)
  <2>1. new = old
    BY <1>2, <1>6 DEF Gains
  <2> HIDE DEF new, old
  <2> QED
    BY <1>4, <1>6, <2>1 DEF old, new
<1> QED
  BY <1>5, <1>6

LEMMA WholeType ==
    ASSUME Replays, sg.next \in 1 .. Len(log) + 1, sg.balance \in Balances
    PROVE  /\ \A k \in Keys : LeftOut(k) \in Int /\ sg.balance[k] \in Int
           /\ Whole \in Balances
           /\ \A k \in Keys : Whole[k] = sg.balance[k] + LeftOut(k)
<1>1. sg.next - 1 \in 0 .. Len(log)
  BY LogFields
<1>2. ASSUME NEW k \in Keys PROVE LeftOut(k) \in Int
  BY <1>1, GainsChange, SumStep, LeftOutIs
<1>3. \A k \in Keys : sg.balance[k] \in Int
  BY DEF Balances
<1> QED
  BY <1>2, <1>3 DEF Whole, Balances

-----------------------------------------------------------------------------
\* Appending leaves what is explained and what the subgraph has followed.
LEMMA PrefixKept ==
    ASSUME Replays, Follows, NEW E, NEW events \in Seq(E), NEW v, NEW d, NEW l,
           Emit(events, v, d, l)
    PROVE  /\ \A i \in 1 .. Len(log) : IsState(after'[i]) /\ Explained(log', after', i)
           /\ Follows'
<1> DEFINE n == Len(log)
<1>1. n \in Nat /\ DOMAIN log = 1 .. n
  BY LogFields
<1>2. Len(events) \in Nat
  OBVIOUS
<1>3. /\ Len(log') = n + Len(events) /\ DOMAIN log' = 1 .. Len(log')
      /\ \A i \in 1 .. n : log'[i] = log[i] /\ after'[i] = after[i]
  BY Emitted
<1>4. UNCHANGED sg
  BY DEF Emit
<1> HIDE DEF n
<1>5. \A i \in 1 .. n + 1 : Before(after', i) = Before(after, i)
  <2> SUFFICES ASSUME NEW i \in 1 .. n + 1, i # 1
               PROVE  after'[i - 1] = after[i - 1]
    BY DEF Before
  <2>1. i - 1 \in 1 .. n
    BY <1>1
  <2> QED
    BY <1>3, <2>1
<1>6. ASSUME NEW i \in 1 .. n
      PROVE  IsState(after'[i]) /\ Explained(log', after', i)
  <2>1. IsState(after[i]) /\ Explained(log, after, i)
    BY <1>1 DEF Replays
  <2>2. log'[i] = log[i] /\ after'[i] = after[i]
    BY <1>3
  <2>3. CASE Explains(log[i].e, Before(after, i), after[i])
    <3>1. Before(after', i) = Before(after, i)
      BY <1>1, <1>5
    <3> QED
      BY <2>1, <2>2, <2>3, <3>1 DEF Explained
  <2>4. CASE /\ log[i].e.kind = "ClearV3" /\ i > 1 /\ i + 1 \in DOMAIN log
             /\ Clears(log[i], log[i + 1], after[i - 1], after[i + 1])
             /\ after[i] = after[i + 1]
    <3>1. i + 1 \in 1 .. n /\ i - 1 \in 1 .. n /\ i + 1 \in DOMAIN log'
      BY <1>1, <1>2, <1>3, <2>4
    <3>2. log'[i + 1] = log[i + 1] /\ after'[i + 1] = after[i + 1] /\ after'[i - 1] = after[i - 1]
      BY <1>3, <3>1
    <3> QED
      BY <2>1, <2>2, <2>4, <3>1, <3>2 DEF Explained
  <2>5. CASE /\ log[i].e.kind = "AfterClearV2" /\ i > 2
             /\ Clears(log[i - 1], log[i], after[i - 2], after[i])
    <3>1. i - 1 \in 1 .. n /\ i - 2 \in 1 .. n
      BY <1>1, <2>5
    <3>2. log'[i - 1] = log[i - 1] /\ after'[i - 2] = after[i - 2]
      BY <1>3, <3>1
    <3> QED
      BY <2>1, <2>2, <2>5, <3>2 DEF Explained
  <2> QED
    BY <2>1, <2>3, <2>4, <2>5 DEF Explained
<1>7. Follows'
  <2> DEFINE j == sg.next - 1
  <2>1. sg.next \in 1 .. n + 1 /\ sg.balance \in Balances
    BY DEF Follows, n
  <2>2. sg.next \in 1 .. Len(log') + 1
    BY <1>1, <1>2, <1>3, <2>1
  <2>3. Before(after', sg.next) = Before(after, sg.next)
    BY <1>5, <2>1
  <2>4. sg.next > 1 => log'[sg.next - 1] = log[sg.next - 1]
    <3>1. sg.next > 1 => sg.next - 1 \in 1 .. n
      BY <1>1, <2>1
    <3> QED
      BY <1>3, <3>1
  <2>9. \A i \in 1 .. sg.next - 1 : log'[i] = log[i]
    BY <1>1, <1>3, <2>1
  <2>7. Whole' = Whole
    <3>1. ASSUME NEW k \in Keys PROVE LeftOut(k)' = LeftOut(k)
      <4>1. Gains(log', sg.next - 1, k) = Gains(log, sg.next - 1, k)
        BY <2>9, GainsKept
      <4>2. LeftOut(k)' = IF sg'.erc20[k[2]] = "null" THEN SumOf(Gains(log', sg'.next - 1, k)) ELSE 0
        BY LeftOutNext
      <4> QED
        BY <1>4, <4>1, <4>2, LeftOutIs
    <3> QED
      BY <1>4, <3>1 DEF Whole
  <2>8. Known'
    BY <1>4, <2>9 DEF Follows, Known
  <2>5. CASE sg.next > 1 /\ log[sg.next - 1].e.kind = "ClearV3"
    <3>1. sg.next - 1 \in DOMAIN log
      BY <1>1, <2>1, <2>5
    <3>2. sg.next - 1 > 1
      BY <2>5, <3>1, ClearAt
    <3>3. sg.next - 2 \in 1 .. n
      BY <1>1, <2>1, <3>2
    <3>4. after'[sg.next - 2] = after[sg.next - 2]
      BY <1>3, <3>3
    <3> QED
      BY <1>4, <2>1, <2>2, <2>4, <2>5, <2>7, <2>8, <3>4 DEF Follows
  <2>6. CASE ~(sg.next > 1 /\ log[sg.next - 1].e.kind = "ClearV3")
    BY <1>4, <2>1, <2>2, <2>3, <2>4, <2>6, <2>7, <2>8 DEF Follows
  <2> QED
    BY <2>5, <2>6
<1> QED
  BY <1>6, <1>7 DEF n

\* An operation with one event.
LEMMA EmitOne ==
    ASSUME IndexInv, NEW e, NEW v \in Balances, NEW d \in Balances, NEW l \in SUBSET Orders,
           Emit(<<e>>, v, d, l), Explains(e, State(vaults, dust, live), State(v, d, l))
    PROVE  IndexInv'
<1> DEFINE n == Len(log)
           events == <<e>>
<1>1. events \in Seq({e}) /\ Len(events) = 1 /\ events[1] = e
  OBVIOUS
<1>2. Emit(events, v, d, l) /\ Replays /\ Follows /\ Current
  BY DEF IndexInv
<1> HIDE DEF events
<1>3. n \in Nat
  BY <1>2, LogFields
<1>4. /\ Sequence(log')
      /\ Sequence(after')
      /\ Len(log') = n + 1 /\ Len(after') = Len(log') /\ DOMAIN log' = 1 .. n + 1
      /\ \A i \in 1 .. n : log'[i] = log[i] /\ after'[i] = after[i]
      /\ log'[n + 1] = At(e) /\ after'[n + 1] = State(v, d, l)
  <2>1. /\ Sequence(log')
        /\ Sequence(after')
        /\ Len(log') = Len(log) + Len(events) /\ Len(after') = Len(log')
        /\ DOMAIN log' = 1 .. Len(log')
        /\ \A i \in 1 .. Len(log) : log'[i] = log[i] /\ after'[i] = after[i]
        /\ \A i \in 1 .. Len(events) :
              /\ log'[Len(log) + i] = At(events[i])
              /\ after'[Len(log) + i] = State(v, d, l)
    BY <1>1, <1>2, Emitted DEF At
  <2> QED
    BY <1>1, <2>1
<1>5. \A i \in 1 .. n : IsState(after'[i]) /\ Explained(log', after', i)
  BY <1>1, <1>2, PrefixKept
<1>6. Follows'
  BY <1>1, <1>2, PrefixKept
<1> HIDE DEF n
<1>7. Before(after', n + 1) = State(vaults, dust, live)
  <2>1. State(vaults, dust, live) = Before(after, n + 1)
    BY <1>2 DEF Current, n
  <2>2. n # 0 => after'[n] = after[n]
    BY <1>3, <1>4
  <2> QED
    BY <1>3, <2>1, <2>2 DEF Before
<1>8. IsState(after'[n + 1]) /\ Explained(log', after', n + 1)
  <2>1. IsState(State(v, d, l))
    BY StateAt DEF IsState
  <2>2. log'[n + 1].e = e
    BY <1>4 DEF At
  <2> QED
    BY <1>4, <1>7, <2>1, <2>2 DEF Explained
<1>9. Replays'
  <2>1. \A i \in DOMAIN log' : i \in 1 .. n \/ i = n + 1
    BY <1>3, <1>4
  <2> QED
    BY <1>4, <1>5, <1>8, <2>1 DEF Replays
<1>10. Current'
  <2>1. vaults' = v /\ dust' = d /\ live' = l
    BY <1>2 DEF Emit
  <2>2. Before(after', n + 2) = State(v, d, l)
    BY <1>3, <1>4 DEF Before
  <2>3. Len(log') + 1 = n + 2 /\ Len(log') > 0
    BY <1>3, <1>4
  <2>4. State(vaults, dust, live)' = State(v, d, l)
    BY <2>1 DEF State
  <2> QED
    BY <2>1, <2>2, <2>3, <2>4 DEF Current
<1> QED
  BY <1>6, <1>9, <1>10 DEF IndexInv

\* A clear emits two events, and both leave the state at its end.
LEMMA EmitClear ==
    ASSUME IndexInv, live # {}, NEW c, NEW e, NEW v \in Balances, NEW d \in Balances,
           NEW l \in SUBSET Orders, Emit(<<c, e>>, v, d, l),
           Clears(At(c), At(e), State(vaults, dust, live), State(v, d, l))
    PROVE  IndexInv'
<1> DEFINE n == Len(log)
           events == <<c, e>>
           E == {c, e}
<1>1. events \in Seq(E) /\ Len(events) = 2 /\ events[1] = c /\ events[2] = e
  OBVIOUS
<1>2. Emit(events, v, d, l) /\ Replays /\ Follows /\ Current
  BY DEF IndexInv
<1> HIDE DEF events, E
<1>3. n \in Nat /\ n > 0
  BY <1>2, LogFields DEF Current
<1>4. /\ Sequence(log')
      /\ Sequence(after')
      /\ Len(log') = n + 2 /\ Len(after') = Len(log') /\ DOMAIN log' = 1 .. n + 2
      /\ \A i \in 1 .. n : log'[i] = log[i] /\ after'[i] = after[i]
      /\ log'[n + 1] = At(c) /\ after'[n + 1] = State(v, d, l)
      /\ log'[n + 2] = At(e) /\ after'[n + 2] = State(v, d, l)
  <2>1. /\ Sequence(log') /\ Sequence(after')
        /\ Len(log') = Len(log) + Len(events) /\ Len(after') = Len(log')
        /\ DOMAIN log' = 1 .. Len(log')
        /\ \A i \in 1 .. Len(log) : log'[i] = log[i] /\ after'[i] = after[i]
    BY <1>1, <1>2, Emitted DEF At
  <2>2. \A i \in 1 .. Len(events) : log'[Len(log) + i] = At(events[i])
    BY <1>1, <1>2, Emitted DEF At
  <2>3. \A i \in 1 .. Len(events) : after'[Len(log) + i] = State(v, d, l)
    BY <1>1, <1>2, Emitted DEF At
  <2> QED
    BY <1>1, <2>1, <2>2, <2>3
<1>5. \A i \in 1 .. n : IsState(after'[i]) /\ Explained(log', after', i)
  BY <1>1, <1>2, PrefixKept
<1>6. Follows'
  BY <1>1, <1>2, PrefixKept
<1> HIDE DEF n
<1>7. after'[n] = State(vaults, dust, live)
  <2>1. State(vaults, dust, live) = Before(after, n + 1)
    BY <1>2 DEF Current, n
  <2>2. after'[n] = after[n]
    BY <1>3, <1>4
  <2> QED
    BY <1>3, <2>1, <2>2 DEF Before
<1>8. IsState(State(v, d, l))
  BY StateAt DEF IsState
<1>9. Clears(log'[n + 1], log'[n + 2], after'[n], after'[n + 2])
  BY <1>4, <1>7
<1>10. log'[n + 1].e.kind = "ClearV3" /\ log'[n + 2].e.kind = "AfterClearV2"
  BY <1>9 DEF Clears
<1>11. Explained(log', after', n + 1)
  <2>1. n + 1 > 1 /\ (n + 1) + 1 = n + 2 /\ (n + 1) - 1 = n /\ n + 2 \in DOMAIN log'
    BY <1>3, <1>4
  <2>2. after'[n + 1] = after'[n + 2]
    BY <1>4
  <2> QED
    BY <1>9, <1>10, <2>1, <2>2 DEF Explained
<1>12. Explained(log', after', n + 2)
  <2>1. n + 2 > 2 /\ (n + 2) - 1 = n + 1 /\ (n + 2) - 2 = n
    BY <1>3
  <2> QED
    BY <1>9, <1>10, <2>1 DEF Explained
<1>13. Replays'
  <2>1. \A i \in DOMAIN log' : i \in 1 .. n \/ i = n + 1 \/ i = n + 2
    BY <1>3, <1>4
  <2> QED
    BY <1>4, <1>5, <1>8, <1>11, <1>12, <2>1 DEF Replays
<1>14. Current'
  <2>1. vaults' = v /\ dust' = d /\ live' = l
    BY <1>2 DEF Emit
  <2>2. Before(after', n + 3) = State(v, d, l)
    BY <1>3, <1>4 DEF Before
  <2>3. Len(log') + 1 = n + 3 /\ Len(log') > 0
    BY <1>3, <1>4
  <2>4. State(vaults, dust, live)' = State(v, d, l)
    BY <2>1 DEF State
  <2> QED
    BY <2>1, <2>2, <2>3, <2>4 DEF Current
<1> QED
  BY <1>6, <1>13, <1>14 DEF IndexInv

-----------------------------------------------------------------------------
(* The operations of the contract                                          *)

LEMMA PulledInt ==
    ASSUME NEW a \in Nat
    PROVE  Pulled(a) \in Int /\ Pulled(a) - a \in Int
<1>1. Unit \in Nat \ {0}
  BY IndexersAssumption
<1>2. a + Unit - 1 \in Nat
  BY <1>1
<1> DEFINE q == (a + Unit - 1) \div Unit
<1>3. q \in Int
  BY <1>1, <1>2
<1> HIDE DEF q
<1>4. Unit * q \in Int
  BY <1>1, <1>3
<1> QED
  BY <1>4 DEF Pulled, q

LEMMA DepositIndexed ==
    ASSUME IndexInv, NEW k \in Keys, NEW a \in Deposits, deposit5(k, a)
    PROVE  IndexInv'
<1> DEFINE p == Pulled(a)
           r == p - a
           v == Moved(vaults, k, a)
           d == Moved(dust, k, r)
           e == [kind |-> "DepositV2", key |-> k, amount |-> p]
           old == State(vaults, dust, live)
<1>1. a \in Int /\ p \in Int /\ r \in Int
  BY IndexersAssumption, PulledInt
<1>2. Emit(<<e>>, v, d, live)
  BY DEF deposit5
<1>3. vaults \in Balances /\ dust \in Balances /\ live \in SUBSET Orders
  BY DEF IndexInv, Current
<1>4. a + r = p
  BY <1>1
<1> HIDE DEF p, r
<1>5. /\ v \in Balances
      /\ \A x \in Keys : Wallet(x) \/ v[x] = vaults[x] + Part(x, k, a)
  BY <1>1, <1>3, MovedAt
<1>6. /\ d \in Balances
      /\ \A x \in Keys : Wallet(x) \/ d[x] = dust[x] + Part(x, k, r)
  BY <1>1, <1>3, MovedAt
<1> HIDE DEF v, d
<1>7. /\ old.balance \in Balances /\ old.live = live
      /\ \A x \in Keys : old.balance[x] = vaults[x] + dust[x]
  BY <1>3, StateAt
<1>8. /\ State(v, d, live).live = live
      /\ \A x \in Keys : State(v, d, live).balance[x] = v[x] + d[x]
  BY <1>5, <1>6, StateAt
<1> HIDE DEF old
<1>9. \A x \in Keys : Balanced(old.balance, k, p)[x] = old.balance[x] + Part(x, k, p)
  BY <1>1, <1>7, BalancedAt
<1>10. Same(State(v, d, live).balance, Balanced(old.balance, k, p))
  <2> SUFFICES ASSUME NEW x \in Keys, ~Wallet(x)
               PROVE  State(v, d, live).balance[x] = Balanced(old.balance, k, p)[x]
    BY DEF Same
  <2>1. vaults[x] \in Int /\ dust[x] \in Int
    BY <1>3 DEF Balances
  <2> QED
    BY <1>1, <1>4, <1>5, <1>6, <1>7, <1>8, <1>9, <2>1 DEF Part
<1>11. Explains(e, old, State(v, d, live))
  BY <1>1, <1>7, <1>8, <1>10 DEF Explains
<1> HIDE DEF e
<1> QED
  BY <1>2, <1>3, <1>5, <1>6, <1>11, EmitOne DEF old

LEMMA WithdrawIndexed ==
    ASSUME IndexInv, NEW k \in Keys, NEW target \in Deposits, withdraw5(k, target)
    PROVE  IndexInv'
<1> DEFINE a == IF target < vaults[k] THEN target ELSE vaults[k]
           v == Moved(vaults, k, -a)
           e == [kind |-> "WithdrawV2", key |-> k, amount |-> a]
           old == State(vaults, dust, live)
<1>1. vaults \in Balances /\ dust \in Balances /\ live \in SUBSET Orders
  BY DEF IndexInv, Current
<1>2. a \in Int
  BY <1>1, IndexersAssumption DEF Balances
<1>3. Emit(<<e>>, v, dust, live)
  BY DEF withdraw5
<1> HIDE DEF a
<1>4. /\ v \in Balances
      /\ \A x \in Keys : Wallet(x) \/ v[x] = vaults[x] + Part(x, k, -a)
  BY <1>1, <1>2, MovedAt
<1> HIDE DEF v
<1>5. /\ old.balance \in Balances /\ old.live = live
      /\ \A x \in Keys : old.balance[x] = vaults[x] + dust[x]
  BY <1>1, StateAt
<1>6. /\ State(v, dust, live).live = live
      /\ \A x \in Keys : State(v, dust, live).balance[x] = v[x] + dust[x]
  BY <1>1, <1>4, StateAt
<1> HIDE DEF old
<1>7. \A x \in Keys : Balanced(old.balance, k, -a)[x] = old.balance[x] + Part(x, k, -a)
  <2> DEFINE m == -a
  <2>1. m \in Int
    BY <1>2
  <2> HIDE DEF m
  <2>2. \A x \in Keys : Balanced(old.balance, k, m)[x] = old.balance[x] + Part(x, k, m)
    BY <1>5, <2>1, BalancedAt
  <2> QED
    BY <2>2 DEF m
<1>8. Same(State(v, dust, live).balance, Balanced(old.balance, k, -a))
  <2> SUFFICES ASSUME NEW x \in Keys, ~Wallet(x)
               PROVE  State(v, dust, live).balance[x] = Balanced(old.balance, k, -a)[x]
    BY DEF Same
  <2>1. vaults[x] \in Int /\ dust[x] \in Int
    BY <1>1 DEF Balances
  <2> QED
    BY <1>2, <1>4, <1>5, <1>6, <1>7, <2>1 DEF Part
<1>9. Explains(e, old, State(v, dust, live))
  BY <1>2, <1>5, <1>6, <1>8 DEF Explains
<1> HIDE DEF e
<1> QED
  BY <1>1, <1>3, <1>4, <1>9, EmitOne DEF old

LEMMA OrderIndexed ==
    ASSUME IndexInv, NEW o \in Orders, addOrder5(o) \/ removeOrder4(o)
    PROVE  IndexInv'
<1>1. vaults \in Balances /\ dust \in Balances /\ live \in SUBSET Orders
  BY DEF IndexInv, Current
<1> DEFINE old == State(vaults, dust, live)
<1>2. old.live = live
  BY <1>1, StateAt
<1>3. CASE addOrder5(o)
  <2> DEFINE l == live \cup {o}
             e == [kind |-> "AddOrderV3", order |-> o]
  <2>1. Emit(<<e>>, vaults, dust, l) /\ l \in SUBSET Orders
    BY <1>1, <1>3 DEF addOrder5
  <2>2. State(vaults, dust, l).live = l /\ State(vaults, dust, l).balance = old.balance
    BY DEF State
  <2>3. Explains(e, old, State(vaults, dust, l))
    BY <1>2, <2>2 DEF Explains, Same
  <2> HIDE DEF e, l
  <2> QED
    BY <1>1, <2>1, <2>3, EmitOne
<1>4. CASE removeOrder4(o)
  <2> DEFINE l == live \ {o}
             e == [kind |-> "RemoveOrderV3", order |-> o]
  <2>1. Emit(<<e>>, vaults, dust, l) /\ l \in SUBSET Orders
    BY <1>1, <1>4 DEF removeOrder4
  <2>2. State(vaults, dust, l).live = l /\ State(vaults, dust, l).balance = old.balance
    BY DEF State
  <2>3. Explains(e, old, State(vaults, dust, l))
    BY <1>2, <2>2 DEF Explains, Same
  <2> HIDE DEF e, l
  <2> QED
    BY <1>1, <2>1, <2>3, EmitOne
<1> QED
  BY <1>3, <1>4

LEMMA PartInt == ASSUME NEW x, NEW k, NEW a \in Int PROVE Part(x, k, a) \in Int
  BY DEF Part

LEMMA TakenAt ==
    ASSUME NEW b \in Balances, NEW o \in Orders, NEW i \in Int, NEW u \in Int, NEW e,
           e.order = o, e.input = i, e.output = u
    PROVE  /\ Taken(b, e) \in Balances
           /\ \A x \in Keys : Taken(b, e)[x] = b[x] + Part(x, OutKey(o), -i) + Part(x, InKey(o), u)
<1> DEFINE m == -i
           h == Balanced(b, OutKey(o), m)
<1>1. InKey(o) \in Keys /\ OutKey(o) \in Keys
  BY OrderKeys
<1>2. m \in Int
  OBVIOUS
<1>3. Taken(b, e) = Balanced(h, InKey(o), u)
  BY DEF Taken
<1> HIDE DEF m
<1>4. h \in Balances /\ \A x \in Keys : h[x] = b[x] + Part(x, OutKey(o), m)
  BY <1>1, <1>2, BalancedAt
<1> HIDE DEF h
<1>5. /\ Balanced(h, InKey(o), u) \in Balances
      /\ \A x \in Keys : Balanced(h, InKey(o), u)[x] = h[x] + Part(x, InKey(o), u)
  BY <1>1, <1>4, BalancedAt
<1> QED
  BY <1>3, <1>4, <1>5 DEF m

LEMMA TakeIndexed ==
    ASSUME IndexInv, NEW o \in Orders, NEW t \in Takes, takeOrder(o, t[1], t[2])
    PROVE  IndexInv'
<1> DEFINE i == t[1]
           u == t[2]
           m == -i
           half == Moved(vaults, OutKey(o), m)
           v == Moved(half, InKey(o), u)
           e == [kind |-> "TakeOrderV4", order |-> o, input |-> i, output |-> u]
           old == State(vaults, dust, live)
<1>1. vaults \in Balances /\ dust \in Balances /\ live \in SUBSET Orders
  BY DEF IndexInv, Current
<1>2. i \in Int /\ u \in Int /\ m \in Int
  BY IndexersAssumption
<1>3. InKey(o) \in Keys /\ OutKey(o) \in Keys
  BY OrderKeys
<1>4. Emit(<<e>>, v, dust, live)
  BY DEF takeOrder
<1> HIDE DEF m
<1>5. /\ half \in Balances
      /\ \A x \in Keys : Wallet(x) \/ half[x] = vaults[x] + Part(x, OutKey(o), m)
  BY <1>1, <1>2, <1>3, MovedAt
<1> HIDE DEF half
<1>6. /\ v \in Balances
      /\ \A x \in Keys : Wallet(x) \/ v[x] = half[x] + Part(x, InKey(o), u)
  BY <1>2, <1>3, <1>5, MovedAt
<1> HIDE DEF v
<1>7. /\ old.balance \in Balances /\ old.live = live
      /\ \A x \in Keys : old.balance[x] = vaults[x] + dust[x]
  BY <1>1, StateAt
<1>8. /\ State(v, dust, live).live = live
      /\ \A x \in Keys : State(v, dust, live).balance[x] = v[x] + dust[x]
  BY <1>1, <1>6, StateAt
<1>9. /\ e.kind = "TakeOrderV4" /\ e.order = o /\ e.input = i /\ e.output = u
  OBVIOUS
<1> HIDE DEF old, e, i, u
<1>10. \A x \in Keys :
          Taken(old.balance, e)[x] = old.balance[x] + Part(x, OutKey(o), m) + Part(x, InKey(o), u)
  BY <1>2, <1>7, <1>9, TakenAt DEF m
<1>11. Same(State(v, dust, live).balance, Taken(old.balance, e))
  <2> SUFFICES ASSUME NEW x \in Keys, ~Wallet(x)
               PROVE  State(v, dust, live).balance[x] = Taken(old.balance, e)[x]
    BY DEF Same
  <2>1. vaults[x] \in Int /\ dust[x] \in Int
    BY <1>1 DEF Balances
  <2>2. Part(x, OutKey(o), m) \in Int /\ Part(x, InKey(o), u) \in Int
    BY <1>2, PartInt
  <2> QED
    BY <1>5, <1>6, <1>7, <1>8, <1>10, <2>1, <2>2
<1>12. Explains(e, old, State(v, dust, live))
  BY <1>2, <1>7, <1>8, <1>9, <1>11 DEF Explains
<1> QED
  BY <1>1, <1>4, <1>6, <1>12, EmitOne DEF old

\* One side of a clear, and a bounty.
LEMMA TradedAt ==
    ASSUME NEW b \in Balances, NEW o \in Orders, NEW i \in Int, NEW u \in Int
    PROVE  /\ Traded(b, o, i, u) \in Balances
           /\ \A x \in Keys : Traded(b, o, i, u)[x] = b[x] + Part(x, InKey(o), i) + Part(x, OutKey(o), -u)
<1> DEFINE m == -u
           h == Balanced(b, InKey(o), i)
<1>1. InKey(o) \in Keys /\ OutKey(o) \in Keys
  BY OrderKeys
<1>2. m \in Int
  OBVIOUS
<1>3. Traded(b, o, i, u) = Balanced(h, OutKey(o), m)
  BY DEF Traded
<1> HIDE DEF m
<1>4. h \in Balances /\ \A x \in Keys : h[x] = b[x] + Part(x, InKey(o), i)
  BY <1>1, BalancedAt
<1> HIDE DEF h
<1>5. /\ Balanced(h, OutKey(o), m) \in Balances
      /\ \A x \in Keys : Balanced(h, OutKey(o), m)[x] = h[x] + Part(x, OutKey(o), m)
  BY <1>1, <1>2, <1>4, BalancedAt
<1> QED
  BY <1>3, <1>4, <1>5 DEF m

LEMMA BountyAt ==
    ASSUME NEW b \in Balances, NEW k \in Keys, NEW a \in Nat
    PROVE  /\ Bounty(b, k, a) \in Balances
           /\ \A x \in Keys : Bounty(b, k, a)[x] = b[x] + Part(x, k, a)
<1>1. CASE a > 0
  BY <1>1, BalancedAt DEF Bounty
<1>2. CASE ~(a > 0)
  <2>1. a = 0
    BY <1>2
  <2>2. \A x \in Keys : b[x] \in Int /\ Part(x, k, a) = 0
    BY <2>1 DEF Part, Balances
  <2> QED
    BY <1>2, <2>2 DEF Bounty
<1> QED
  BY <1>1, <1>2

\* The vaults of the two bounties, and the amounts of a clear.
BountyKey(sender, o, w) == <<sender, o.output.token, w>>

LEMMA BountyKeys ==
    ASSUME NEW sender \in Senders, NEW o \in Orders, NEW w \in VaultIds
    PROVE  BountyKey(sender, o, w) \in Keys
  BY OrderKeys DEF BountyKey, Keys

LEMMA ClearAmounts ==
    ASSUME NEW s \in ClearStates
    PROVE  /\ s.aliceOutput \in Int /\ s.aliceInput \in Int /\ s.bobOutput \in Int /\ s.bobInput \in Int
           /\ s.aliceOutput - s.bobInput \in Nat /\ s.bobOutput - s.aliceInput \in Nat
<1>1. s \in [aliceOutput : Nat, aliceInput : Nat, bobOutput : Nat, bobInput : Nat]
  BY IndexersAssumption
<1>2. s.aliceOutput >= s.bobInput /\ s.bobOutput >= s.aliceInput
  BY IndexersAssumption
<1> QED
  BY <1>1, <1>2

\* The changes of a clear at the key x, in the order of the handler.
ClearPart(x, c, e) ==
    Part(x, InKey(c.alice), e.change.aliceInput) + Part(x, OutKey(c.alice), -e.change.aliceOutput)
    + Part(x, InKey(c.bob), e.change.bobInput) + Part(x, OutKey(c.bob), -e.change.bobOutput)
    + Part(x, BountyKey(e.sender, c.alice, c.bounties[1]), e.change.aliceOutput - e.change.bobInput)
    + Part(x, BountyKey(e.sender, c.bob, c.bounties[2]), e.change.bobOutput - e.change.aliceInput)

LEMMA SettledAt ==
    ASSUME NEW b \in Balances, NEW c, NEW e, c.alice \in Orders, c.bob \in Orders,
           c.bounties \in VaultIds \X VaultIds, e.sender \in Senders, e.change \in ClearStates
    PROVE  /\ Settled(b, c, e) \in Balances
           /\ \A x \in Keys : ClearPart(x, c, e) \in Int /\ Settled(b, c, e)[x] = b[x] + ClearPart(x, c, e)
<1> DEFINE s == e.change
           ai == s.aliceInput
           ao == s.aliceOutput
           bi == s.bobInput
           bo == s.bobOutput
           k1 == BountyKey(e.sender, c.alice, c.bounties[1])
           k2 == BountyKey(e.sender, c.bob, c.bounties[2])
           p1 == ao - bi
           p2 == bo - ai
           half == Traded(b, c.alice, ai, ao)
           traded == Traded(half, c.bob, bi, bo)
           first == Bounty(traded, k1, p1)
           last == Bounty(first, k2, p2)
<1>1. ai \in Int /\ ao \in Int /\ bi \in Int /\ bo \in Int /\ p1 \in Nat /\ p2 \in Nat
  BY ClearAmounts
<1>2. k1 \in Keys /\ k2 \in Keys
  BY BountyKeys
<1>3. Settled(b, c, e) = last
  BY DEF Settled, BountyKey
<1>4. \A x : ClearPart(x, c, e) = Part(x, InKey(c.alice), ai) + Part(x, OutKey(c.alice), -ao)
                + Part(x, InKey(c.bob), bi) + Part(x, OutKey(c.bob), -bo)
                + Part(x, k1, p1) + Part(x, k2, p2)
  BY DEF ClearPart
<1> HIDE DEF ai, ao, bi, bo, s, k1, k2, p1, p2
<1>5. /\ half \in Balances
      /\ \A x \in Keys : half[x] = b[x] + Part(x, InKey(c.alice), ai) + Part(x, OutKey(c.alice), -ao)
  BY <1>1, TradedAt
<1> HIDE DEF half
<1>6. /\ traded \in Balances
      /\ \A x \in Keys : traded[x] = half[x] + Part(x, InKey(c.bob), bi) + Part(x, OutKey(c.bob), -bo)
  BY <1>1, <1>5, TradedAt
<1> HIDE DEF traded
<1>7. first \in Balances /\ \A x \in Keys : first[x] = traded[x] + Part(x, k1, p1)
  BY <1>1, <1>2, <1>6, BountyAt
<1> HIDE DEF first
<1>8. last \in Balances /\ \A x \in Keys : last[x] = first[x] + Part(x, k2, p2)
  BY <1>1, <1>2, <1>7, BountyAt
<1> HIDE DEF last
<1>9. ASSUME NEW x \in Keys
      PROVE  ClearPart(x, c, e) \in Int /\ last[x] = b[x] + ClearPart(x, c, e)
  <2> DEFINE q1 == Part(x, InKey(c.alice), ai)
             q2 == Part(x, OutKey(c.alice), -ao)
             q3 == Part(x, InKey(c.bob), bi)
             q4 == Part(x, OutKey(c.bob), -bo)
             q5 == Part(x, k1, p1)
             q6 == Part(x, k2, p2)
  <2>1. q1 \in Int /\ q2 \in Int /\ q3 \in Int /\ q4 \in Int /\ q5 \in Int /\ q6 \in Int
    BY <1>1 DEF Part
  <2>2. b[x] \in Int
    BY DEF Balances
  <2>3. half[x] = b[x] + q1 + q2
    BY <1>5
  <2>4. traded[x] = half[x] + q3 + q4
    BY <1>6
  <2>5. first[x] = traded[x] + q5 /\ last[x] = first[x] + q6
    BY <1>7, <1>8
  <2>6. ClearPart(x, c, e) = q1 + q2 + q3 + q4 + q5 + q6
    BY <1>4
  <2> HIDE DEF q1, q2, q3, q4, q5, q6
  <2> QED
    BY <2>1, <2>2, <2>3, <2>4, <2>5, <2>6
<1> QED
  BY <1>3, <1>8, <1>9

\* The handler of a clear, and that of a take, make the same of balances that are the same.
LEMMA SettledSame ==
    ASSUME NEW b \in Balances, NEW g \in Balances, Same(b, g), NEW c, NEW e,
           c.alice \in Orders, c.bob \in Orders, c.bounties \in VaultIds \X VaultIds,
           e.sender \in Senders, e.change \in ClearStates
    PROVE  Settled(b, c, e) \in Balances /\ Same(Settled(b, c, e), Settled(g, c, e))
<1>1. /\ Settled(b, c, e) \in Balances
      /\ \A x \in Keys : Settled(b, c, e)[x] = b[x] + ClearPart(x, c, e)
  BY SettledAt
<1>2. \A x \in Keys : Settled(g, c, e)[x] = g[x] + ClearPart(x, c, e)
  BY SettledAt
<1> QED
  BY <1>1, <1>2 DEF Same

LEMMA TakenSame ==
    ASSUME NEW b \in Balances, NEW g \in Balances, Same(b, g), NEW e, e.order \in Orders,
           e.input \in Int, e.output \in Int
    PROVE  Taken(b, e) \in Balances /\ Same(Taken(b, e), Taken(g, e))
<1> DEFINE o == e.order
           m == -e.input
<1>1. /\ Taken(b, e) \in Balances
      /\ \A x \in Keys : Taken(b, e)[x] = b[x] + Part(x, OutKey(o), m) + Part(x, InKey(o), e.output)
  BY TakenAt
<1>2. \A x \in Keys : Taken(g, e)[x] = g[x] + Part(x, OutKey(o), m) + Part(x, InKey(o), e.output)
  BY TakenAt
<1> HIDE DEF m, o
<1> QED
  BY <1>1, <1>2 DEF Same

LEMMA ClearIndexed ==
    ASSUME IndexInv, NEW alice \in Orders, NEW bob \in Orders, NEW sender \in Senders,
           NEW w \in Bounties, NEW s \in ClearStates, clear4(alice, bob, sender, w, s)
    PROVE  IndexInv'
<1> DEFINE c == [kind |-> "ClearV3", alice |-> alice, bob |-> bob, sender |-> sender, bounties |-> w]
           e == [kind |-> "AfterClearV2", sender |-> sender, change |-> s]
           k1 == BountyKey(sender, alice, w[1])
           k2 == BountyKey(sender, bob, w[2])
           ai == s.aliceInput
           bi == s.bobInput
           ma == -s.aliceOutput
           mb == -s.bobOutput
           p1 == s.aliceOutput - s.bobInput
           p2 == s.bobOutput - s.aliceInput
           v1 == Moved(vaults, OutKey(alice), ma)
           v2 == Moved(v1, OutKey(bob), mb)
           v3 == Moved(v2, InKey(alice), ai)
           v4 == Moved(v3, InKey(bob), bi)
           v5 == Moved(v4, k1, p1)
           v == Moved(v5, k2, p2)
           old == State(vaults, dust, live)
<1>1. vaults \in Balances /\ dust \in Balances /\ live \in SUBSET Orders
  BY DEF IndexInv, Current
<1>2. w \in VaultIds \X VaultIds
  BY IndexersAssumption
<1>3. ai \in Int /\ bi \in Int /\ ma \in Int /\ mb \in Int /\ p1 \in Int /\ p2 \in Int
  BY ClearAmounts
<1>4. /\ InKey(alice) \in Keys /\ OutKey(alice) \in Keys
      /\ InKey(bob) \in Keys /\ OutKey(bob) \in Keys
  BY OrderKeys
<1>5. k1 \in Keys /\ k2 \in Keys
  BY <1>2, BountyKeys
<1>6. Emit(<<c, e>>, v, dust, live) /\ live # {}
  BY DEF clear4, BountyKey
<1>7. /\ c.kind = "ClearV3" /\ c.alice = alice /\ c.bob = bob /\ c.bounties = w /\ c.sender = sender
      /\ e.kind = "AfterClearV2" /\ e.sender = sender /\ e.change = s
  OBVIOUS
<1>8. \A x : ClearPart(x, c, e) = Part(x, InKey(alice), ai) + Part(x, OutKey(alice), ma)
                + Part(x, InKey(bob), bi) + Part(x, OutKey(bob), mb)
                + Part(x, k1, p1) + Part(x, k2, p2)
  BY DEF ClearPart
<1> HIDE DEF c, e, k1, k2, ai, bi, ma, mb, p1, p2
<1>9. v1 \in Balances /\ \A x \in Keys : Wallet(x) \/ v1[x] = vaults[x] + Part(x, OutKey(alice), ma)
  BY <1>1, <1>3, <1>4, MovedAt
<1> HIDE DEF v1
<1>10. v2 \in Balances /\ \A x \in Keys : Wallet(x) \/ v2[x] = v1[x] + Part(x, OutKey(bob), mb)
  BY <1>3, <1>4, <1>9, MovedAt
<1> HIDE DEF v2
<1>11. v3 \in Balances /\ \A x \in Keys : Wallet(x) \/ v3[x] = v2[x] + Part(x, InKey(alice), ai)
  BY <1>3, <1>4, <1>10, MovedAt
<1> HIDE DEF v3
<1>12. v4 \in Balances /\ \A x \in Keys : Wallet(x) \/ v4[x] = v3[x] + Part(x, InKey(bob), bi)
  BY <1>3, <1>4, <1>11, MovedAt
<1> HIDE DEF v4
<1>13. v5 \in Balances /\ \A x \in Keys : Wallet(x) \/ v5[x] = v4[x] + Part(x, k1, p1)
  BY <1>3, <1>5, <1>12, MovedAt
<1> HIDE DEF v5
<1>14. v \in Balances /\ \A x \in Keys : Wallet(x) \/ v[x] = v5[x] + Part(x, k2, p2)
  BY <1>3, <1>5, <1>13, MovedAt
<1> HIDE DEF v
<1>15. /\ old.balance \in Balances /\ old.live = live
       /\ \A x \in Keys : old.balance[x] = vaults[x] + dust[x]
  BY <1>1, StateAt
<1>16. /\ State(v, dust, live).live = live
       /\ \A x \in Keys : State(v, dust, live).balance[x] = v[x] + dust[x]
  BY <1>1, <1>14, StateAt
<1> HIDE DEF old
<1>17. \A x \in Keys : Settled(old.balance, c, e)[x] = old.balance[x] + ClearPart(x, c, e)
  BY <1>2, <1>7, <1>15, SettledAt
<1>18. Same(State(v, dust, live).balance, Settled(old.balance, c, e))
  <2> SUFFICES ASSUME NEW x \in Keys, ~Wallet(x)
               PROVE  State(v, dust, live).balance[x] = Settled(old.balance, c, e)[x]
    BY DEF Same
  <2> DEFINE q1 == Part(x, InKey(alice), ai)
             q2 == Part(x, OutKey(alice), ma)
             q3 == Part(x, InKey(bob), bi)
             q4 == Part(x, OutKey(bob), mb)
             q5 == Part(x, k1, p1)
             q6 == Part(x, k2, p2)
  <2>1. q1 \in Int /\ q2 \in Int /\ q3 \in Int /\ q4 \in Int /\ q5 \in Int /\ q6 \in Int
    BY <1>3, PartInt
  <2>2. vaults[x] \in Int /\ dust[x] \in Int
    BY <1>1 DEF Balances
  <2>3. v1[x] = vaults[x] + q2 /\ v2[x] = v1[x] + q4 /\ v3[x] = v2[x] + q1
    BY <1>9, <1>10, <1>11
  <2>4. v4[x] = v3[x] + q3 /\ v5[x] = v4[x] + q5 /\ v[x] = v5[x] + q6
    BY <1>12, <1>13, <1>14
  <2>5. ClearPart(x, c, e) = q1 + q2 + q3 + q4 + q5 + q6
    BY <1>8
  <2>6. Settled(old.balance, c, e)[x] = (vaults[x] + dust[x]) + ClearPart(x, c, e)
    BY <1>15, <1>17
  <2>7. State(v, dust, live).balance[x] = v[x] + dust[x]
    BY <1>16
  <2> HIDE DEF q1, q2, q3, q4, q5, q6
  <2> QED
    BY <2>1, <2>2, <2>3, <2>4, <2>5, <2>6, <2>7
<1>19. Clears(At(c), At(e), old, State(v, dust, live))
  <2>1. At(c).e = c /\ At(e).e = e /\ At(c).tx = At(e).tx /\ At(c).block = At(e).block
    BY DEF At
  <2> QED
    BY <1>2, <1>7, <1>15, <1>16, <1>18, <2>1 DEF Clears
<1> QED
  BY <1>1, <1>6, <1>14, <1>19, EmitClear DEF old, At

-----------------------------------------------------------------------------
(* The handlers of the subgraph                                            *)

\* What the handlers leave of the invariant: they only move the subgraph.
LEMMA SubgraphOnly ==
    ASSUME IndexInv, UNCHANGED <<log, vaults, dust, live, after>>, Follows'
    PROVE  IndexInv'
<1>1. Replays' = Replays
  BY DEF Replays, Sequence, IsState, Balances, Explained, Explains, Clears, Before, Zero
<1>2. Current' = Current
  BY DEF Current, State, Before, Balances
<1> QED
  BY <1>1, <1>2 DEF IndexInv

\* Before an event that does not end a clear the subgraph is where the contract was.
LEMMA BeforeEvent ==
    ASSUME IndexInv, sg.next <= Len(log), Event.e.kind # "AfterClearV2"
    PROVE  /\ sg.next \in DOMAIN log /\ sg.balance \in Balances /\ Whole \in Balances
           /\ Before(after, sg.next).balance \in Balances
           /\ Same(Whole, Before(after, sg.next).balance)
           /\ sg.active = Before(after, sg.next).live
           /\ sg.temp = {}
<1> DEFINE i == sg.next
<1>1. Replays /\ Follows
  BY DEF IndexInv
<1>2. Len(log) \in Nat /\ DOMAIN log = 1 .. Len(log)
  BY <1>1, LogFields
<1>3. i \in 1 .. Len(log) /\ sg.balance \in Balances
  BY <1>1, <1>2 DEF Follows
<1>4. ~(i > 1 /\ log[i - 1].e.kind = "ClearV3")
  <2> SUFFICES ASSUME i > 1, log[i - 1].e.kind = "ClearV3"
               PROVE  FALSE
    OBVIOUS
  <2>1. i - 1 \in DOMAIN log /\ (i - 1) + 1 = i
    BY <1>2, <1>3
  <2>2. Clears(log[i - 1], log[(i - 1) + 1], after[(i - 1) - 1], after[(i - 1) + 1])
    BY <1>1, <2>1, ClearAt
  <2>3. Clears(log[i - 1], log[i], after[(i - 1) - 1], after[i])
    BY <2>1, <2>2
  <2> QED
    BY <2>3 DEF Clears, Event
<1>5. Before(after, i).balance \in Balances
  <2>1. CASE i = 1
    <3>1. [k \in Keys |-> 0] \in Balances
      BY DEF Balances
    <3> DEFINE z == [k \in Keys |-> 0]
    <3> HIDE DEF z
    <3>2. State(z, z, {}).balance \in Balances
      BY <3>1, StateAt DEF z
    <3> QED
      BY <2>1, <3>2 DEF Before, Zero, z
  <2>2. CASE i # 1
    <3>1. i - 1 \in DOMAIN log
      BY <1>2, <1>3, <2>2
    <3>2. IsState(after[i - 1])
      BY <1>1, <3>1, ClearAt
    <3> QED
      BY <2>2, <3>2 DEF Before, IsState
  <2> QED
    BY <2>1, <2>2
<1>6. i \in DOMAIN log
  BY <1>2, <1>3
<1>7. Whole \in Balances
  BY <1>1, WholeType DEF Follows
<1> QED
  BY <1>1, <1>3, <1>4, <1>5, <1>6, <1>7 DEF Follows

\* What a handler that leaves nothing out makes of the balances with what is left out.
LEMMA NothingLeftOut ==
    ASSUME IndexInv, NEW tokens, NEW erc20 \in Asked(tokens), NEW b \in Balances, NEW active, NEW temp,
           sg.next <= Len(log), Event.e.kind # "DepositV2", Indexed(erc20, b, active, temp)
    PROVE  /\ Known'
           /\ Whole' = [k \in Keys |-> b[k] + LeftOut(k)]
<1> DEFINE i == sg.next
<1>1. Replays /\ Follows
  BY DEF IndexInv
<1>2. Len(log) \in Nat /\ DOMAIN log = 1 .. Len(log) /\ i \in DOMAIN log /\ (i + 1) - 1 = i
  BY <1>1, LogFields DEF Follows
<1>3. sg'.next = i + 1 /\ sg'.balance = b /\ sg'.erc20 = erc20 /\ UNCHANGED log
  BY DEF Indexed, contract
<1>4. /\ erc20 \in [Tokens -> {"none", "null", "read"}]
      /\ \A t \in Tokens : sg.erc20[t] # "none" => erc20[t] = sg.erc20[t]
  BY DEF Asked
<1>5. /\ sg.erc20 \in [Tokens -> {"none", "null", "read"}]
      /\ \A j \in 1 .. i - 1 : log[j].e.kind = "DepositV2" => sg.erc20[log[j].e.key[2]] # "none"
  BY <1>1 DEF Follows, Known
<1>6. log[i].e.kind # "DepositV2"
  BY DEF Event
<1> HIDE DEF i
<1>7. ASSUME NEW j \in DOMAIN log, log[j].e.kind = "DepositV2" PROVE log[j].e.key[2] \in Tokens
  <2>1. Explains(log[j].e, Before(after, j), after[j])
    BY <1>1, <1>7, ClearAt
  <2> QED
    BY <1>7, <2>1 DEF Explains, Keys
<1>8. Known'
  <2>1. ASSUME NEW j \in 1 .. i, log[j].e.kind = "DepositV2" PROVE erc20[log[j].e.key[2]] # "none"
    <3>1. j \in 1 .. i - 1 /\ j \in DOMAIN log
      BY <1>2, <1>6, <2>1
    <3> QED
      BY <1>4, <1>5, <1>7, <2>1, <3>1
  <2> QED
    BY <1>2, <1>3, <1>4, <2>1 DEF Known
<1>9. ASSUME NEW k \in Keys PROVE LeftOut(k)' = LeftOut(k)
  <2>1. LeftOut(k)' = IF erc20[k[2]] = "null" THEN SumOf(Gains(log, i, k)) ELSE 0
    BY <1>2, <1>3, LeftOutNext
  <2>2. LeftOut(k) = IF sg.erc20[k[2]] = "null" THEN SumOf(Gains(log, i - 1, k)) ELSE 0
    BY LeftOutIs DEF i
  <2>3. SumOf(Gains(log, i, k)) = SumOf(Gains(log, i - 1, k))
    BY <1>1, <1>2, <1>6, GainsStep
  <2>4. k[2] \in Tokens
    BY DEF Keys
  <2>5. CASE sg.erc20[k[2]] # "none"
    BY <1>4, <2>1, <2>2, <2>3, <2>4, <2>5
  <2>6. CASE sg.erc20[k[2]] = "none"
    <3>1. Gains(log, i - 1, k) = {}
      BY <1>5, <2>6 DEF Gains
    <3>2. i - 1 \in 0 .. Len(log)
      BY <1>2
    <3>3. Changes(Gains(log, i - 1, k))
      BY <1>1, <3>2, GainsChange
    <3>4. SumOf(Gains(log, i - 1, k)) = 0
      BY <3>1, <3>3, SumStep
    <3> QED
      BY <2>1, <2>2, <2>3, <2>6, <3>4
  <2> QED
    BY <2>5, <2>6
<1> QED
  BY <1>3, <1>8, <1>9 DEF Whole

\* The handler of an event that does not begin a clear; w is Whole after it.
LEMMA EventFollowed ==
    ASSUME IndexInv, NEW erc20, NEW b \in Balances, NEW active, NEW w,
           sg.next <= Len(log), Event.e.kind # "ClearV3",
           Same(w, after[sg.next].balance), active = after[sg.next].live,
           Indexed(erc20, b, active, {}), Known', Whole' = w
    PROVE  IndexInv'
<1> DEFINE i == sg.next
<1>1. Replays /\ Follows
  BY DEF IndexInv
<1>2. Len(log) \in Nat /\ i \in 1 .. Len(log)
  BY <1>1, LogFields DEF Follows
<1>3. /\ sg'.next = i + 1 /\ sg'.balance = b /\ sg'.active = active /\ sg'.temp = {}
      /\ UNCHANGED <<log, vaults, dust, live, after>>
  BY DEF Indexed, contract
<1>4. i + 1 \in 1 .. Len(log) + 1 /\ i + 1 # 1 /\ (i + 1) - 1 = i
  BY <1>2
<1>5. Before(after, i + 1) = after[i]
  BY <1>4 DEF Before
<1>6. log[i].e.kind # "ClearV3"
  BY DEF Event
<1> HIDE DEF i
<1>7. Same(w, after[i].balance) /\ active = after[i].live
  BY DEF i
<1>8. Follows'
  <2>1. (sg'.next \in 1 .. Len(log') + 1) /\ (sg'.balance \in Balances)
    BY <1>3, <1>4
  <2>2. log'[sg'.next - 1].e.kind # "ClearV3"
    BY <1>3, <1>4, <1>6
  <2>3. /\ Same(Whole', Before(after', sg'.next).balance)
        /\ sg'.active = Before(after', sg'.next).live /\ sg'.temp = {}
    BY <1>3, <1>5, <1>7
  <2> QED
    BY <2>1, <2>2, <2>3 DEF Follows
<1> QED
  BY <1>3, <1>8, SubgraphOnly

LEMMA EventExplained ==
    ASSUME IndexInv, sg.next <= Len(log), Event.e.kind \notin {"ClearV3", "AfterClearV2"}
    PROVE  Explains(Event.e, Before(after, sg.next), after[sg.next])
<1>1. Replays /\ sg.next \in DOMAIN log
  BY BeforeEvent DEF IndexInv
<1> QED
  BY <1>1, ClearAt DEF Event

\* A change of the subgraph's balances is the same change of those with what is left out.
LEMMA SameChange ==
    ASSUME IndexInv, NEW b, NEW g \in Balances, NEW part,
           \A x \in Keys : part[x] \in Int /\ b[x] = sg.balance[x] + part[x] /\ g[x] = Whole[x] + part[x]
    PROVE  [k \in Keys |-> b[k] + LeftOut(k)] = g
<1>1. /\ \A k \in Keys : LeftOut(k) \in Int /\ sg.balance[k] \in Int
      /\ \A k \in Keys : Whole[k] = sg.balance[k] + LeftOut(k)
  BY WholeType DEF IndexInv, Follows
<1>2. \A k \in Keys : b[k] + LeftOut(k) = g[k]
  BY <1>1
<1>3. g = [k \in Keys |-> g[k]]
  BY DEF Balances
<1> QED
  BY <1>2, <1>3

LEMMA BalancedWhole ==
    ASSUME IndexInv, Whole \in Balances, sg.balance \in Balances, NEW k \in Keys, NEW a \in Int
    PROVE  [x \in Keys |-> Balanced(sg.balance, k, a)[x] + LeftOut(x)] = Balanced(Whole, k, a)
<1> DEFINE b == Balanced(sg.balance, k, a)
           g == Balanced(Whole, k, a)
           part == [x \in Keys |-> Part(x, k, a)]
<1>1. \A x \in Keys : part[x] \in Int /\ b[x] = sg.balance[x] + part[x]
  BY BalancedAt, PartInt
<1>2. g \in Balances /\ \A x \in Keys : g[x] = Whole[x] + part[x]
  BY BalancedAt
<1> HIDE DEF b, g, part
<1>3. [x \in Keys |-> b[x] + LeftOut(x)] = g
  BY <1>1, <1>2, SameChange
<1> QED
  BY <1>3 DEF b, g

LEMMA TakenWhole ==
    ASSUME IndexInv, Whole \in Balances, sg.balance \in Balances, NEW e, e.order \in Orders,
           e.input \in Int, e.output \in Int
    PROVE  [x \in Keys |-> Taken(sg.balance, e)[x] + LeftOut(x)] = Taken(Whole, e)
<1> DEFINE o == e.order
           m == -e.input
           b == Taken(sg.balance, e)
           g == Taken(Whole, e)
           in(x) == Part(x, InKey(o), e.output)
           out(x) == Part(x, OutKey(o), m)
           part == [x \in Keys |-> out(x) + in(x)]
<1>1. \A x \in Keys : b[x] = sg.balance[x] + out(x) + in(x)
  BY TakenAt
<1>2. g \in Balances /\ \A x \in Keys : g[x] = Whole[x] + out(x) + in(x)
  BY TakenAt
<1>3. \A x \in Keys : out(x) \in Int /\ in(x) \in Int
  BY PartInt
<1>4. \A x \in Keys : sg.balance[x] \in Int /\ Whole[x] \in Int
  BY DEF Balances
<1> HIDE DEF b, g, in, out
<1>5. \A x \in Keys : part[x] \in Int /\ b[x] = sg.balance[x] + part[x] /\ g[x] = Whole[x] + part[x]
  BY <1>1, <1>2, <1>3, <1>4
<1> HIDE DEF part
<1>6. [x \in Keys |-> b[x] + LeftOut(x)] = g
  BY <1>2, <1>5, SameChange
<1> QED
  BY <1>6 DEF b, g

LEMMA SettledWhole ==
    ASSUME IndexInv, Whole \in Balances, sg.balance \in Balances, NEW c, NEW e,
           c.alice \in Orders, c.bob \in Orders, c.bounties \in VaultIds \X VaultIds,
           e.sender \in Senders, e.change \in ClearStates
    PROVE  [x \in Keys |-> Settled(sg.balance, c, e)[x] + LeftOut(x)] = Settled(Whole, c, e)
<1> DEFINE b == Settled(sg.balance, c, e)
           g == Settled(Whole, c, e)
           part == [x \in Keys |-> ClearPart(x, c, e)]
<1>1. \A x \in Keys : part[x] \in Int /\ b[x] = sg.balance[x] + part[x]
  BY SettledAt
<1>2. g \in Balances /\ \A x \in Keys : g[x] = Whole[x] + part[x]
  BY SettledAt
<1> HIDE DEF b, g, part
<1>3. [x \in Keys |-> b[x] + LeftOut(x)] = g
  BY <1>1, <1>2, SameChange
<1> QED
  BY <1>3 DEF b, g

\* A deposit is either credited or left out.
LEMMA DepositWhole ==
    ASSUME IndexInv, Whole \in Balances, sg.balance \in Balances, sg.next \in DOMAIN log,
           Event.e.kind = "DepositV2", Event.e.key \in Keys, Event.e.amount \in Int,
           NEW erc20 \in Asked({Event.e.key[2]}), NEW b, NEW active, NEW temp,
           b = (IF erc20[Event.e.key[2]] = "null" THEN sg.balance
                ELSE Balanced(sg.balance, Event.e.key, Event.e.amount)),
           Indexed(erc20, b, active, temp)
    PROVE  /\ b \in Balances
           /\ Known'
           /\ Whole' = Balanced(Whole, Event.e.key, Event.e.amount)
<1> DEFINE i == sg.next
           key == Event.e.key
           a == Event.e.amount
           t == key[2]
           g == Balanced(Whole, key, a)
<1>1. Replays /\ Follows /\ key \in Keys /\ a \in Int
  BY DEF IndexInv
<1>2. Len(log) \in Nat /\ DOMAIN log = 1 .. Len(log) /\ i \in DOMAIN log /\ (i + 1) - 1 = i
  BY <1>1, LogFields
<1>3. sg'.next = i + 1 /\ sg'.balance = b /\ sg'.erc20 = erc20 /\ UNCHANGED log
  BY DEF Indexed, contract
<1>4. t \in Tokens
  BY DEF Keys
<1>5. /\ erc20 \in [Tokens -> {"none", "null", "read"}]
      /\ \A u \in Tokens : sg.erc20[u] # "none" \/ u # t => erc20[u] = sg.erc20[u]
      /\ erc20[t] # "none"
  BY <1>4 DEF Asked
<1>6. /\ sg.erc20 \in [Tokens -> {"none", "null", "read"}]
      /\ \A j \in 1 .. i - 1 : log[j].e.kind = "DepositV2" => sg.erc20[log[j].e.key[2]] # "none"
  BY <1>1 DEF Follows, Known
<1>7. log[i].e.kind = "DepositV2" /\ log[i].e.key = key /\ log[i].e.amount = a
  BY DEF Event
<1>8. /\ Balanced(sg.balance, key, a) \in Balances /\ g \in Balances
      /\ \A x \in Keys : Balanced(sg.balance, key, a)[x] = sg.balance[x] + Part(x, key, a)
      /\ \A x \in Keys : g[x] = Whole[x] + Part(x, key, a)
  BY <1>1, BalancedAt
<1>9. b = IF erc20[t] = "null" THEN sg.balance ELSE Balanced(sg.balance, key, a)
  OBVIOUS
<1>10. b \in Balances
  BY <1>8, <1>9
<1>11. /\ \A k \in Keys : LeftOut(k) \in Int /\ sg.balance[k] \in Int
       /\ \A k \in Keys : Whole[k] = sg.balance[k] + LeftOut(k)
  BY <1>1, WholeType DEF Follows
<1> HIDE DEF i, key, a, t, g
<1>12. ASSUME NEW j \in DOMAIN log, log[j].e.kind = "DepositV2" PROVE log[j].e.key[2] \in Tokens
  <2>1. Explains(log[j].e, Before(after, j), after[j])
    BY <1>1, <1>12, ClearAt
  <2> QED
    BY <1>12, <2>1 DEF Explains, Keys
<1>13. Known'
  <2>1. ASSUME NEW j \in 1 .. i, log[j].e.kind = "DepositV2" PROVE erc20[log[j].e.key[2]] # "none"
    <3>1. j \in DOMAIN log /\ (j = i \/ j \in 1 .. i - 1)
      BY <1>2
    <3>2. CASE j = i
      BY <1>5, <1>7, <3>2 DEF t
    <3>3. CASE j \in 1 .. i - 1
      BY <1>5, <1>6, <1>12, <2>1, <3>1, <3>3
    <3> QED
      BY <3>1, <3>2, <3>3
  <2> QED
    BY <1>2, <1>3, <1>5, <2>1 DEF Known
<1>14. ASSUME NEW k \in Keys PROVE b[k] + LeftOut(k)' = g[k]
  <2> DEFINE new == SumOf(Gains(log, i, k))
             old == SumOf(Gains(log, i - 1, k))
  <2>1. LeftOut(k)' = IF erc20[k[2]] = "null" THEN new ELSE 0
    BY <1>2, <1>3, LeftOutNext
  <2>2. LeftOut(k) = IF sg.erc20[k[2]] = "null" THEN old ELSE 0
    BY LeftOutIs DEF i
  <2>3. old \in Int /\ new = IF k = key THEN old + a ELSE old
    BY <1>1, <1>2, <1>7, GainsStep
  <2>4. sg.erc20[k[2]] = "none" => old = 0
    <3> SUFFICES ASSUME sg.erc20[k[2]] = "none" PROVE old = 0
      OBVIOUS
    <3>1. Gains(log, i - 1, k) = {}
      BY <1>6 DEF Gains
    <3>2. i - 1 \in 0 .. Len(log)
      BY <1>2
    <3>3. Changes(Gains(log, i - 1, k))
      BY <1>1, <3>2, GainsChange
    <3> QED
      BY <3>1, <3>3, SumStep
  <2> HIDE DEF new, old
  <2>5. k[2] \in Tokens
    BY DEF Keys
  <2>6. sg.balance[k] \in Int /\ LeftOut(k) \in Int /\ Whole[k] = sg.balance[k] + LeftOut(k)
    BY <1>11
  <2>7. g[k] = sg.balance[k] + LeftOut(k) + Part(k, key, a)
    BY <1>8, <2>6
  <2>8. CASE k = key
    <3>1. k[2] = t /\ Part(k, key, a) = a
      BY <2>8 DEF t, Part
    <3>2. CASE erc20[t] = "null"
      <4>1. b[k] = sg.balance[k] /\ LeftOut(k)' = old + a
        BY <1>9, <2>1, <2>3, <2>8, <3>1, <3>2
      <4>2. LeftOut(k) = old
        <5>1. sg.erc20[t] = "null" \/ sg.erc20[t] = "none"
          BY <1>4, <1>5, <1>6, <3>2
        <5> QED
          BY <2>2, <2>4, <3>1, <5>1
      <4> QED
        BY <1>1, <2>3, <2>6, <2>7, <3>1, <4>1, <4>2
    <3>3. CASE erc20[t] # "null"
      <4>1. LeftOut(k)' = 0
        BY <2>1, <3>1, <3>3
      <4>2. b[k] = sg.balance[k] + a
        BY <1>8, <1>9, <3>1, <3>3
      <4>3. LeftOut(k) = 0
        <5>1. sg.erc20[t] # "null"
          BY <1>4, <1>5, <3>3
        <5> QED
          BY <2>2, <3>1, <5>1
      <4> QED
        BY <1>1, <2>6, <2>7, <3>1, <4>1, <4>2, <4>3
    <3> QED
      BY <3>2, <3>3
  <2>9. CASE k # key
    <3>1. Part(k, key, a) = 0
      BY <2>9 DEF Part
    <3>2. b[k] = sg.balance[k]
      BY <1>8, <1>9, <2>6, <3>1
    <3>3. LeftOut(k)' = LeftOut(k)
      <4>1. CASE sg.erc20[k[2]] = "none"
        BY <2>1, <2>2, <2>3, <2>4, <2>9, <4>1
      <4>2. CASE sg.erc20[k[2]] # "none"
        <5>1. erc20[k[2]] = sg.erc20[k[2]]
          BY <1>5, <2>5, <4>2
        <5> QED
          BY <2>1, <2>2, <2>3, <2>9, <5>1
      <4> QED
        BY <4>1, <4>2
    <3> QED
      BY <2>6, <2>7, <3>1, <3>2, <3>3
  <2> QED
    BY <2>8, <2>9
<1>15. g = [k \in Keys |-> g[k]]
  BY <1>8 DEF Balances
<1>16. Whole' = g
  BY <1>3, <1>14, <1>15 DEF Whole
<1> QED
  BY <1>10, <1>13, <1>16 DEF g, key, a

LEMMA DepositFollowed == ASSUME IndexInv, handleDeposit PROVE IndexInv'
<1> DEFINE e == Event.e
           p == Before(after, sg.next)
           s == after[sg.next]
           w == Balanced(Whole, e.key, e.amount)
<1>1. sg.next <= Len(log) /\ e.kind = "DepositV2"
  BY DEF handleDeposit, Handles
<1> DEFINE b(erc20) == IF erc20[e.key[2]] = "null" THEN sg.balance ELSE Balanced(sg.balance, e.key, e.amount)
<1>2. PICK erc20 \in Asked({e.key[2]}) : Indexed(erc20, b(erc20), sg.active, sg.temp)
  BY DEF handleDeposit
<1>3. Explains(e, p, s)
  BY <1>1, EventExplained
<1>4. /\ sg.next \in DOMAIN log /\ sg.balance \in Balances /\ Whole \in Balances /\ p.balance \in Balances
      /\ Same(Whole, p.balance) /\ sg.active = p.live /\ sg.temp = {}
  BY <1>1, BeforeEvent
<1>5. e.key \in Keys /\ e.amount \in Int /\ Same(s.balance, Balanced(p.balance, e.key, e.amount)) /\ s.live = p.live
  BY <1>1, <1>3 DEF Explains
<1>6. b(erc20) \in Balances /\ Known' /\ Whole' = w
  BY <1>1, <1>2, <1>4, <1>5, DepositWhole
<1>7. Event.e.kind # "ClearV3"
  BY <1>1
<1> HIDE DEF e, p, s, b
<1>8. Same(w, Balanced(p.balance, e.key, e.amount))
  BY <1>4, <1>5, BalancedSame
<1> HIDE DEF w
<1>9. Same(w, s.balance)
  BY <1>5, <1>8 DEF Same
<1> QED
  BY <1>1, <1>2, <1>4, <1>5, <1>6, <1>7, <1>9, EventFollowed DEF s

LEMMA WithdrawFollowed == ASSUME IndexInv, handleWithdraw PROVE IndexInv'
<1> DEFINE e == Event.e
           p == Before(after, sg.next)
           s == after[sg.next]
           m == -e.amount
           b == Balanced(sg.balance, e.key, m)
           w == Balanced(Whole, e.key, m)
<1>1. sg.next <= Len(log) /\ e.kind = "WithdrawV2"
  BY DEF handleWithdraw, Handles
<1>2. PICK erc20 \in Asked({e.key[2]}) : Indexed(erc20, b, sg.active, sg.temp)
  BY DEF handleWithdraw
<1>3. Explains(e, p, s)
  BY <1>1, EventExplained
<1>4. /\ sg.balance \in Balances /\ Whole \in Balances /\ p.balance \in Balances
      /\ Same(Whole, p.balance) /\ sg.active = p.live /\ sg.temp = {}
  BY <1>1, BeforeEvent
<1>5. Event.e.kind # "ClearV3" /\ Event.e.kind # "DepositV2"
  BY <1>1
<1> HIDE DEF e, p, s
<1>6. e.key \in Keys /\ m \in Int /\ Same(s.balance, Balanced(p.balance, e.key, m)) /\ s.live = p.live
  BY <1>1, <1>3 DEF Explains
<1> HIDE DEF m
<1>7. b \in Balances /\ [x \in Keys |-> b[x] + LeftOut(x)] = w
  BY <1>4, <1>6, BalancedAt, BalancedWhole
<1>8. Same(w, Balanced(p.balance, e.key, m))
  BY <1>4, <1>6, BalancedSame
<1> HIDE DEF b, w
<1>9. Known' /\ Whole' = w
  BY <1>1, <1>2, <1>5, <1>7, NothingLeftOut
<1>10. Same(w, s.balance)
  BY <1>6, <1>8 DEF Same
<1> QED
  BY <1>1, <1>2, <1>4, <1>5, <1>6, <1>7, <1>9, <1>10, EventFollowed DEF s

LEMMA AskedNothing == ASSUME IndexInv PROVE sg.erc20 \in Asked({})
  BY DEF IndexInv, Follows, Known, Asked

LEMMA OrderFollowed == ASSUME IndexInv, handleAddOrder \/ handleRemoveOrder PROVE IndexInv'
<1> DEFINE e == Event.e
           p == Before(after, sg.next)
           s == after[sg.next]
           b == sg.balance
           active == IF e.kind = "AddOrderV3" THEN sg.active \cup {e.order} ELSE sg.active \ {e.order}
<1>1. sg.next <= Len(log) /\ e.kind \in {"AddOrderV3", "RemoveOrderV3"}
  BY DEF handleAddOrder, handleRemoveOrder, Handles
<1>2. \E tokens : \E erc20 \in Asked(tokens) : Indexed(erc20, b, active, sg.temp)
  <2>1. CASE handleAddOrder
    BY <2>1 DEF handleAddOrder, Handles
  <2>2. CASE handleRemoveOrder
    <3>1. e.kind = "RemoveOrderV3"
      BY <2>2 DEF handleRemoveOrder, Handles
    <3>2. e.kind # "AddOrderV3"
      BY <3>1
    <3>3. Indexed(sg.erc20, b, active, sg.temp)
      BY <2>2, <3>2 DEF handleRemoveOrder
    <3> QED
      BY <3>3, AskedNothing
  <2> QED
    BY <2>1, <2>2
<1>3. PICK tokens : \E erc20 \in Asked(tokens) : Indexed(erc20, b, active, sg.temp)
  BY <1>2
<1>4. PICK erc20 \in Asked(tokens) : Indexed(erc20, b, active, sg.temp)
  BY <1>3
<1>5. Explains(e, p, s)
  BY <1>1, EventExplained
<1>6. /\ b \in Balances /\ Whole \in Balances
      /\ Same(Whole, p.balance) /\ sg.active = p.live /\ sg.temp = {}
  BY <1>1, BeforeEvent
<1>7. Event.e.kind # "ClearV3" /\ Event.e.kind # "DepositV2"
  BY <1>1
<1> HIDE DEF e, p, s
<1>8. Same(s.balance, p.balance) /\ s.live = active
  BY <1>1, <1>5, <1>6 DEF Explains
<1>9. Same(Whole, s.balance)
  BY <1>6, <1>8 DEF Same
<1> HIDE DEF active
<1>10. Known' /\ Whole' = Whole
  BY <1>1, <1>4, <1>6, <1>7, NothingLeftOut DEF Whole
<1> HIDE DEF b
<1> QED
  BY <1>1, <1>4, <1>6, <1>7, <1>8, <1>9, <1>10, EventFollowed DEF s

LEMMA TakeFollowed == ASSUME IndexInv, handleTakeOrder PROVE IndexInv'
<1> DEFINE e == Event.e
           p == Before(after, sg.next)
           s == after[sg.next]
           b == Taken(sg.balance, e)
           w == Taken(Whole, e)
<1>1. sg.next <= Len(log) /\ e.kind = "TakeOrderV4"
  BY DEF handleTakeOrder, Handles
<1>2. PICK erc20 \in Asked(TokensOf(e.order)) : Indexed(erc20, b, sg.active, sg.temp)
  BY DEF handleTakeOrder, Taken
<1>3. Explains(e, p, s)
  BY <1>1, EventExplained
<1>4. /\ sg.balance \in Balances /\ Whole \in Balances /\ p.balance \in Balances
      /\ Same(Whole, p.balance) /\ sg.active = p.live /\ sg.temp = {}
  BY <1>1, BeforeEvent
<1>5. Event.e.kind # "ClearV3" /\ Event.e.kind # "DepositV2"
  BY <1>1
<1> HIDE DEF e, p, s
<1>6. /\ e.order \in Orders /\ e.input \in Int /\ e.output \in Int
      /\ Same(s.balance, Taken(p.balance, e)) /\ s.live = p.live
  BY <1>1, <1>3 DEF Explains
<1>7. b \in Balances
  BY <1>4, <1>6, TakenAt
<1>8. Same(w, Taken(p.balance, e))
  BY <1>4, <1>6, TakenSame
<1>9. [x \in Keys |-> b[x] + LeftOut(x)] = w
  BY <1>4, <1>6, TakenWhole
<1> HIDE DEF b, w
<1>10. Known' /\ Whole' = w
  BY <1>1, <1>2, <1>5, <1>7, <1>9, NothingLeftOut
<1>11. Same(w, s.balance)
  BY <1>6, <1>8 DEF Same
<1> QED
  BY <1>1, <1>2, <1>4, <1>5, <1>6, <1>7, <1>10, <1>11, EventFollowed DEF s

\* ClearV3 leaves its data to the AfterClearV2 that follows it.
LEMMA ClearFollowed == ASSUME IndexInv, handleClear PROVE IndexInv'
<1> DEFINE i == sg.next
           p == Before(after, i)
<1>1. i <= Len(log) /\ Event.e.kind = "ClearV3"
  BY DEF handleClear, Handles
<1>2. /\ i \in DOMAIN log /\ sg.balance \in Balances
      /\ Same(Whole, p.balance) /\ sg.active = p.live /\ sg.temp = {}
  BY <1>1, BeforeEvent
<1>9. Known' /\ Whole' = Whole
  <2>1. Indexed(sg.erc20, sg.balance, sg.active, {c \in sg.temp : c.tx # Event.tx} \cup {Event})
    BY DEF handleClear
  <2>2. Event.e.kind # "DepositV2"
    BY <1>1
  <2>3. Known' /\ Whole' = [k \in Keys |-> sg.balance[k] + LeftOut(k)]
    BY <1>1, <1>2, <2>1, <2>2, AskedNothing, NothingLeftOut
  <2> QED
    BY <2>3 DEF Whole
<1>3. /\ sg'.next = i + 1 /\ sg'.balance = sg.balance /\ sg'.active = sg.active /\ sg'.temp = {Event}
      /\ UNCHANGED <<log, vaults, dust, live, after>>
  BY <1>2 DEF handleClear, Indexed, contract
<1>4. Replays /\ Len(log) \in Nat /\ DOMAIN log = 1 .. Len(log)
  BY LogFields DEF IndexInv
<1>5. i > 1 /\ log[i].e.kind = "ClearV3"
  BY <1>1, <1>2, <1>4, ClearAt DEF Event
<1>6. i \in 1 .. Len(log) /\ i + 1 > 1 /\ (i + 1) - 1 = i /\ (i + 1) - 2 = i - 1 /\ i + 1 \in 1 .. Len(log) + 1
  BY <1>2, <1>4
<1>7. p = after[i - 1] /\ Event = log[i]
  BY <1>5 DEF Before, Event
<1> HIDE DEF i, p
<1>8. Follows'
  <2>1. sg'.next \in 1 .. Len(log') + 1 /\ sg'.balance \in Balances
    BY <1>2, <1>3, <1>6
  <2>2. sg'.next > 1 /\ log'[sg'.next - 1].e.kind = "ClearV3"
    BY <1>3, <1>5, <1>6
  <2>3. /\ Same(Whole', after'[sg'.next - 2].balance)
        /\ sg'.active = after'[sg'.next - 2].live /\ sg'.temp = {log'[sg'.next - 1]}
    BY <1>2, <1>3, <1>6, <1>7, <1>9
  <2> QED
    BY <1>9, <2>1, <2>2, <2>3 DEF Follows
<1> QED
  BY <1>3, <1>8, SubgraphOnly

LEMMA AfterClearFollowed == ASSUME IndexInv, handleAfterClear PROVE IndexInv'
<1> DEFINE i == sg.next
           e == Event.e
           p == after[i - 2]
           s == after[i]
<1>1. i <= Len(log) /\ e.kind = "AfterClearV2"
  BY DEF handleAfterClear, Handles
<1>2. Replays /\ Follows /\ Len(log) \in Nat /\ DOMAIN log = 1 .. Len(log)
  BY LogFields DEF IndexInv
<1>3. i \in DOMAIN log /\ sg.balance \in Balances
  BY <1>1, <1>2 DEF Follows
<1>4. i > 2 /\ Clears(log[i - 1], log[i], p, s)
  BY <1>1, <1>2, <1>3, ClearAt DEF Event
<1> DEFINE c == log[i - 1]
<1>5. c.e.kind = "ClearV3" /\ i > 1
  BY <1>3, <1>4, <1>2 DEF Clears
<1>6. Same(Whole, p.balance) /\ sg.active = p.live /\ sg.temp = {c}
  BY <1>2, <1>5 DEF Follows
<1>13. Whole \in Balances
  BY <1>2, WholeType DEF Follows
<1> DEFINE b == Settled(sg.balance, c.e, e)
           w == Settled(Whole, c.e, e)
<1>7. PICK erc20 \in Asked(TokensOf(c.e.alice)) : Indexed(erc20, b, sg.active, {})
  <2>1. AfterClear(c) = b
    BY DEF AfterClear, Settled
  <2>2. \E erc20 \in Asked(TokensOf(c.e.alice)) : Indexed(erc20, AfterClear(c), sg.active, sg.temp \ {c})
    BY <1>6 DEF handleAfterClear
  <2>3. sg.temp \ {c} = {}
    BY <1>6
  <2> QED
    BY <2>1, <2>2, <2>3
<1>8. p.balance \in Balances
  <2>1. i - 2 \in DOMAIN log
    BY <1>2, <1>3, <1>4
  <2> QED
    BY <1>2, <2>1, ClearAt DEF IsState
<1>9. /\ c.e.alice \in Orders /\ c.e.bob \in Orders /\ c.e.bounties \in VaultIds \X VaultIds
      /\ e.sender \in Senders /\ e.change \in ClearStates
      /\ Same(s.balance, Settled(p.balance, c.e, e)) /\ s.live = p.live
  BY <1>4 DEF Clears, Event
<1>10. Event.e.kind # "ClearV3" /\ Event.e.kind # "DepositV2"
  BY <1>1
<1> HIDE DEF e, p, s, c
<1>11. b \in Balances /\ Same(w, Settled(p.balance, c.e, e))
  BY <1>3, <1>6, <1>8, <1>9, <1>13, SettledAt, SettledSame
<1>14. [x \in Keys |-> b[x] + LeftOut(x)] = w
  BY <1>3, <1>9, <1>13, SettledWhole
<1> HIDE DEF b, w
<1>15. Known' /\ Whole' = w
  BY <1>1, <1>7, <1>10, <1>11, <1>14, NothingLeftOut
<1> HIDE DEF i
<1>12. Same(w, s.balance)
  BY <1>9, <1>11 DEF Same
<1> QED
  BY <1>1, <1>6, <1>7, <1>9, <1>10, <1>11, <1>12, <1>15, EventFollowed DEF s, i

-----------------------------------------------------------------------------
(* The first block                                                         *)

LEMMA Counted ==
    ASSUME NEW S, IsFiniteSet(S)
    PROVE  LET n == Cardinality(S)
               b == CHOOSE g \in Bijection(1 .. n, S) : TRUE
           IN  /\ n \in Nat /\ b \in [1 .. n -> S]
               /\ \A x \in S : \E j \in 1 .. n : b[j] = x
               /\ \A i, j \in 1 .. n : b[i] = b[j] => i = j
<1> DEFINE n == Cardinality(S)
           b == CHOOSE g \in Bijection(1 .. n, S) : TRUE
<1>1. n \in Nat /\ Bijection(1 .. n, S) # {}
  BY FS_CardinalityType DEF ExistsBijection
<1>2. b \in Bijection(1 .. n, S)
  BY <1>1
<1> HIDE DEF b, n
<1>3. b \in Injection(1 .. n, S) /\ b \in Surjection(1 .. n, S)
  BY <1>2 DEF Bijection
<1>4. b \in [1 .. n -> S] /\ IsInjective(b) /\ DOMAIN b = 1 .. n
  BY <1>3 DEF Injection
<1>5. \A x \in S : \E j \in 1 .. n : b[j] = x
  BY <1>3 DEF Surjection
<1>6. \A i, j \in 1 .. n : b[i] = b[j] => i = j
  BY <1>4 DEF IsInjective
<1> QED
  BY <1>1, <1>4, <1>5, <1>6 DEF b, n

LEMMA FundedFinite ==
    ASSUME NEW S \in SUBSET {OutKey(o) : o \in Orders}
    PROVE  IsFiniteSet(S)
<1> DEFINE T == {OutKey(o) : o \in Orders}
           g == [o \in Orders |-> OutKey(o)]
<1>1. g \in Surjection(Orders, T)
  BY DEF Surjection
<1>2. IsFiniteSet(T)
  BY <1>1, IndexersAssumption, FS_Surjection
<1> QED
  BY <1>2, FS_Subset

LEMMA InitIndexed == Init => IndexInv
<1> SUFFICES ASSUME Init PROVE IndexInv
  OBVIOUS
<1> DEFINE zero == [k \in Keys |-> 0]
           funded == [k \in Keys |-> IF k[3] # 0 /\ \E o \in Orders : k = OutKey(o) THEN 2 * Unit ELSE 0]
           fund == {k \in Keys : funded[k] # 0}
           n == Cardinality(Orders)
           f == Cardinality(fund)
           adds == CHOOSE b \in Bijection(1 .. n, Orders) : TRUE
           keys == CHOOSE b \in Bijection(1 .. f, fund) : TRUE
           A(i) == [k \in Keys |-> IF \E j \in 1 .. i - n : keys[j] = k THEN 2 * Unit ELSE 0]
           L(i) == {adds[j] : j \in 1 .. IF i < n THEN i ELSE n}
           S(i) == State(A(i), zero, L(i))
           entry(i) == [block |-> 1, tx |-> i,
                        e |-> IF i <= n THEN [kind |-> "AddOrderV3", order |-> adds[i]]
                              ELSE [kind |-> "DepositV2", key |-> keys[i - n], amount |-> 2 * Unit]]
           u == 2 * Unit
<1>1. /\ vaults = funded /\ dust = zero /\ live = Orders
      /\ log = [i \in 1 .. n + f |-> entry(i)]
      /\ after = [i \in DOMAIN log |-> S(i)]
      /\ sg = [next |-> 1, erc20 |-> [t \in Tokens |-> "none"], balance |-> zero, active |-> {}, temp |-> {}]
  BY DEF Init
<1>2. u \in Int /\ u # 0
  BY IndexersAssumption
<1>3. fund \subseteq {OutKey(o) : o \in Orders}
  OBVIOUS
<1>4. /\ n \in Nat /\ adds \in [1 .. n -> Orders]
      /\ \A x \in Orders : \E j \in 1 .. n : adds[j] = x
  BY IndexersAssumption, Counted
<1>5. /\ f \in Nat /\ keys \in [1 .. f -> fund]
      /\ \A x \in fund : \E j \in 1 .. f : keys[j] = x
      /\ \A i, j \in 1 .. f : keys[i] = keys[j] => i = j
  <2> HIDE DEF fund
  <2> QED
    BY <1>3, FundedFinite, Counted
<1>6. \A k \in Keys : funded[k] = IF k \in fund THEN u ELSE 0
  BY <1>2
<1>7. \A i \in 1 .. n + f :
         /\ i <= n => entry(i).e.kind = "AddOrderV3" /\ entry(i).e.order = adds[i]
         /\ ~(i <= n) => entry(i).e.kind = "DepositV2" /\ entry(i).e.key = keys[i - n] /\ entry(i).e.amount = u
  OBVIOUS
<1>8. zero \in Balances /\ \A k \in Keys : zero[k] = 0
  BY DEF Balances
<1>9. funded \in Balances
  BY <1>2 DEF Balances
<1>10. \A i : /\ A(i) \in Balances
              /\ \A k \in Keys : A(i)[k] = IF \E j \in 1 .. i - n : keys[j] = k THEN u ELSE 0
  BY <1>2 DEF Balances
<1>11. fund \subseteq Keys
  OBVIOUS
<1>12. funded = A(n + f)
  <2>1. (n + f) - n = f
    BY <1>4, <1>5
  <2>2. \A k \in Keys : k \in fund <=> \E j \in 1 .. f : keys[j] = k
    <3> HIDE DEF fund, keys, f
    <3> QED
      BY <1>5
  <2>3. \A k \in Keys : funded[k] = A(n + f)[k]
    <3> HIDE DEF fund, funded, keys, n, f
    <3> QED
      BY <1>6, <1>10, <2>1, <2>2
  <2> QED
    BY <2>3
<1> HIDE DEF funded, fund, n, f, adds, keys, u, zero, A
<1>13. \A i : /\ S(i).balance \in Balances /\ S(i).live = L(i)
              /\ \A k \in Keys : S(i).balance[k] = A(i)[k]
  <2> TAKE i
  <2>1. A(i) \in Balances
    BY <1>10
  <2>2. \A k \in Keys : A(i)[k] \in Int
    BY <2>1 DEF Balances
  <2> DEFINE a == A(i)
             l == L(i)
  <2> HIDE DEF a, l
  <2>3. /\ State(a, zero, l).balance \in Balances /\ State(a, zero, l).live = l
        /\ \A k \in Keys : State(a, zero, l).balance[k] = a[k] + zero[k]
    BY <1>8, <2>1, StateAt DEF a
  <2> QED
    BY <1>8, <2>2, <2>3 DEF a, l
<1>14. S(n + f) = State(funded, zero, Orders)
  <2>1. ~(n + f < n)
    BY <1>4, <1>5
  <2>2. L(n + f) = Orders
    BY <1>4, <2>1
  <2> QED
    BY <1>12, <2>2
<1>15. S(0) = Zero
  <2>1. 1 .. 0 - n = {}
    BY <1>4
  <2>2. A(0) = zero
    BY <2>1 DEF A, zero
  <2>3. L(0) = {}
    BY <1>4
  <2> QED
    BY <2>2, <2>3 DEF Zero, zero
<1> HIDE DEF S, entry
<1>16. /\ DOMAIN log = 1 .. n + f /\ DOMAIN after = 1 .. n + f
       /\ \A i \in 1 .. n + f : log[i] = entry(i) /\ after[i] = S(i)
       /\ n + f \in Nat
  BY <1>1, <1>4, <1>5
<1>17. Sequence(log) /\ Len(log) = n + f
  <2> DEFINE R == {entry(i) : i \in 1 .. n + f}
  <2>1. log \in [1 .. n + f -> R]
    BY <1>1
  <2> HIDE DEF R
  <2>2. log \in Seq(R) /\ Len(log) = n + f
    BY <1>16, <2>1
  <2> QED
    BY <2>2 DEF Sequence
<1>18. Sequence(after) /\ Len(after) = n + f
  <2> DEFINE R == {S(i) : i \in 1 .. n + f}
  <2>1. after \in [1 .. n + f -> R]
    BY <1>1, <1>16
  <2> HIDE DEF R
  <2>2. after \in Seq(R) /\ Len(after) = n + f
    BY <1>16, <2>1
  <2> QED
    BY <2>2 DEF Sequence
<1>19. \A i \in 1 .. n + f + 1 : Before(after, i) = S(i - 1)
  <2> TAKE i \in 1 .. n + f + 1
  <2>1. CASE i = 1
    BY <1>15, <2>1 DEF Before
  <2>2. CASE i # 1
    <3>1. i - 1 \in 1 .. n + f
      BY <1>16, <2>2
    <3> QED
      BY <1>16, <2>2, <3>1 DEF Before
  <2> QED
    BY <2>1, <2>2
<1>20. ASSUME NEW i \in 1 .. n + f, i <= n
       PROVE  Explains(log[i].e, Before(after, i), after[i])
  <2>1. 1 .. i - n = {} /\ 1 .. (i - 1) - n = {}
    BY <1>4, <1>20
  <2>2. A(i) = A(i - 1)
    BY <2>1 DEF A
  <2>3. L(i) = L(i - 1) \cup {adds[i]}
    <3>1. (IF i < n THEN i ELSE n) = i /\ (IF i - 1 < n THEN i - 1 ELSE n) = i - 1
      BY <1>4, <1>20
    <3>2. 1 .. i = (1 .. i - 1) \cup {i}
      BY <1>4, <1>20
    <3> QED
      BY <3>1, <3>2
  <2>4. log[i].e.kind = "AddOrderV3" /\ log[i].e.order = adds[i] /\ adds[i] \in Orders
    BY <1>4, <1>7, <1>16, <1>20
  <2>5. after[i] = S(i) /\ Before(after, i) = S(i - 1)
    BY <1>16, <1>19
  <2>6. Same(S(i).balance, S(i - 1).balance)
    BY <1>13, <2>2 DEF Same
  <2>7. S(i).live = S(i - 1).live \cup {adds[i]}
    BY <1>13, <2>3
  <2> QED
    BY <2>4, <2>5, <2>6, <2>7 DEF Explains
<1>21. ASSUME NEW i \in 1 .. n + f, ~(i <= n)
       PROVE  Explains(log[i].e, Before(after, i), after[i])
  <2> DEFINE q == i - n
             k == keys[q]
  <2>1. q \in 1 .. f /\ (i - 1) - n = q - 1 /\ 1 .. q = (1 .. q - 1) \cup {q}
    BY <1>4, <1>5, <1>21
  <2>2. k \in Keys
    BY <1>5, <1>11, <2>1
  <2>3. L(i) = L(i - 1)
    <3>1. (IF i < n THEN i ELSE n) = n /\ (IF i - 1 < n THEN i - 1 ELSE n) = n
      BY <1>4, <1>21
    <3> QED
      BY <3>1
  <2>4. log[i].e.kind = "DepositV2" /\ log[i].e.key = k /\ log[i].e.amount = u
    BY <1>7, <1>16, <1>21
  <2>5. after[i] = S(i) /\ Before(after, i) = S(i - 1)
    BY <1>16, <1>19
  <2>6. \A x \in Keys : A(i)[x] = IF \E j \in 1 .. q : keys[j] = x THEN u ELSE 0
    BY <1>10
  <2>7. \A x \in Keys : A(i - 1)[x] = IF \E j \in 1 .. q - 1 : keys[j] = x THEN u ELSE 0
    BY <1>10, <2>1
  <2> HIDE DEF q
  <2>8. ~\E j \in 1 .. q - 1 : keys[j] = k
    BY <1>5, <2>1
  <2> HIDE DEF k
  <2>9. \A x \in Keys : (\E j \in 1 .. q : keys[j] = x) <=> (x = k \/ \E j \in 1 .. q - 1 : keys[j] = x)
    BY <2>1 DEF k
  <2>10. \A x \in Keys : A(i)[x] = A(i - 1)[x] + Part(x, k, u)
    BY <1>2, <2>6, <2>7, <2>8, <2>9 DEF Part
  <2>11. \A x \in Keys : Balanced(S(i - 1).balance, k, u)[x] = S(i - 1).balance[x] + Part(x, k, u)
    BY <1>2, <1>13, <2>2, BalancedAt
  <2>12. Same(S(i).balance, Balanced(S(i - 1).balance, k, u))
    BY <1>13, <2>10, <2>11 DEF Same
  <2>13. S(i).live = S(i - 1).live
    BY <1>13, <2>3
  <2> QED
    BY <1>2, <2>2, <2>4, <2>5, <2>12, <2>13 DEF Explains
<1>22. Replays
  <2> SUFFICES ASSUME NEW i \in 1 .. n + f PROVE IsState(after[i]) /\ Explained(log, after, i)
    BY <1>16, <1>17, <1>18 DEF Replays
  <2>1. IsState(after[i])
    BY <1>13, <1>16 DEF IsState
  <2>2. Explains(log[i].e, Before(after, i), after[i])
    BY <1>20, <1>21
  <2> QED
    BY <2>1, <2>2 DEF Explained
<1>23. Current
  <2>1. Before(after, Len(log) + 1) = State(funded, zero, Orders)
    <3>1. n + f + 1 \in 1 .. n + f + 1 /\ (n + f + 1) - 1 = n + f
      BY <1>16
    <3> QED
      BY <1>14, <1>17, <1>19, <3>1
  <2>2. Orders # {} => n + f > 0
    BY <1>4, <1>5
  <2> QED
    BY <1>1, <1>8, <1>9, <1>17, <2>1, <2>2 DEF Current
<1>24. Follows
  <2>1. /\ sg.next = 1 /\ sg.balance = zero /\ sg.active = {} /\ sg.temp = {}
        /\ sg.erc20 = [t \in Tokens |-> "none"]
    BY <1>1
  <2>6. Known
    <3>1. 1 .. sg.next - 1 = {}
      BY <2>1
    <3>2. sg.erc20 \in [Tokens -> {"none", "null", "read"}]
      BY <2>1
    <3> QED
      BY <3>1, <3>2 DEF Known
  <2>7. Whole = zero
    <3>1. ASSUME NEW k \in Keys PROVE LeftOut(k) = 0
      <4>1. k[2] \in Tokens
        BY DEF Keys
      <4>2. sg.erc20[k[2]] # "null"
        BY <2>1, <4>1
      <4> QED
        BY <4>2, LeftOutIs
    <3>2. \A k \in Keys : sg.balance[k] + LeftOut(k) = zero[k]
      BY <1>8, <2>1, <3>1
    <3>3. zero = [k \in Keys |-> zero[k]]
      BY <1>8 DEF Balances
    <3> HIDE DEF zero
    <3> QED
      BY <3>2, <3>3 DEF Whole
  <2>2. 1 \in 1 .. Len(log) + 1
    BY <1>16, <1>17
  <2>3. Before(after, 1) = S(0)
    BY <1>15 DEF Before
  <2>4. 1 .. 0 - n = {}
    BY <1>4
  <2>5. Same(zero, S(0).balance) /\ S(0).live = {}
    <3>1. \A k \in Keys : A(0)[k] = 0
      BY <1>10, <2>4
    <3>2. L(0) = {}
      BY <1>4
    <3> QED
      BY <1>8, <1>13, <3>1, <3>2 DEF Same
  <2> QED
    BY <1>8, <2>1, <2>2, <2>3, <2>5, <2>6, <2>7 DEF Follows
<1> QED
  BY <1>22, <1>23, <1>24 DEF IndexInv

-----------------------------------------------------------------------------
LEMMA IndexNext == IndexInv /\ [Next]_vars => IndexInv'
<1> SUFFICES ASSUME IndexInv, [Next]_vars PROVE IndexInv'
  OBVIOUS
<1>1. ASSUME UNCHANGED <<log, vaults, dust, live, after, sg>>
      PROVE  IndexInv'
  <2>1. Whole' = Whole /\ Known' = Known
    BY <1>1 DEF Whole, LeftOut, Rows, Known
  <2>3. Follows' = Follows
    BY <1>1, <2>1 DEF Follows, Before, Same, Balances
  <2> QED
    BY <1>1, <2>3, SubgraphOnly DEF IndexInv
<1>2. CASE Contract
  <2>1. ASSUME NEW k \in Keys, NEW amount \in Deposits, deposit5(k, amount) \/ withdraw5(k, amount)
        PROVE  IndexInv'
    BY <2>1, DepositIndexed, WithdrawIndexed
  <2>2. ASSUME NEW o \in Orders, addOrder5(o) \/ removeOrder4(o)
        PROVE  IndexInv'
    BY <2>2, OrderIndexed
  <2>3. ASSUME NEW o \in Orders, NEW t \in Takes, takeOrder(o, t[1], t[2])
        PROVE  IndexInv'
    BY <2>3, TakeIndexed
  <2>4. ASSUME NEW a \in Orders, NEW b \in Orders, NEW s \in Senders, NEW v \in Bounties,
               NEW c \in ClearStates, clear4(a, b, s, v, c)
        PROVE  IndexInv'
    BY <2>4, ClearIndexed
  <2>5. CASE NewTransaction
    BY <1>1, <2>5 DEF NewTransaction
  <2>6. CASE Mine
    BY <1>1, <2>6 DEF Mine
  <2> QED
    BY <1>2, <2>1, <2>2, <2>3, <2>4, <2>5, <2>6 DEF Contract
<1>3. CASE Subgraph
  BY <1>3, DepositFollowed, WithdrawFollowed, OrderFollowed, TakeFollowed, ClearFollowed,
     AfterClearFollowed DEF Subgraph
<1>4. CASE \E target \in 1 .. MaxBlock : SyncWindow(target)
  <2>1. UNCHANGED <<contract, sg>>
    BY <1>4 DEF SyncWindow
  <2> QED
    BY <1>1, <2>1 DEF contract
<1>5. CASE UNCHANGED vars
  BY <1>1, <1>5 DEF vars
<1> QED
  BY <1>2, <1>3, <1>4, <1>5 DEF Next

LEMMA IndexImplies == IndexInv => SubgraphAgrees
<1> SUFFICES ASSUME IndexInv, sg.next > 1 PROVE SubgraphAgrees
  BY DEF SubgraphAgrees
<1> DEFINE i == sg.next
<1>1. Replays /\ Follows /\ i # 1
  BY DEF IndexInv
<1>2. \A k \in Keys : Whole[k] = sg.balance[k] + LeftOut(k)
  BY <1>1, WholeType DEF Follows
<1>3. CASE log[i - 1].e.kind = "ClearV3"
  BY <1>1, <1>2, <1>3 DEF Follows, Same, SubgraphAgrees
<1>4. CASE log[i - 1].e.kind # "ClearV3"
  <2>1. Before(after, i) = after[i - 1]
    BY <1>1 DEF Before
  <2> QED
    BY <1>1, <1>2, <1>4, <2>1 DEF Follows, Same, SubgraphAgrees
<1> QED
  BY <1>3, <1>4

\* The subgraph's handlers (subgraph/src) keep the vault balances and the active orders of
\* the contract after every event, for all orders, vaults, amounts and any interleaving of
\* contract and index: also when one transaction holds several clears, whose ClearV3 data
\* (ClearTemporaryData, by transaction hash) are there for the AfterClearV2 they belong to
\* and gone after it.  Of a token whose decimals() failed when the subgraph first met it,
\* exactly the deposits are missing (the early return of handleDeposit).
THEOREM SubgraphAlwaysAgrees == Spec => []SubgraphAgrees
<1>1. Spec => []IndexInv
  BY InitIndexed, IndexNext, PTL DEF Spec
<1> QED
  BY <1>1, IndexImplies, PTL

-----------------------------------------------------------------------------
(* The local DB.  Its deltas are those of each row of the log by itself,   *)
(* whatever the windows; summed up to the end of an operation they are the *)
(* balances of the contract there.                                         *)

Kind(l, i) == l[i].e.kind

\* The deltas of the row i of a log; those of a clear are at its ClearV3.
TakeRow(i, e) ==
    {Delta(i, "TAKE_INPUT", InKey(e.order), e.output),
     Delta(i, "TAKE_OUTPUT", OutKey(e.order), -e.input)}

ClearRow(i, c, s) ==
    {Delta(i, "CLEAR_ALICE_INPUT", InKey(c.alice), s.aliceInput),
     Delta(i, "CLEAR_ALICE_OUTPUT", OutKey(c.alice), -s.aliceOutput),
     Delta(i, "CLEAR_BOB_INPUT", InKey(c.bob), s.bobInput),
     Delta(i, "CLEAR_BOB_OUTPUT", OutKey(c.bob), -s.bobOutput)}

BountyRow(i, c, s) ==
    {d \in {Delta(i, "CLEAR_ALICE_BOUNTY", BountyKey(c.sender, c.alice, c.bounties[1]),
                  s.aliceOutput - s.bobInput),
            Delta(i, "CLEAR_BOB_BOUNTY", BountyKey(c.sender, c.bob, c.bounties[2]),
                  s.bobOutput - s.aliceInput)} : d.delta # 0}

RowDeltas(l, i) ==
    UNION {IF Kind(l, i) = "DepositV2" THEN {Delta(i, "DEPOSIT", l[i].e.key, l[i].e.amount)} ELSE {},
           IF Kind(l, i) = "WithdrawV2" THEN {Delta(i, "WITHDRAW", l[i].e.key, -l[i].e.amount)} ELSE {},
           IF Kind(l, i) = "TakeOrderV4" THEN TakeRow(i, l[i].e) ELSE {},
           IF Kind(l, i) = "ClearV3" THEN ClearRow(i, l[i].e, l[i + 1].e.change) ELSE {},
           IF Kind(l, i) = "ClearV3" THEN BountyRow(i, l[i].e, l[i + 1].e.change) ELSE {}}

DeltasOf(l, rows) == UNION {RowDeltas(l, i) : i \in rows}

SumAt(S, k) == SumOf({d \in S : d.key = k})

Adds(l, j, o) == Kind(l, j) = "AddOrderV3" /\ l[j].e.order = o

\* Blocks grow along the log from the first on, and what is traded has been added.
Ordered ==
    /\ block \in Nat
    /\ Len(log) > 0 /\ log[1].block = 1
    /\ \A i \in DOMAIN log : log[i].block \in 1 .. block
    /\ \A i, j \in DOMAIN log : i <= j => log[i].block <= log[j].block
    /\ \A i \in DOMAIN log : Kind(log, i) = "TakeOrderV4" => \E j \in 1 .. i : Adds(log, j, log[i].e.order)
    /\ \A o \in live : \E j \in DOMAIN log : Adds(log, j, o)

\* The tables up to the watermark, which is in the past.
Tables ==
    /\ db.mark \in Nat /\ db.mark < block
    /\ db.deltas = DeltasOf(log, RowsUpTo(db.mark))
    /\ \A k \in Keys : db.balance[k] = SumAt(db.deltas, k)

LEMMA AddDelta ==
    ASSUME NEW S, Changes(S), NEW x, x \notin S, x.delta \in Int
    PROVE  /\ Changes(S \cup {x})
           /\ \A k : SumAt(S, k) \in Int /\ SumAt(S \cup {x}, k) = SumAt(S, k) + Part(k, x.key, x.delta)
<1> DEFINE T == S \cup {x}
<1>1. Changes(T)
  BY FS_AddElement DEF Changes
<1> SUFFICES ASSUME NEW k
             PROVE  SumAt(S, k) \in Int /\ SumAt(T, k) = SumAt(S, k) + Part(k, x.key, x.delta)
  BY <1>1
<1> DEFINE R == {d \in T : d.key = k}
           Q == {d \in S : d.key = k}
<1>2. R \in SUBSET T /\ Q \in SUBSET T /\ x \in T
  OBVIOUS
<1>3. SumAt(S, k) = SumOf(Q) /\ SumAt(T, k) = SumOf(R)
  BY DEF SumAt
<1>4. x.key = k => x \in R /\ R \ {x} = Q
  OBVIOUS
<1>5. x.key # k => R = Q
  OBVIOUS
<1> HIDE DEF R, Q, T
<1>6. SumOf(Q) \in Int /\ (x \in R => SumOf(R) = SumOf(R \ {x}) + x.delta)
  BY <1>1, <1>2, SumStep
<1>7. CASE x.key = k
  <2>1. SumOf(R) = SumOf(Q) + x.delta
    BY <1>4, <1>6, <1>7
  <2> QED
    BY <1>3, <1>6, <1>7, <2>1 DEF Part
<1>8. CASE x.key # k
  <2>1. Part(k, x.key, x.delta) = 0
    BY <1>8 DEF Part
  <2> QED
    BY <1>3, <1>5, <1>6, <1>8, <2>1
<1> QED
  BY <1>7, <1>8

\* A bounty of zero is left out, which makes no difference to the sum.
LEMMA AddIfPaid ==
    ASSUME NEW S, Changes(S), NEW x, x \notin S, x.delta \in Int
    PROVE  LET T == S \cup {d \in {x} : d.delta # 0}
           IN  /\ Changes(T)
               /\ \A k : SumAt(S, k) \in Int /\ SumAt(T, k) = SumAt(S, k) + Part(k, x.key, x.delta)
<1> DEFINE T == S \cup {d \in {x} : d.delta # 0}
<1>1. CASE x.delta # 0
  <2>1. T = S \cup {x}
    BY <1>1
  <2> HIDE DEF T
  <2> QED
    BY <2>1, AddDelta DEF T
<1>2. CASE x.delta = 0
  <2>1. T = S
    BY <1>2
  <2>2. \A k : SumAt(S, k) \in Int
    BY AddDelta
  <2> HIDE DEF T
  <2>3. \A k : Part(k, x.key, x.delta) = 0
    BY <1>2 DEF Part
  <2> QED
    BY <2>1, <2>2, <2>3 DEF T
<1> QED
  BY <1>1, <1>2

LEMMA DeltaFields ==
    ASSUME NEW i, NEW kind, NEW k, NEW a
    PROVE  /\ Delta(i, kind, k, a).row = i /\ Delta(i, kind, k, a).kind = kind
           /\ Delta(i, kind, k, a).key = k /\ Delta(i, kind, k, a).delta = a
  BY DEF Delta

LEMMA TakeRowSum ==
    ASSUME NEW S, Changes(S), NEW i, \A d \in S : d.row # i, NEW e,
           e.order \in Orders, e.input \in Int, e.output \in Int
    PROVE  /\ Changes(S \cup TakeRow(i, e))
           /\ \A k : SumAt(S \cup TakeRow(i, e), k) =
                 SumAt(S, k) + Part(k, OutKey(e.order), -e.input) + Part(k, InKey(e.order), e.output)
<1> DEFINE m == -e.input
           x == Delta(i, "TAKE_INPUT", InKey(e.order), e.output)
           y == Delta(i, "TAKE_OUTPUT", OutKey(e.order), m)
           S1 == S \cup {x}
           S2 == S1 \cup {y}
<1>1. m \in Int
  OBVIOUS
<1>2. S \cup TakeRow(i, e) = S2
  BY DEF TakeRow
<1> HIDE DEF m
<1>3. /\ x.row = i /\ x.kind = "TAKE_INPUT" /\ x.key = InKey(e.order) /\ x.delta = e.output
      /\ y.row = i /\ y.kind = "TAKE_OUTPUT" /\ y.key = OutKey(e.order) /\ y.delta = m
  BY DeltaFields
<1> HIDE DEF x, y
<1>4. x \notin S /\ y \notin S1
  BY <1>3
<1>5. Changes(S1) /\ \A k : SumAt(S, k) \in Int /\ SumAt(S1, k) = SumAt(S, k) + Part(k, x.key, x.delta)
  BY <1>3, <1>4, AddDelta
<1> HIDE DEF S1
<1>6. Changes(S2) /\ \A k : SumAt(S1, k) \in Int /\ SumAt(S2, k) = SumAt(S1, k) + Part(k, y.key, y.delta)
  BY <1>1, <1>3, <1>4, <1>5, AddDelta
<1> HIDE DEF S2
<1>7. ASSUME NEW k
      PROVE  SumAt(S2, k) = SumAt(S, k) + Part(k, OutKey(e.order), m) + Part(k, InKey(e.order), e.output)
  <2>1. Part(k, OutKey(e.order), m) \in Int /\ Part(k, InKey(e.order), e.output) \in Int
    BY <1>1, PartInt
  <2> QED
    BY <1>3, <1>5, <1>6, <2>1
<1> QED
  BY <1>2, <1>6, <1>7 DEF m

\* T is S and the rows of one more clear.
AddsClear(T, S, i, c, e) ==
    /\ Changes(S) /\ \A d \in S : d.row # i
    /\ c.alice \in Orders /\ c.bob \in Orders /\ e.change \in ClearStates /\ c.sender = e.sender
    /\ T = S \cup (ClearRow(i, c, e.change) \cup BountyRow(i, c, e.change))

LEMMA ClearRowSum ==
    ASSUME NEW T, NEW S, NEW i, NEW c, NEW e, AddsClear(T, S, i, c, e)
    PROVE  Changes(T) /\ \A k : SumAt(T, k) = SumAt(S, k) + ClearPart(k, c, e)
<1> USE DEF AddsClear
<1> DEFINE s == e.change
           ai == s.aliceInput
           bi == s.bobInput
           ma == -s.aliceOutput
           mb == -s.bobOutput
           p1 == s.aliceOutput - s.bobInput
           p2 == s.bobOutput - s.aliceInput
           k1 == BountyKey(e.sender, c.alice, c.bounties[1])
           k2 == BountyKey(e.sender, c.bob, c.bounties[2])
           x1 == Delta(i, "CLEAR_ALICE_INPUT", InKey(c.alice), ai)
           x2 == Delta(i, "CLEAR_ALICE_OUTPUT", OutKey(c.alice), ma)
           x3 == Delta(i, "CLEAR_BOB_INPUT", InKey(c.bob), bi)
           x4 == Delta(i, "CLEAR_BOB_OUTPUT", OutKey(c.bob), mb)
           x5 == Delta(i, "CLEAR_ALICE_BOUNTY", k1, p1)
           x6 == Delta(i, "CLEAR_BOB_BOUNTY", k2, p2)
           S1 == S \cup {x1}
           S2 == S1 \cup {x2}
           S3 == S2 \cup {x3}
           S4 == S3 \cup {x4}
           S5 == S4 \cup {d \in {x5} : d.delta # 0}
           S6 == S5 \cup {d \in {x6} : d.delta # 0}
<1>1. ai \in Int /\ bi \in Int /\ ma \in Int /\ mb \in Int /\ p1 \in Int /\ p2 \in Int
  BY ClearAmounts
<1>2. T = S6
  <2>1. ClearRow(i, c, s) = {x1, x2, x3, x4}
    BY DEF ClearRow
  <2>2. BountyRow(i, c, s) = {d \in {x5, x6} : d.delta # 0}
    BY DEF BountyRow
  <2> HIDE DEF x1, x2, x3, x4, x5, x6, s
  <2> QED
    BY <2>1, <2>2 DEF s
<1>3. \A x : ClearPart(x, c, e) = Part(x, InKey(c.alice), ai) + Part(x, OutKey(c.alice), ma)
                + Part(x, InKey(c.bob), bi) + Part(x, OutKey(c.bob), mb)
                + Part(x, k1, p1) + Part(x, k2, p2)
  BY DEF ClearPart
<1> HIDE DEF s, ai, bi, ma, mb, p1, p2, k1, k2
<1>4. /\ x1.row = i /\ x1.kind = "CLEAR_ALICE_INPUT" /\ x1.key = InKey(c.alice) /\ x1.delta = ai
      /\ x2.row = i /\ x2.kind = "CLEAR_ALICE_OUTPUT" /\ x2.key = OutKey(c.alice) /\ x2.delta = ma
      /\ x3.row = i /\ x3.kind = "CLEAR_BOB_INPUT" /\ x3.key = InKey(c.bob) /\ x3.delta = bi
      /\ x4.row = i /\ x4.kind = "CLEAR_BOB_OUTPUT" /\ x4.key = OutKey(c.bob) /\ x4.delta = mb
      /\ x5.row = i /\ x5.kind = "CLEAR_ALICE_BOUNTY" /\ x5.key = k1 /\ x5.delta = p1
      /\ x6.row = i /\ x6.kind = "CLEAR_BOB_BOUNTY" /\ x6.key = k2 /\ x6.delta = p2
  BY DeltaFields
<1> HIDE DEF x1, x2, x3, x4, x5, x6
<1>5. x1 \notin S /\ x2 \notin S1 /\ x3 \notin S2 /\ x4 \notin S3 /\ x5 \notin S4 /\ x6 \notin S5
  BY <1>4
<1>6. Changes(S1) /\ \A k : SumAt(S, k) \in Int /\ SumAt(S1, k) = SumAt(S, k) + Part(k, x1.key, x1.delta)
  BY <1>1, <1>4, <1>5, AddDelta
<1> HIDE DEF S1
<1>7. Changes(S2) /\ \A k : SumAt(S1, k) \in Int /\ SumAt(S2, k) = SumAt(S1, k) + Part(k, x2.key, x2.delta)
  BY <1>1, <1>4, <1>5, <1>6, AddDelta
<1> HIDE DEF S2
<1>8. Changes(S3) /\ \A k : SumAt(S2, k) \in Int /\ SumAt(S3, k) = SumAt(S2, k) + Part(k, x3.key, x3.delta)
  BY <1>1, <1>4, <1>5, <1>7, AddDelta
<1> HIDE DEF S3
<1>9. Changes(S4) /\ \A k : SumAt(S3, k) \in Int /\ SumAt(S4, k) = SumAt(S3, k) + Part(k, x4.key, x4.delta)
  BY <1>1, <1>4, <1>5, <1>8, AddDelta
<1> HIDE DEF S4
<1>10. Changes(S5) /\ \A k : SumAt(S4, k) \in Int /\ SumAt(S5, k) = SumAt(S4, k) + Part(k, x5.key, x5.delta)
  BY <1>1, <1>4, <1>5, <1>9, AddIfPaid
<1> HIDE DEF S5
<1>11. Changes(S6) /\ \A k : SumAt(S5, k) \in Int /\ SumAt(S6, k) = SumAt(S5, k) + Part(k, x6.key, x6.delta)
  BY <1>1, <1>4, <1>5, <1>10, AddIfPaid
<1> HIDE DEF S6
<1>12. ASSUME NEW k PROVE SumAt(S6, k) = SumAt(S, k) + ClearPart(k, c, e)
  <2> DEFINE q1 == Part(k, InKey(c.alice), ai)
             q2 == Part(k, OutKey(c.alice), ma)
             q3 == Part(k, InKey(c.bob), bi)
             q4 == Part(k, OutKey(c.bob), mb)
             q5 == Part(k, k1, p1)
             q6 == Part(k, k2, p2)
  <2>1. q1 \in Int /\ q2 \in Int /\ q3 \in Int /\ q4 \in Int /\ q5 \in Int /\ q6 \in Int
    BY <1>1, PartInt
  <2>2. SumAt(S, k) \in Int /\ SumAt(S1, k) = SumAt(S, k) + q1 /\ SumAt(S2, k) = SumAt(S1, k) + q2
    BY <1>4, <1>6, <1>7
  <2>3. SumAt(S3, k) = SumAt(S2, k) + q3 /\ SumAt(S4, k) = SumAt(S3, k) + q4
    BY <1>4, <1>8, <1>9
  <2>4. SumAt(S5, k) = SumAt(S4, k) + q5 /\ SumAt(S6, k) = SumAt(S5, k) + q6
    BY <1>4, <1>10, <1>11
  <2>5. ClearPart(k, c, e) = q1 + q2 + q3 + q4 + q5 + q6
    BY <1>3
  <2> HIDE DEF q1, q2, q3, q4, q5, q6
  <2> QED
    BY <2>1, <2>2, <2>3, <2>4, <2>5
<1> QED
  BY <1>2, <1>11, <1>12

LEMMA RowOf ==
    ASSUME NEW l, NEW i
    PROVE  /\ Kind(l, i) = "DepositV2" =>
                 RowDeltas(l, i) = {Delta(i, "DEPOSIT", l[i].e.key, l[i].e.amount)}
           /\ Kind(l, i) = "WithdrawV2" =>
                 RowDeltas(l, i) = {Delta(i, "WITHDRAW", l[i].e.key, -l[i].e.amount)}
           /\ Kind(l, i) = "TakeOrderV4" => RowDeltas(l, i) = TakeRow(i, l[i].e)
           /\ Kind(l, i) = "ClearV3" =>
                 RowDeltas(l, i) = ClearRow(i, l[i].e, l[i + 1].e.change) \cup BountyRow(i, l[i].e, l[i + 1].e.change)
           /\ Kind(l, i) \notin {"DepositV2", "WithdrawV2", "TakeOrderV4", "ClearV3"} =>
                 RowDeltas(l, i) = {}
           /\ \A d \in RowDeltas(l, i) : d.row = i
<1> DEFINE D == {Delta(i, "DEPOSIT", l[i].e.key, l[i].e.amount)}
           W == {Delta(i, "WITHDRAW", l[i].e.key, -l[i].e.amount)}
           T == TakeRow(i, l[i].e)
           C == ClearRow(i, l[i].e, l[i + 1].e.change)
           B == BountyRow(i, l[i].e, l[i + 1].e.change)
           kind == Kind(l, i)
<1>1. \A d \in D \cup W : d.row = i
  BY DeltaFields
<1>2. \A d \in T : d.row = i
  BY DeltaFields DEF TakeRow
<1>3. \A d \in C : d.row = i
  BY DeltaFields DEF ClearRow
<1>4. \A d \in B : d.row = i
  BY DeltaFields DEF BountyRow
<1>5. RowDeltas(l, i) = UNION {IF kind = "DepositV2" THEN D ELSE {}, IF kind = "WithdrawV2" THEN W ELSE {},
                               IF kind = "TakeOrderV4" THEN T ELSE {}, IF kind = "ClearV3" THEN C ELSE {},
                               IF kind = "ClearV3" THEN B ELSE {}}
  BY DEF RowDeltas
<1> HIDE DEF D, W, T, C, B, kind
<1>6. /\ kind = "DepositV2" => RowDeltas(l, i) = D
      /\ kind = "WithdrawV2" => RowDeltas(l, i) = W
      /\ kind = "TakeOrderV4" => RowDeltas(l, i) = T
      /\ kind = "ClearV3" => RowDeltas(l, i) = C \cup B
      /\ kind \notin {"DepositV2", "WithdrawV2", "TakeOrderV4", "ClearV3"} => RowDeltas(l, i) = {}
  BY <1>5
<1>7. \A d \in RowDeltas(l, i) : d.row = i
  BY <1>1, <1>2, <1>3, <1>4, <1>6
<1> QED
  BY <1>6, <1>7 DEF D, W, T, C, B, kind

LEMMA BeforeState ==
    ASSUME Replays, NEW i \in 1 .. Len(log) + 1
    PROVE  Before(after, i).balance \in Balances
<1>1. Len(log) \in Nat /\ DOMAIN log = 1 .. Len(log)
  BY LogFields
<1>2. CASE i = 1
  <2> DEFINE z == [k \in Keys |-> 0]
  <2>1. z \in Balances
    BY DEF Balances
  <2> HIDE DEF z
  <2>2. State(z, z, {}).balance \in Balances
    BY <2>1, StateAt
  <2> QED
    BY <1>2, <2>2 DEF Before, Zero, z
<1>3. CASE i # 1
  <2>1. i - 1 \in DOMAIN log
    BY <1>1, <1>3
  <2>2. IsState(after[i - 1])
    BY <2>1, ClearAt
  <2> QED
    BY <1>3, <2>2 DEF Before, IsState
<1> QED
  BY <1>2, <1>3

\* The deltas of the first m rows add up to the contract's balances there.
Tallies(m) ==
    /\ Changes(DeltasOf(log, 1 .. m))
    /\ \A k \in Keys : Wallet(k) \/ SumAt(DeltasOf(log, 1 .. m), k) = Before(after, m + 1).balance[k]

LEMMA DeltasGrow ==
    ASSUME NEW l, NEW m \in Nat, m > 0
    PROVE  /\ DeltasOf(l, 1 .. m) = DeltasOf(l, 1 .. m - 1) \cup RowDeltas(l, m)
           /\ \A d \in DeltasOf(l, 1 .. m - 1) : d.row # m
<1>1. 1 .. m = (1 .. m - 1) \cup {m} /\ m \notin 1 .. m - 1
  OBVIOUS
<1>2. \A i, d : d \in RowDeltas(l, i) => d.row = i
  BY RowOf
<1> QED
  BY <1>1, <1>2 DEF DeltasOf

LEMMA TallyStep ==
    ASSUME Replays, NEW m \in 1 .. Len(log), Kind(log, m) \notin {"ClearV3", "AfterClearV2"},
           Tallies(m - 1)
    PROVE  Tallies(m)
<1> DEFINE e == log[m].e
           p == Before(after, m)
           s == after[m]
           D == DeltasOf(log, 1 .. m - 1)
           N == DeltasOf(log, 1 .. m)
           R == RowDeltas(log, m)
<1>1. Len(log) \in Nat /\ m \in DOMAIN log /\ m \in Nat /\ m > 0
  BY LogFields
<1>2. Explains(e, p, s) /\ s.balance \in Balances
  BY <1>1, ClearAt DEF Kind, IsState
<1>3. p.balance \in Balances
  <2>1. m \in 1 .. Len(log) + 1
    BY <1>1
  <2> QED
    BY <2>1, BeforeState
<1>4. N = D \cup R /\ \A d \in D : d.row # m
  BY <1>1, DeltasGrow
<1>5. (m - 1) + 1 = m /\ (m + 1) - 1 = m /\ m + 1 # 1
  BY <1>1
<1>6. Changes(D) /\ \A k \in Keys : Wallet(k) \/ SumAt(D, k) = p.balance[k]
  BY <1>5 DEF Tallies
<1>7. Before(after, m + 1) = s
  BY <1>5 DEF Before
<1>8. SUFFICES /\ Changes(N)
               /\ \A k \in Keys : Wallet(k) \/ SumAt(N, k) = s.balance[k]
  BY <1>7 DEF Tallies
<1>9. \A k \in Keys : p.balance[k] \in Int
  BY <1>3 DEF Balances
<1>10. Kind(log, m) = e.kind
  BY DEF Kind
<1> HIDE DEF p, s, D, N
<1>11. CASE e.kind = "DepositV2"
  <2> DEFINE a == e.amount
             x == Delta(m, "DEPOSIT", e.key, a)
  <2>1. R = {x}
    BY <1>10, <1>11, RowOf
  <2>2. e.key \in Keys /\ a \in Int /\ Same(s.balance, Balanced(p.balance, e.key, a))
    BY <1>2, <1>11 DEF Explains
  <2>3. x.row = m /\ x.key = e.key /\ x.delta = a
    BY DeltaFields
  <2> HIDE DEF x, a, e, R
  <2>4. /\ Changes(D \cup {x})
        /\ \A k : SumAt(D \cup {x}, k) = SumAt(D, k) + Part(k, e.key, a)
    BY <1>4, <1>6, <2>2, <2>3, AddDelta
  <2>5. \A k \in Keys : Balanced(p.balance, e.key, a)[k] = p.balance[k] + Part(k, e.key, a)
    BY <1>3, <2>2, BalancedAt
  <2> QED
    BY <1>4, <1>6, <2>1, <2>2, <2>4, <2>5 DEF Same
<1>12. CASE e.kind = "WithdrawV2"
  <2> DEFINE a == -e.amount
             x == Delta(m, "WITHDRAW", e.key, a)
  <2>1. R = {x}
    BY <1>10, <1>12, RowOf
  <2>2. e.key \in Keys /\ a \in Int /\ Same(s.balance, Balanced(p.balance, e.key, a))
    BY <1>2, <1>12 DEF Explains
  <2>3. x.row = m /\ x.key = e.key /\ x.delta = a
    BY DeltaFields
  <2> HIDE DEF x, a, e, R
  <2>4. /\ Changes(D \cup {x})
        /\ \A k : SumAt(D \cup {x}, k) = SumAt(D, k) + Part(k, e.key, a)
    BY <1>4, <1>6, <2>2, <2>3, AddDelta
  <2>5. \A k \in Keys : Balanced(p.balance, e.key, a)[k] = p.balance[k] + Part(k, e.key, a)
    BY <1>3, <2>2, BalancedAt
  <2> QED
    BY <1>4, <1>6, <2>1, <2>2, <2>4, <2>5 DEF Same
<1>13. CASE e.kind = "TakeOrderV4"
  <2> DEFINE o == e.order
             a == -e.input
  <2>1. R = TakeRow(m, e)
    BY <1>10, <1>13, RowOf
  <2>2. e.order \in Orders /\ e.input \in Int /\ e.output \in Int /\ Same(s.balance, Taken(p.balance, e))
    BY <1>2, <1>13 DEF Explains
  <2> HIDE DEF e, R
  <2>3. /\ Changes(D \cup TakeRow(m, e))
        /\ \A k : SumAt(D \cup TakeRow(m, e), k) = SumAt(D, k) + Part(k, OutKey(o), a) + Part(k, InKey(o), e.output)
    <3>1. Changes(D) /\ \A d \in D : d.row # m
      BY <1>4, <1>6
    <3> HIDE DEF o, a
    <3>2. /\ Changes(D \cup TakeRow(m, e))
          /\ \A k : SumAt(D \cup TakeRow(m, e), k) =
                SumAt(D, k) + Part(k, OutKey(e.order), -e.input) + Part(k, InKey(e.order), e.output)
      BY <2>2, <3>1, TakeRowSum, Zenon
    <3> QED
      BY <3>2 DEF o, a
  <2>4. \A k \in Keys : Taken(p.balance, e)[k] = p.balance[k] + Part(k, OutKey(o), a) + Part(k, InKey(o), e.output)
    BY <1>3, <2>2, TakenAt
  <2> HIDE DEF o, a
  <2> QED
    BY <1>4, <1>6, <2>1, <2>2, <2>3, <2>4 DEF Same
<1>14. CASE e.kind \in {"AddOrderV3", "RemoveOrderV3"}
  <2>1. R = {}
    BY <1>10, <1>14, RowOf
  <2>2. Same(s.balance, p.balance)
    BY <1>2, <1>14 DEF Explains
  <2> HIDE DEF R
  <2>3. N = D
    BY <1>4, <2>1
  <2> QED
    BY <1>6, <2>2, <2>3 DEF Same
<1> QED
  BY <1>2, <1>11, <1>12, <1>13, <1>14 DEF Explains

LEMMA TallyClear ==
    ASSUME Replays, NEW m \in 1 .. Len(log), Kind(log, m) = "AfterClearV2", Tallies(m - 2)
    PROVE  m > 2 /\ Tallies(m)
<1> DEFINE c == log[m - 1].e
           e == log[m].e
           p == after[m - 2]
           s == after[m]
           D == DeltasOf(log, 1 .. m - 2)
           N == DeltasOf(log, 1 .. m)
           R == RowDeltas(log, m - 1)
           j == m - 1
<1>1. Len(log) \in Nat /\ m \in DOMAIN log /\ DOMAIN log = 1 .. Len(log)
  BY LogFields
<1>2. m > 2 /\ Clears(log[m - 1], log[m], p, s)
  BY <1>1, ClearAt DEF Kind
<1>3. j \in Nat /\ j > 0 /\ j - 1 = m - 2 /\ j + 1 = m /\ m \in Nat /\ m > 0 /\ m - 2 \in DOMAIN log
  <2>1. m \in Nat /\ m > 2 /\ m <= Len(log)
    BY <1>1, <1>2
  <2>2. m - 2 \in 1 .. Len(log)
    BY <1>1, <2>1
  <2> QED
    BY <1>1, <2>1, <2>2
<1>4. p.balance \in Balances
  BY <1>3, ClearAt DEF IsState
<1>5. /\ DeltasOf(log, 1 .. j) = D \cup R /\ \A d \in D : d.row # j
  BY <1>3, DeltasGrow
<1>6. N = D \cup R
  <2>1. N = DeltasOf(log, 1 .. m - 1) \cup RowDeltas(log, m)
    BY <1>3, DeltasGrow
  <2>2. RowDeltas(log, m) = {}
    BY RowOf
  <2> QED
    BY <1>5, <2>1, <2>2
<1>7. Changes(D) /\ \A k \in Keys : Wallet(k) \/ SumAt(D, k) = p.balance[k]
  <2>1. Before(after, (m - 2) + 1) = p
    BY <1>2, <1>3 DEF Before
  <2> QED
    BY <2>1 DEF Tallies
<1>8. Before(after, m + 1) = s
  BY <1>3 DEF Before
<1>9. R = ClearRow(j, c, e.change) \cup BountyRow(j, c, e.change)
  <2>1. Kind(log, j) = "ClearV3"
    BY <1>2 DEF Clears, Kind
  <2>2. R = ClearRow(j, log[j].e, log[j + 1].e.change) \cup BountyRow(j, log[j].e, log[j + 1].e.change)
    BY <2>1, RowOf
  <2> QED
    BY <1>3, <2>2
<1>10. /\ c.alice \in Orders /\ c.bob \in Orders /\ c.bounties \in VaultIds \X VaultIds
       /\ e.sender \in Senders /\ c.sender = e.sender /\ e.change \in ClearStates
       /\ Same(s.balance, Settled(p.balance, c, e))
  BY <1>2 DEF Clears
<1>11. SUFFICES /\ Changes(N)
                /\ \A k \in Keys : Wallet(k) \/ SumAt(N, k) = s.balance[k]
  BY <1>2, <1>8 DEF Tallies
<1> HIDE DEF c, e, p, s, D, N, R, j
<1>12. Changes(D \cup R) /\ \A k : SumAt(D \cup R, k) = SumAt(D, k) + ClearPart(k, c, e)
  <2>1. Changes(D) /\ \A d \in D : d.row # j
    BY <1>5, <1>7
  <2> DEFINE U == D \cup R
  <2>2. U = D \cup (ClearRow(j, c, e.change) \cup BountyRow(j, c, e.change))
    BY <1>9
  <2> HIDE DEF U
  <2>3. Changes(U) /\ \A k : SumAt(U, k) = SumAt(D, k) + ClearPart(k, c, e)
    <3>1. AddsClear(U, D, j, c, e)
      BY <1>10, <2>1, <2>2 DEF AddsClear
    <3> QED
      BY <3>1, ClearRowSum
  <2> QED
    BY <2>3 DEF U
<1>13. \A k \in Keys : Settled(p.balance, c, e)[k] = p.balance[k] + ClearPart(k, c, e)
  BY <1>4, <1>10, SettledAt
<1> QED
  BY <1>6, <1>7, <1>10, <1>12, <1>13 DEF Same

LEMMA AllTally ==
    ASSUME Replays, NEW m \in 0 .. Len(log), m > 0 => Kind(log, m) # "ClearV3"
    PROVE  Tallies(m)
<1> DEFINE Closed(n) == n > 0 => Kind(log, n) # "ClearV3"
           bad == {n \in 0 .. Len(log) : Closed(n) /\ ~Tallies(n)}
<1>1. Len(log) \in Nat /\ DOMAIN log = 1 .. Len(log)
  BY LogFields
<1>2. bad \subseteq Nat
  BY <1>1
<1>3. Tallies(0)
  <2>1. DeltasOf(log, 1 .. 0) = {}
    BY DEF DeltasOf
  <2>2. Changes({})
    BY FS_EmptySet DEF Changes
  <2>3. \A k : SumAt({}, k) = 0
    <3>1. \A k : {d \in {} : d.key = k} = {}
      OBVIOUS
    <3>2. SumOf({}) = 0
      BY <2>2, SumStep
    <3> QED
      BY <3>1, <3>2 DEF SumAt
  <2>4. Before(after, 0 + 1) = Zero
    BY DEF Before
  <2>5. \A k \in Keys : Zero.balance[k] = 0
    BY DEF Zero, State
  <2> QED
    BY <2>1, <2>2, <2>3, <2>4, <2>5 DEF Tallies
<1>4. bad = {}
  <2> SUFFICES ASSUME bad # {} PROVE FALSE
    OBVIOUS
  <2>1. PICK n \in bad : \A i \in bad : n <= i
    <3> HIDE DEF bad
    <3> QED
      BY <1>2, SmallestOf
  <2>2. n \in 0 .. Len(log) /\ Closed(n) /\ ~Tallies(n) /\ n # 0
    BY <1>3, <2>1
  <2>3. n \in 1 .. Len(log) /\ Kind(log, n) # "ClearV3" /\ n - 1 \in 0 .. Len(log)
    BY <1>1, <2>2
  <2>4. CASE Kind(log, n) # "AfterClearV2"
    <3>1. Closed(n - 1)
      <4> SUFFICES ASSUME n - 1 > 0, Kind(log, n - 1) = "ClearV3" PROVE FALSE
        OBVIOUS
      <4>1. n - 1 \in DOMAIN log /\ (n - 1) + 1 = n
        BY <1>1, <2>3
      <4>2. Clears(log[n - 1], log[(n - 1) + 1], after[(n - 1) - 1], after[(n - 1) + 1])
        BY <4>1, ClearAt DEF Kind
      <4> QED
        BY <2>4, <4>1, <4>2 DEF Clears, Kind
    <3>2. Tallies(n - 1)
      <4> SUFFICES ASSUME ~Tallies(n - 1) PROVE FALSE
        OBVIOUS
      <4>1. n - 1 \in bad
        BY <2>3, <3>1
      <4>2. n <= n - 1
        BY <2>1, <4>1
      <4> QED
        BY <1>1, <2>3, <4>2
    <3> QED
      BY <2>2, <2>3, <2>4, <3>2, TallyStep
  <2>5. CASE Kind(log, n) = "AfterClearV2"
    <3>1. n > 2 /\ Clears(log[n - 1], log[n], after[n - 2], after[n])
      BY <1>1, <2>3, <2>5, ClearAt DEF Kind
    <3>2. n - 2 \in 1 .. Len(log) /\ n - 1 \in DOMAIN log /\ n - 2 \in 0 .. Len(log) /\ n - 2 \in DOMAIN log
      BY <1>1, <2>3, <3>1
    <3>3. Closed(n - 2)
      <4> SUFFICES ASSUME Kind(log, n - 2) = "ClearV3" PROVE FALSE
        OBVIOUS
      <4>1. Clears(log[n - 2], log[(n - 2) + 1], after[(n - 2) - 1], after[(n - 2) + 1])
        BY <3>2, ClearAt DEF Kind
      <4>2. (n - 2) + 1 = n - 1
        BY <1>1, <2>3
      <4> QED
        BY <3>1, <4>1, <4>2 DEF Clears
    <3>4. Tallies(n - 2)
      <4> SUFFICES ASSUME ~Tallies(n - 2) PROVE FALSE
        OBVIOUS
      <4>1. n - 2 \in bad
        BY <3>2, <3>3
      <4>2. n <= n - 2
        BY <2>1, <4>1
      <4> QED
        BY <1>1, <2>3, <4>2
    <3> QED
      BY <2>2, <2>3, <2>5, <3>4, TallyClear
  <2> QED
    BY <2>4, <2>5
<1> QED
  BY <1>4

-----------------------------------------------------------------------------
(* The local DB's orders                                                   *)

LEMMA LargestOf ==
    ASSUME NEW T, NEW b \in Nat, T \subseteq 1 .. b, T # {}
    PROVE  \E x \in T : \A y \in T : y <= x
<1> DEFINE U == {z \in 0 .. b : b - z \in T}
<1>1. U \subseteq Nat
  OBVIOUS
<1>2. U # {}
  <2>1. PICK x \in T : TRUE
    OBVIOUS
  <2>2. b - x \in 0 .. b /\ b - (b - x) = x
    BY <2>1
  <2>3. b - x \in U
    BY <2>1, <2>2
  <2> QED
    BY <2>3
<1>3. PICK u \in U : \A z \in U : u <= z
  <2> HIDE DEF U
  <2> QED
    BY <1>1, <1>2, SmallestOf
<1>4. u \in 0 .. b /\ b - u \in T
  BY <1>3
<1>5. ASSUME NEW y \in T PROVE y <= b - u
  <2>1. y \in Nat /\ b - y \in 0 .. b /\ b - (b - y) = y
    OBVIOUS
  <2>2. b - y \in U
    BY <2>1
  <2>3. u <= b - y
    BY <1>3, <2>2
  <2> QED
    BY <1>4, <2>1, <2>3
<1> QED
  BY <1>4, <1>5

\* The event i adds or removes the order o.
Names(i, o) == Kind(log, i) \in {"AddOrderV3", "RemoveOrderV3"} /\ log[i].e.order = o

\* The last of the first m events to name the order o adds it.
AddedLast(m, o) == \E i \in 1 .. m : Adds(log, i, o) /\ \A j \in 1 .. m : Names(j, o) => j <= i

LEMMA NamedOrder ==
    ASSUME Replays, NEW i \in DOMAIN log,
           Kind(log, i) \in {"AddOrderV3", "RemoveOrderV3", "TakeOrderV4"}
    PROVE  log[i].e.order \in Orders
<1>1. Explains(log[i].e, Before(after, i), after[i])
  BY ClearAt DEF Kind
<1> QED
  BY <1>1 DEF Explains, Kind

\* An owner and a nonce name one order.
LEMMA OneOrder ==
    ASSUME NEW o \in Orders, NEW p \in Orders, o.owner = p.owner, o.nonce = p.nonce
    PROVE  o = p
  BY IndexersAssumption

LEMMA ActiveIff ==
    ASSUME Replays, NEW m \in 0 .. Len(log)
    PROVE  ActiveOrders(1 .. m) = {o \in Orders : AddedLast(m, o)}
<1> DEFINE rows == 1 .. m
           events == Rows(rows, "AddOrderV3") \cup Rows(rows, "RemoveOrderV3")
           id(i) == <<log[i].e.order.owner, log[i].e.order.nonce>>
           latest == {i \in events : \A j \in events : id(j) = id(i) => j <= i}
<1>1. ActiveOrders(rows) = {log[i].e.order : i \in Rows(latest, "AddOrderV3")}
  BY DEF ActiveOrders
<1>2. \A i \in 1 .. m : i \in DOMAIN log
  BY LogFields
<1>3. events = {i \in 1 .. m : Kind(log, i) \in {"AddOrderV3", "RemoveOrderV3"}}
  BY DEF Rows, Kind
<1>4. \A i \in events : log[i].e.order \in Orders
  BY <1>2, <1>3, NamedOrder
<1>5. \A i, j \in events : id(j) = id(i) <=> log[j].e.order = log[i].e.order
  BY <1>4, OneOrder
<1> HIDE DEF id, events
<1>6. \A o : o \in ActiveOrders(rows) <=>
             \E i \in events : /\ Kind(log, i) = "AddOrderV3" /\ log[i].e.order = o
                               /\ \A j \in events : id(j) = id(i) => j <= i
  BY <1>1 DEF Rows, Kind
<1>7. \A o : o \in ActiveOrders(rows) <=>
             \E i \in events : /\ Kind(log, i) = "AddOrderV3" /\ log[i].e.order = o
                               /\ \A j \in events : log[j].e.order = o => j <= i
  BY <1>5, <1>6
<1>8. \A o : o \in ActiveOrders(rows) <=> AddedLast(m, o)
  BY <1>3, <1>7 DEF AddedLast, Adds, Names
<1>9. \A o : AddedLast(m, o) => o \in Orders
  BY <1>3, <1>4 DEF AddedLast, Adds
<1> HIDE DEF rows
<1> QED
  BY <1>8, <1>9 DEF rows

\* The orders of the contract are those that their last event adds.
LEMMA LiveStep ==
    ASSUME Replays, NEW m \in 1 .. Len(log),
           \A o : o \in Before(after, m).live <=> AddedLast(m - 1, o)
    PROVE  \A o : o \in after[m].live <=> AddedLast(m, o)
<1> DEFINE e == log[m].e
<1>1. Len(log) \in Nat /\ m \in DOMAIN log /\ DOMAIN log = 1 .. Len(log)
  BY LogFields
<1>2. 1 .. m = (1 .. m - 1) \cup {m} /\ \A i \in 1 .. m - 1 : i <= m /\ ~(m <= i)
  BY <1>1
<1>3. CASE Kind(log, m) = "AddOrderV3"
  <2>1. after[m].live = Before(after, m).live \cup {e.order}
    BY <1>1, <1>3, ClearAt DEF Kind, Explains
  <2>2. \A o : AddedLast(m, o) <=> o = e.order \/ AddedLast(m - 1, o)
    BY <1>1, <1>2, <1>3 DEF AddedLast, Adds, Names
  <2> QED
    BY <2>1, <2>2
<1>4. CASE Kind(log, m) = "RemoveOrderV3"
  <2>1. after[m].live = Before(after, m).live \ {e.order}
    BY <1>1, <1>4, ClearAt DEF Kind, Explains
  <2>2. \A o : AddedLast(m, o) <=> o # e.order /\ AddedLast(m - 1, o)
    BY <1>1, <1>2, <1>4 DEF AddedLast, Adds, Names
  <2> QED
    BY <2>1, <2>2
<1>5. CASE Kind(log, m) \notin {"AddOrderV3", "RemoveOrderV3"}
  <2>1. after[m].live = Before(after, m).live
    <3>1. CASE Kind(log, m) \notin {"ClearV3", "AfterClearV2"}
      BY <1>1, <1>5, <3>1, ClearAt DEF Kind, Explains
    <3>2. CASE Kind(log, m) = "ClearV3"
      BY <1>1, <3>2, ClearAt DEF Kind, Clears, Before
    <3>3. CASE Kind(log, m) = "AfterClearV2"
      <4>1. m > 2 /\ Clears(log[m - 1], log[m], after[m - 2], after[m])
        BY <1>1, <3>3, ClearAt DEF Kind
      <4>2. m - 1 \in DOMAIN log /\ (m - 1) + 1 = m
        BY <1>1, <4>1
      <4>3. after[m - 1] = after[(m - 1) + 1]
        BY <4>1, <4>2, ClearAt DEF Clears
      <4> QED
        BY <4>1, <4>2, <4>3 DEF Before
    <3> QED
      BY <3>1, <3>2, <3>3
  <2>2. \A o : AddedLast(m, o) <=> AddedLast(m - 1, o)
    BY <1>1, <1>2, <1>5 DEF AddedLast, Adds, Names
  <2> QED
    BY <2>1, <2>2
<1> QED
  BY <1>3, <1>4, <1>5

LEMMA AllLive ==
    ASSUME Replays, NEW m \in 0 .. Len(log)
    PROVE  \A o : o \in Before(after, m + 1).live <=> AddedLast(m, o)
<1> DEFINE Holds(n) == \A o : o \in Before(after, n + 1).live <=> AddedLast(n, o)
           bad == {n \in 0 .. Len(log) : ~Holds(n)}
<1>1. Len(log) \in Nat
  BY LogFields
<1>2. Holds(0)
  <2>1. Before(after, 0 + 1).live = {}
    BY DEF Before, Zero, State
  <2>2. 1 .. 0 = {}
    OBVIOUS
  <2> QED
    BY <2>1, <2>2 DEF AddedLast
<1>3. bad = {}
  <2> SUFFICES ASSUME bad # {} PROVE FALSE
    OBVIOUS
  <2>1. bad \subseteq Nat
    BY <1>1
  <2>2. PICK n \in bad : \A i \in bad : n <= i
    <3> HIDE DEF bad
    <3> QED
      BY <2>1, SmallestOf
  <2>3. n \in 0 .. Len(log) /\ ~Holds(n) /\ n # 0
    BY <1>2, <2>2
  <2>4. n \in 1 .. Len(log) /\ n - 1 \in 0 .. Len(log) /\ (n - 1) + 1 = n /\ ~(n <= n - 1) /\ n + 1 # 1 /\ (n + 1) - 1 = n
    BY <1>1, <2>3
  <2>5. Holds(n - 1)
    <3> HIDE DEF Holds
    <3> QED
      BY <2>2, <2>4
  <2>6. \A o : o \in after[n].live <=> AddedLast(n, o)
    BY <2>4, <2>5, LiveStep
  <2>7. Before(after, n + 1) = after[n]
    BY <2>4 DEF Before
  <2> QED
    BY <2>3, <2>6, <2>7
<1> QED
  BY <1>3

LEMMA ActiveLive ==
    ASSUME Replays, NEW m \in 1 .. Len(log)
    PROVE  ActiveOrders(1 .. m) = after[m].live
<1>1. m \in 0 .. Len(log) /\ m + 1 # 1 /\ (m + 1) - 1 = m
  BY LogFields
<1>2. Before(after, m + 1) = after[m]
  BY <1>1 DEF Before
<1>3. \A o : o \in after[m].live <=> AddedLast(m, o)
  BY <1>1, <1>2, AllLive
<1>4. ActiveOrders(1 .. m) = {o \in Orders : AddedLast(m, o)}
  BY <1>1, ActiveIff
<1>5. \A o : AddedLast(m, o) => o \in Orders
  <2>1. \A i \in 1 .. m : i \in DOMAIN log
    BY LogFields
  <2> QED
    BY <2>1, NamedOrder DEF AddedLast, Adds
<1> QED
  BY <1>3, <1>4, <1>5

-----------------------------------------------------------------------------
(* The view vault_deltas, over rows that do not end within a clear         *)

LEMMA TakenIs ==
    ASSUME Replays, Ordered, NEW m \in 1 .. Len(log), NEW i \in Rows(1 .. m, "TakeOrderV4")
    PROVE  TakenOrder(1 .. m, i) = {log[i].e.order}
<1> DEFINE o == log[i].e.order
           added == {j \in Rows(1 .. m, "AddOrderV3") :
                        /\ j <= i
                        /\ log[j].e.order.owner = log[i].e.order.owner
                        /\ log[j].e.order.nonce = log[i].e.order.nonce}
<1>1. Len(log) \in Nat /\ DOMAIN log = 1 .. Len(log) /\ m \in Nat
  BY LogFields
<1>2. i \in 1 .. m /\ i \in DOMAIN log /\ Kind(log, i) = "TakeOrderV4"
  BY <1>1 DEF Rows, Kind
<1>3. o \in Orders
  BY <1>2, NamedOrder
<1>4. \A j \in added : j \in 1 .. m /\ j \in DOMAIN log /\ Kind(log, j) = "AddOrderV3"
  BY <1>1 DEF Rows, Kind
<1>5. \A j \in added : log[j].e.order = o
  <2> TAKE j \in added
  <2>1. log[j].e.order \in Orders
    BY <1>4, NamedOrder
  <2> QED
    BY <1>3, <2>1, OneOrder
<1>6. PICK j \in 1 .. i : Adds(log, j, o)
  BY <1>2 DEF Ordered
<1>7. j \in added
  BY <1>1, <1>2, <1>6 DEF Adds, Rows, Kind
<1>8. added \subseteq 1 .. m
  BY <1>4
<1>9. TakenOrder(1 .. m, i) = {log[x].e.order : x \in {x \in added : \A y \in added : y <= x}}
  BY DEF TakenOrder
<1> HIDE DEF added
<1>10. PICK x \in added : \A y \in added : y <= x
  BY <1>1, <1>7, <1>8, LargestOf
<1> QED
  BY <1>5, <1>9, <1>10

LEMMA AfterIs ==
    ASSUME Replays, NEW m \in 1 .. Len(log), Kind(log, m) # "ClearV3",
           NEW i \in Rows(1 .. m, "ClearV3")
    PROVE  AfterOf(1 .. m, i) = {i + 1} /\ i + 1 \in 1 .. m
<1> DEFINE afters == {j \in Rows(1 .. m, "AfterClearV2") : j > i /\ log[j].tx = log[i].tx}
<1>1. Len(log) \in Nat /\ DOMAIN log = 1 .. Len(log) /\ m \in Nat
  BY LogFields
<1>2. i \in 1 .. m /\ i \in DOMAIN log /\ Kind(log, i) = "ClearV3" /\ i # m
  BY <1>1 DEF Rows, Kind
<1>3. i + 1 \in 1 .. m /\ i + 1 > i
  BY <1>1, <1>2
<1>4. Clears(log[i], log[i + 1], after[i - 1], after[i + 1])
  BY <1>2, ClearAt DEF Kind
<1>5. i + 1 \in afters
  BY <1>3, <1>4 DEF Clears, Rows
<1>6. \A j \in afters : j \in Nat /\ i + 1 <= j
  BY <1>1, <1>2 DEF Rows
<1>7. AfterOf(1 .. m, i) = {j \in afters : \A x \in afters : j <= x}
  BY DEF AfterOf
<1> HIDE DEF afters
<1>8. \A j \in afters : (\A x \in afters : j <= x) <=> j = i + 1
  BY <1>1, <1>2, <1>5, <1>6
<1> QED
  BY <1>3, <1>5, <1>7, <1>8

LEMMA DepositRows ==
    ASSUME NEW rows
    PROVE  DepositDeltas(rows) = UNION {RowDeltas(log, i) : i \in Rows(rows, "DepositV2")}
<1>1. \A i \in Rows(rows, "DepositV2") :
         RowDeltas(log, i) = {Delta(i, "DEPOSIT", log[i].e.key, log[i].e.amount)}
  BY RowOf DEF Rows, Kind
<1> QED
  BY <1>1 DEF DepositDeltas

LEMMA WithdrawRows ==
    ASSUME NEW rows
    PROVE  WithdrawDeltas(rows) = UNION {RowDeltas(log, i) : i \in Rows(rows, "WithdrawV2")}
<1>1. \A i \in Rows(rows, "WithdrawV2") :
         RowDeltas(log, i) = {Delta(i, "WITHDRAW", log[i].e.key, -log[i].e.amount)}
  BY RowOf DEF Rows, Kind
<1> QED
  BY <1>1 DEF WithdrawDeltas

LEMMA TakeRows ==
    ASSUME Replays, Ordered, NEW m \in 1 .. Len(log)
    PROVE  TakeDeltas(1 .. m) = UNION {RowDeltas(log, i) : i \in Rows(1 .. m, "TakeOrderV4")}
<1> DEFINE R == Rows(1 .. m, "TakeOrderV4")
           both(i, o) == {Delta(i, "TAKE_INPUT", InKey(o), log[i].e.output),
                          Delta(i, "TAKE_OUTPUT", OutKey(o), -log[i].e.input)}
<1>1. \A i \in R : RowDeltas(log, i) = TakeRow(i, log[i].e)
  BY RowOf DEF Rows, Kind
<1>2. \A i \in R : TakeRow(i, log[i].e) = both(i, log[i].e.order)
  BY DEF TakeRow
<1>3. \A i \in R : TakenOrder(1 .. m, i) = {log[i].e.order}
  BY TakenIs
<1>4. TakeDeltas(1 .. m) = UNION {UNION {both(i, o) : o \in TakenOrder(1 .. m, i)} : i \in R}
  BY DEF TakeDeltas
<1> HIDE DEF both, R
<1>5. \A i \in R : UNION {both(i, o) : o \in TakenOrder(1 .. m, i)} = RowDeltas(log, i)
  BY <1>1, <1>2, <1>3
<1>6. TakeDeltas(1 .. m) = UNION {RowDeltas(log, i) : i \in R}
  BY <1>4, <1>5
<1> QED
  BY <1>6 DEF R

LEMMA ClearRows ==
    ASSUME Replays, NEW m \in 1 .. Len(log), Kind(log, m) # "ClearV3"
    PROVE  ClearDeltas(1 .. m) \cup BountyDeltas(1 .. m) =
               UNION {RowDeltas(log, i) : i \in Rows(1 .. m, "ClearV3")}
<1> DEFINE R == Rows(1 .. m, "ClearV3")
           C == ClearsOf(1 .. m)
           clear(i) == [row |-> i, e |-> log[i].e, s |-> log[i + 1].e.change]
           four(c) == {Delta(c.row, "CLEAR_ALICE_INPUT", InKey(c.e.alice), c.s.aliceInput),
                       Delta(c.row, "CLEAR_ALICE_OUTPUT", OutKey(c.e.alice), -c.s.aliceOutput),
                       Delta(c.row, "CLEAR_BOB_INPUT", InKey(c.e.bob), c.s.bobInput),
                       Delta(c.row, "CLEAR_BOB_OUTPUT", OutKey(c.e.bob), -c.s.bobOutput)}
           paid(c) == {Delta(c.row, "CLEAR_ALICE_BOUNTY", <<c.e.sender, c.e.alice.output.token, c.e.bounties[1]>>,
                             c.s.aliceOutput - c.s.bobInput),
                       Delta(c.row, "CLEAR_BOB_BOUNTY", <<c.e.sender, c.e.bob.output.token, c.e.bounties[2]>>,
                             c.s.bobOutput - c.s.aliceInput)}
<1>1. C = {clear(i) : i \in R}
  <2>1. C = UNION {{[row |-> i, e |-> log[i].e, s |-> log[j].e.change] : j \in AfterOf(1 .. m, i)} : i \in R}
    BY DEF ClearsOf
  <2>2. \A i \in R : AfterOf(1 .. m, i) = {i + 1}
    BY AfterIs
  <2> HIDE DEF R, C
  <2> QED
    BY <2>1, <2>2
<1>2. \A i \in R : RowDeltas(log, i) = ClearRow(i, log[i].e, log[i + 1].e.change)
                                       \cup BountyRow(i, log[i].e, log[i + 1].e.change)
  BY RowOf DEF Rows, Kind
<1>3. \A i \in R : four(clear(i)) = ClearRow(i, log[i].e, log[i + 1].e.change)
  BY DEF ClearRow
<1>4. \A i \in R : {d \in paid(clear(i)) : d.delta # 0} = BountyRow(i, log[i].e, log[i + 1].e.change)
  BY DEF BountyRow, BountyKey
<1>5. ClearDeltas(1 .. m) = UNION {four(c) : c \in C}
  BY DEF ClearDeltas
<1>6. BountyDeltas(1 .. m) = {d \in UNION {paid(c) : c \in C} : d.delta # 0}
  BY DEF BountyDeltas
<1> HIDE DEF R, C, four, paid, clear
<1>7. ClearDeltas(1 .. m) = UNION {four(clear(i)) : i \in R}
  BY <1>1, <1>5
<1>8. BountyDeltas(1 .. m) = UNION {{d \in paid(clear(i)) : d.delta # 0} : i \in R}
  BY <1>1, <1>6
<1>9. ClearDeltas(1 .. m) \cup BountyDeltas(1 .. m) = UNION {RowDeltas(log, i) : i \in R}
  BY <1>2, <1>3, <1>4, <1>7, <1>8
<1> QED
  BY <1>9 DEF R

LEMMA ViewIs ==
    ASSUME Replays, Ordered, NEW m \in 1 .. Len(log), Kind(log, m) # "ClearV3"
    PROVE  vault_deltas(1 .. m) = DeltasOf(log, 1 .. m)
<1> DEFINE rows == 1 .. m
           of(kind) == UNION {RowDeltas(log, i) : i \in Rows(rows, kind)}
           kinds == {"DepositV2", "WithdrawV2", "TakeOrderV4", "ClearV3"}
<1>1. vault_deltas(rows) = DepositDeltas(rows) \cup WithdrawDeltas(rows) \cup TakeDeltas(rows)
                           \cup (ClearDeltas(rows) \cup BountyDeltas(rows))
  BY DEF vault_deltas
<1>2. /\ DepositDeltas(rows) = of("DepositV2") /\ WithdrawDeltas(rows) = of("WithdrawV2")
      /\ TakeDeltas(rows) = of("TakeOrderV4")
      /\ ClearDeltas(rows) \cup BountyDeltas(rows) = of("ClearV3")
  BY DepositRows, WithdrawRows, TakeRows, ClearRows
<1>3. \A i \in rows : Kind(log, i) \notin kinds => RowDeltas(log, i) = {}
  BY RowOf
<1>4. \A kind : of(kind) = UNION {RowDeltas(log, i) : i \in {i \in rows : Kind(log, i) = kind}}
  BY DEF Rows, Kind
<1> HIDE DEF rows, of
<1>5. vault_deltas(rows) = UNION {RowDeltas(log, i) : i \in {i \in rows : Kind(log, i) \in kinds}}
  BY <1>1, <1>2, <1>4
<1>6. vault_deltas(rows) = DeltasOf(log, rows)
  BY <1>3, <1>5 DEF DeltasOf
<1> QED
  BY <1>6 DEF rows

-----------------------------------------------------------------------------
(* The rows up to a block                                                  *)

LEMMA RowsAre ==
    ASSUME Replays, Ordered, NEW b \in Nat, b > 0
    PROVE  \E m \in 1 .. Len(log) : RowsUpTo(b) = 1 .. m /\ Kind(log, m) # "ClearV3"
<1> DEFINE R == RowsUpTo(b)
<1>1. Len(log) \in Nat /\ DOMAIN log = 1 .. Len(log)
  BY LogFields
<1>2. /\ Len(log) > 0 /\ log[1].block = 1
      /\ \A i \in DOMAIN log : log[i].block \in 1 .. block
      /\ \A i, j \in DOMAIN log : i <= j => log[i].block <= log[j].block
      /\ block \in Nat
  BY DEF Ordered
<1>3. R = {i \in 1 .. Len(log) : log[i].block <= b}
  BY <1>1 DEF RowsUpTo
<1>4. 1 \in R
  BY <1>1, <1>2, <1>3
<1>5. PICK m \in R : \A i \in R : i <= m
  <2> HIDE DEF R
  <2>1. R \subseteq 1 .. Len(log)
    BY <1>3
  <2> QED
    BY <1>1, <1>4, <2>1, LargestOf
<1>6. m \in 1 .. Len(log) /\ log[m].block <= b
  BY <1>3, <1>5
<1>7. R = 1 .. m
  <2>1. \A i \in 1 .. m : i \in R
    <3> TAKE i \in 1 .. m
    <3>1. i \in DOMAIN log /\ m \in DOMAIN log /\ i <= m
      BY <1>1, <1>6
    <3>2. log[i].block <= log[m].block /\ log[i].block \in Nat /\ log[m].block \in Nat
      BY <1>2, <3>1
    <3>3. log[i].block <= b
      BY <1>6, <3>2
    <3> QED
      BY <1>1, <1>3, <3>1, <3>3
  <2>2. \A i \in R : i \in 1 .. m
    BY <1>3, <1>5, <1>6
  <2> HIDE DEF R
  <2> QED
    BY <2>1, <2>2
<1>8. Kind(log, m) # "ClearV3"
  <2> SUFFICES ASSUME Kind(log, m) = "ClearV3" PROVE FALSE
    OBVIOUS
  <2>1. m \in DOMAIN log
    BY <1>1, <1>6
  <2>2. m + 1 \in DOMAIN log /\ Clears(log[m], log[m + 1], after[m - 1], after[m + 1])
    BY <2>1, ClearAt DEF Kind
  <2>3. log[m + 1].block = log[m].block
    BY <2>2 DEF Clears
  <2>4. m + 1 \in R
    BY <1>1, <1>3, <1>6, <2>2, <2>3
  <2> HIDE DEF R
  <2>5. m + 1 <= m
    BY <1>5, <2>4
  <2> QED
    BY <1>6, <2>5
<1> QED
  BY <1>6, <1>7, <1>8

LEMMA NoRows ==
    ASSUME Replays, Ordered
    PROVE  RowsUpTo(0) = {} /\ \A l : DeltasOf(l, {}) = {}
<1>1. \A i \in DOMAIN log : log[i].block \in Nat /\ log[i].block > 0
  BY DEF Ordered
<1> QED
  BY <1>1 DEF RowsUpTo, DeltasOf

LEMMA ViewUpTo ==
    ASSUME Replays, Ordered, NEW b \in Nat, b > 0
    PROVE  vault_deltas(RowsUpTo(b)) = DeltasOf(log, RowsUpTo(b))
  BY RowsAre, ViewIs

\* Up to the watermark the tables agree with the contract.
LEMMA TablesImply ==
    ASSUME Replays, Ordered, Tables
    PROVE  LocalAgrees
<1> SUFFICES ASSUME db.mark > 0 PROVE LocalAgrees
  BY DEF LocalAgrees
<1> DEFINE rows == RowsUpTo(db.mark)
<1>1. db.mark \in Nat /\ db.mark > 0
  BY DEF Tables
<1>2. PICK m \in 1 .. Len(log) : rows = 1 .. m /\ Kind(log, m) # "ClearV3"
  BY <1>1, RowsAre
<1>3. Len(log) \in Nat /\ m \in 0 .. Len(log) /\ m \in Nat /\ m + 1 # 1 /\ (m + 1) - 1 = m
  BY LogFields
<1>4. Max(rows) = m
  <2>1. \A x \in 1 .. m : (\A y \in 1 .. m : x >= y) <=> x = m
    BY <1>3
  <2>2. m \in 1 .. m
    BY <1>3
  <2>3. Max(1 .. m) = CHOOSE x \in 1 .. m : \A y \in 1 .. m : x >= y
    BY DEF Max
  <2> QED
    BY <1>2, <2>1, <2>2, <2>3
<1>5. Tallies(m)
  BY <1>2, <1>3, AllTally
<1>6. Before(after, m + 1) = after[m]
  BY <1>3 DEF Before
<1>7. db.deltas = DeltasOf(log, 1 .. m) /\ \A k \in Keys : db.balance[k] = SumAt(db.deltas, k)
  BY <1>2 DEF Tables
<1>8. \A k \in Keys : Wallet(k) \/ db.balance[k] = after[m].balance[k]
  BY <1>5, <1>6, <1>7 DEF Tallies
<1>9. ActiveOrders(rows) = after[m].live
  BY <1>2, ActiveLive
<1> HIDE DEF rows
<1> QED
  BY <1>4, <1>8, <1>9 DEF LocalAgrees, rows

-----------------------------------------------------------------------------
(* The steps                                                               *)

LEMMA WindowSynced ==
    ASSUME Replays, Ordered, Tables, NEW target \in 1 .. MaxBlock, SyncWindow(target)
    PROVE  Ordered' /\ Tables'
<1> DEFINE rows == RowsUpTo(target)
           old == RowsUpTo(db.mark)
           window == rows \ old
           new == {d \in vault_deltas(rows) : d.row \in window}
           deltas == db.deltas \cup new
<1>1. /\ db.mark < target /\ target < block /\ UNCHANGED <<contract, sg>>
      /\ db'.mark = target /\ db'.deltas = deltas
      /\ db'.balance = running_vault_balances(deltas, new)
  BY DEF SyncWindow
<1>2. target \in Nat /\ target > 0 /\ db.mark \in Nat
  BY IndexersAssumption DEF Tables
<1>3. vault_deltas(rows) = DeltasOf(log, rows)
  BY <1>2, ViewUpTo
<1>4. old \subseteq rows
  <2>1. \A i \in DOMAIN log : log[i].block \in Nat
    BY DEF Ordered
  <2> QED
    BY <1>1, <1>2, <2>1 DEF RowsUpTo
<1>5. \A i, d : d \in RowDeltas(log, i) => d.row = i
  BY RowOf
<1>6. db.deltas = DeltasOf(log, old)
  BY DEF Tables
<1>7. deltas = DeltasOf(log, rows)
  <2> HIDE DEF rows, old
  <2> QED
    BY <1>3, <1>4, <1>5, <1>6 DEF DeltasOf
<1>8. ASSUME NEW k \in Keys PROVE db'.balance[k] = SumAt(deltas, k)
  <2>1. db'.balance[k] = IF \E d \in new : d.key = k THEN SumOf({d \in deltas : d.key = k}) ELSE db.balance[k]
    BY <1>1 DEF running_vault_balances
  <2> HIDE DEF new
  <2>2. CASE \E d \in new : d.key = k
    BY <2>1, <2>2 DEF SumAt
  <2>3. CASE ~\E d \in new : d.key = k
    <3>1. {d \in deltas : d.key = k} = {d \in db.deltas : d.key = k}
      BY <2>3
    <3>2. db.balance[k] = SumAt(db.deltas, k)
      BY DEF Tables
    <3> HIDE DEF deltas
    <3> QED
      BY <2>1, <2>3, <3>1, <3>2 DEF SumAt
  <2> QED
    BY <2>2, <2>3
<1>9. UNCHANGED <<log, live, block>>
  BY <1>1 DEF contract
<1>10. Ordered'
  BY <1>9 DEF Ordered, Adds, Kind
<1>11. db'.mark \in Nat /\ db'.mark < block'
  BY <1>1, <1>2, <1>9
<1>12. db'.deltas = DeltasOf(log', RowsUpTo(db.mark)')
  <2>1. RowsUpTo(db.mark)' = rows
    BY <1>1, <1>9 DEF RowsUpTo
  <2> HIDE DEF rows, deltas
  <2> QED
    BY <1>1, <1>7, <1>9, <2>1
<1> HIDE DEF deltas, new, rows
<1> QED
  BY <1>1, <1>8, <1>10, <1>11, <1>12 DEF Tables

\* New events are past the watermark, and the old ones keep their deltas.
LEMMA EmitKeeps ==
    ASSUME Replays, Ordered, Tables, NEW E, NEW events \in Seq(E), NEW v, NEW d, NEW l,
           Emit(events, v, d, l)
    PROVE  /\ RowsUpTo(db.mark)' = RowsUpTo(db.mark)
           /\ \A i \in DOMAIN log : log'[i] = log[i] /\ RowDeltas(log', i) = RowDeltas(log, i)
<1> DEFINE n == Len(log)
           q == Len(events)
<1>1. n \in Nat /\ DOMAIN log = 1 .. n /\ q \in Nat
  BY LogFields
<1>2. DOMAIN log' = 1 .. n + q /\ \A i \in 1 .. n : log'[i] = log[i]
  BY Emitted
<1>3. \A i \in 1 .. q : log'[n + i] = At(events[i])
  BY Emitted DEF At
<1>4. db' = db /\ db.mark \in Nat /\ db.mark < block /\ block \in Nat
  BY DEF Emit, Tables, Ordered
<1> HIDE DEF n, q
<1>5. \A i \in 1 .. n + q : log'[i].block <= db.mark <=> i \in 1 .. n /\ log[i].block <= db.mark
  <2> TAKE i \in 1 .. n + q
  <2>1. CASE i \in 1 .. n
    BY <1>2, <2>1
  <2>2. CASE i \notin 1 .. n
    <3>1. i - n \in 1 .. q /\ n + (i - n) = i
      BY <1>1, <2>2
    <3>2. log'[i] = At(events[i - n])
      BY <1>3, <3>1
    <3>3. log'[i].block = block
      BY <3>2 DEF At
    <3> QED
      BY <1>4, <2>2, <3>3
  <2> QED
    BY <2>1, <2>2
<1>6. \A i \in 1 .. n : i \in 1 .. n + q
  BY <1>1
<1>7. RowsUpTo(db.mark)' = RowsUpTo(db.mark)
  BY <1>1, <1>2, <1>4, <1>5, <1>6 DEF RowsUpTo
<1>8. ASSUME NEW i \in 1 .. n PROVE RowDeltas(log', i) = RowDeltas(log, i)
  <2>1. log'[i] = log[i]
    BY <1>2
  <2>2. CASE Kind(log, i) = "ClearV3"
    <3>1. i + 1 \in DOMAIN log
      BY <1>1, <2>2, ClearAt DEF Kind
    <3>2. log'[i + 1] = log[i + 1]
      BY <1>1, <1>2, <3>1
    <3> QED
      BY <2>1, <3>2 DEF RowDeltas, Kind
  <2>3. CASE Kind(log, i) # "ClearV3"
    BY <2>1, <2>3 DEF RowDeltas, Kind
  <2> QED
    BY <2>2, <2>3
<1> QED
  BY <1>1, <1>2, <1>7, <1>8

\* What is emitted trades and keeps orders that have been added.
Fits(events, l) ==
    /\ \A i \in 1 .. Len(events) : events[i].kind = "TakeOrderV4" => events[i].order \in live
    /\ \A o \in l : \/ o \in live
                    \/ \E i \in 1 .. Len(events) : events[i].kind = "AddOrderV3" /\ events[i].order = o

LEMMA EmitTables ==
    ASSUME Replays, Ordered, Tables, NEW E, NEW events \in Seq(E), NEW v, NEW d, NEW l,
           Emit(events, v, d, l), Fits(events, l)
    PROVE  Ordered' /\ Tables'
<1> DEFINE n == Len(log)
           q == Len(events)
<1>1. n \in Nat /\ DOMAIN log = 1 .. n /\ q \in Nat
  BY LogFields
<1>2. /\ DOMAIN log' = 1 .. n + q /\ Len(log') = n + q
      /\ \A i \in 1 .. n : log'[i] = log[i]
  BY Emitted
<1>3. \A i \in 1 .. q : log'[n + i] = At(events[i])
  BY Emitted DEF At
<1>4. live' = l /\ block' = block /\ db' = db
  BY DEF Emit
<1>5. ASSUME NEW i \in 1 .. n + q, i \notin 1 .. n
      PROVE  /\ i - n \in 1 .. q /\ log'[i].block = block
             /\ log'[i].e = events[i - n]
  <2>1. i - n \in 1 .. q /\ n + (i - n) = i
    BY <1>1, <1>5
  <2>2. log'[i] = At(events[i - n])
    BY <1>3, <2>1
  <2> QED
    BY <2>1, <2>2 DEF At
<1>6. \A i \in 1 .. n : i \in 1 .. n + q
  BY <1>1
<1>7. /\ block \in Nat
      /\ n > 0 /\ log[1].block = 1
      /\ \A i \in 1 .. n : log[i].block \in 1 .. block
      /\ \A i, j \in 1 .. n : i <= j => log[i].block <= log[j].block
  BY <1>1 DEF Ordered
<1>8. \A i, o : i \in 1 .. n /\ Adds(log, i, o) => Adds(log', i, o)
  BY <1>2 DEF Adds, Kind
<1> HIDE DEF n, q
<1>9. Ordered'
  <2>1. Len(log') > 0 /\ log'[1].block = 1 /\ block' \in Nat
    <3>1. 1 \in 1 .. n
      BY <1>1, <1>7
    <3> QED
      BY <1>1, <1>2, <1>4, <1>7, <3>1
  <2>2. \A i \in 1 .. n + q : log'[i].block \in 1 .. block'
    <3> TAKE i \in 1 .. n + q
    <3>1. CASE i \in 1 .. n
      BY <1>2, <1>4, <1>7, <3>1
    <3>2. CASE i \notin 1 .. n
      <4>1. log[1].block \in 1 .. block
        BY <1>1, <1>7
      <4> QED
        BY <1>4, <1>5, <1>7, <3>2, <4>1
    <3> QED
      BY <3>1, <3>2
  <2>3. \A i, j \in 1 .. n + q : i <= j => log'[i].block <= log'[j].block
    <3> SUFFICES ASSUME NEW i \in 1 .. n + q, NEW j \in 1 .. n + q, i <= j
                 PROVE  log'[i].block <= log'[j].block
      OBVIOUS
    <3>1. CASE j \in 1 .. n
      <4>1. i \in 1 .. n
        BY <1>1, <3>1
      <4> QED
        BY <1>2, <1>7, <3>1, <4>1
    <3>2. CASE j \notin 1 .. n
      <4>1. log'[j].block = block
        BY <1>5, <3>2
      <4> QED
        BY <1>4, <1>7, <2>2, <4>1
    <3> QED
      BY <3>1, <3>2
  <2>4. \A o \in live : \E j \in 1 .. n : Adds(log', j, o)
    BY <1>1, <1>8 DEF Ordered
  <2>5. ASSUME NEW i \in 1 .. n + q, Kind(log', i) = "TakeOrderV4"
        PROVE  \E j \in 1 .. i : Adds(log', j, log'[i].e.order)
    <3>1. CASE i \in 1 .. n
      <4>1. log'[i] = log[i]
        BY <1>2, <3>1
      <4>2. PICK j \in 1 .. i : Adds(log, j, log[i].e.order)
        BY <1>1, <2>5, <3>1, <4>1 DEF Ordered, Kind
      <4>3. j \in 1 .. n
        BY <1>1, <3>1
      <4> QED
        BY <1>8, <4>1, <4>2, <4>3
    <3>2. CASE i \notin 1 .. n
      <4>1. log'[i].e.order \in live
        BY <1>5, <2>5, <3>2 DEF Fits, Kind, q
      <4>2. PICK j \in 1 .. n : Adds(log', j, log'[i].e.order)
        BY <2>4, <4>1
      <4>3. j \in 1 .. i
        BY <1>1, <3>2
      <4> QED
        BY <4>2, <4>3
    <3> QED
      BY <3>1, <3>2
  <2>6. ASSUME NEW o \in l PROVE \E j \in 1 .. n + q : Adds(log', j, o)
    <3>1. CASE o \in live
      BY <1>6, <2>4, <3>1
    <3>2. CASE o \notin live
      <4>1. PICK i \in 1 .. q : events[i].kind = "AddOrderV3" /\ events[i].order = o
        BY <3>2 DEF Fits, q
      <4>2. n + i \in 1 .. n + q
        BY <1>1
      <4>3. log'[n + i].e = events[i]
        <5>1. log'[n + i] = At(events[i])
          BY <1>3
        <5> QED
          BY <5>1 DEF At
      <4> QED
        BY <4>1, <4>2, <4>3 DEF Adds, Kind
    <3> QED
      BY <3>1, <3>2
  <2> QED
    BY <1>2, <1>4, <2>1, <2>2, <2>3, <2>5, <2>6 DEF Ordered
<1>10. Tables'
  <2>1. db.mark \in Nat /\ db.mark < block
    BY DEF Tables
  <2>2. /\ RowsUpTo(db.mark)' = RowsUpTo(db.mark)
        /\ \A i \in DOMAIN log : RowDeltas(log', i) = RowDeltas(log, i)
    BY EmitKeeps
  <2>3. RowsUpTo(db.mark) \subseteq DOMAIN log
    BY DEF RowsUpTo
  <2>4. DeltasOf(log', RowsUpTo(db.mark)) = DeltasOf(log, RowsUpTo(db.mark))
    BY <2>2, <2>3 DEF DeltasOf
  <2> QED
    BY <1>4, <2>1, <2>2, <2>4 DEF Tables
<1> QED
  BY <1>9, <1>10

\* An operation of the contract emits its events.
Emits == \E E, events, v, d, l : events \in Seq(E) /\ Emit(events, v, d, l) /\ Fits(events, l)

LEMMA OperationEmits ==
    ASSUME Contract, ~NewTransaction, ~Mine
    PROVE  Emits
<1>1. ASSUME NEW e, NEW v, NEW d, NEW l, Emit(<<e>>, v, d, l),
             e.kind = "TakeOrderV4" => e.order \in live,
             \A o \in l : o \in live \/ (e.kind = "AddOrderV3" /\ e.order = o)
      PROVE  Emits
  <2> DEFINE events == <<e>>
  <2>1. events \in Seq({e}) /\ Len(events) = 1 /\ events[1] = e
    OBVIOUS
  <2>2. Emit(events, v, d, l)
    BY <1>1
  <2> HIDE DEF events
  <2>3. Fits(events, l)
    <3>1. 1 \in 1 .. 1 /\ \A i \in 1 .. 1 : i = 1
      OBVIOUS
    <3> QED
      BY <1>1, <2>1, <3>1 DEF Fits
  <2> QED
    BY <2>1, <2>2, <2>3 DEF Emits
<1>2. ASSUME NEW k \in Keys, NEW amount \in Deposits, deposit5(k, amount)
      PROVE  Emits
  <2> DEFINE e == [kind |-> "DepositV2", key |-> k, amount |-> Pulled(amount)]
             v == Moved(vaults, k, amount)
             d == Moved(dust, k, Pulled(amount) - amount)
  <2>1. Emit(<<e>>, v, d, live)
    BY <1>2 DEF deposit5
  <2>2. e.kind = "DepositV2"
    OBVIOUS
  <2> HIDE DEF e, v, d
  <2> QED
    BY <1>1, <2>1, <2>2
<1>3. ASSUME NEW k \in Keys, NEW target \in Deposits, withdraw5(k, target)
      PROVE  Emits
  <2> DEFINE a == IF target < vaults[k] THEN target ELSE vaults[k]
             e == [kind |-> "WithdrawV2", key |-> k, amount |-> a]
             v == Moved(vaults, k, -a)
  <2>1. Emit(<<e>>, v, dust, live)
    BY <1>3 DEF withdraw5
  <2>2. e.kind = "WithdrawV2"
    OBVIOUS
  <2> HIDE DEF e, v
  <2> QED
    BY <1>1, <2>1, <2>2
<1>4. ASSUME NEW o \in Orders, addOrder5(o)
      PROVE  Emits
  <2> DEFINE e == [kind |-> "AddOrderV3", order |-> o]
             l == live \cup {o}
  <2>1. Emit(<<e>>, vaults, dust, l)
    BY <1>4 DEF addOrder5
  <2>2. e.kind = "AddOrderV3" /\ e.order = o /\ \A p \in l : p \in live \/ p = o
    OBVIOUS
  <2> HIDE DEF e, l
  <2> QED
    BY <1>1, <2>1, <2>2
<1>5. ASSUME NEW o \in Orders, removeOrder4(o)
      PROVE  Emits
  <2> DEFINE e == [kind |-> "RemoveOrderV3", order |-> o]
             l == live \ {o}
  <2>1. Emit(<<e>>, vaults, dust, l)
    BY <1>5 DEF removeOrder4
  <2>2. e.kind = "RemoveOrderV3" /\ \A p \in l : p \in live
    OBVIOUS
  <2> HIDE DEF e, l
  <2> QED
    BY <1>1, <2>1, <2>2
<1>6. ASSUME NEW o \in Orders, NEW t \in Takes, takeOrder(o, t[1], t[2])
      PROVE  Emits
  <2> DEFINE e == [kind |-> "TakeOrderV4", order |-> o, input |-> t[1], output |-> t[2]]
             v == Moved(Moved(vaults, OutKey(o), -t[1]), InKey(o), t[2])
  <2>1. Emit(<<e>>, v, dust, live) /\ o \in live
    BY <1>6 DEF takeOrder
  <2>2. e.kind = "TakeOrderV4" /\ e.order = o
    OBVIOUS
  <2> HIDE DEF e, v
  <2> QED
    BY <1>1, <2>1, <2>2
<1>7. ASSUME NEW alice \in Orders, NEW bob \in Orders, NEW sender \in Senders,
             NEW w \in Bounties, NEW s \in ClearStates, clear4(alice, bob, sender, w, s)
      PROVE  Emits
  <2> DEFINE c == [kind |-> "ClearV3", alice |-> alice, bob |-> bob, sender |-> sender, bounties |-> w]
             e == [kind |-> "AfterClearV2", sender |-> sender, change |-> s]
             events == <<c, e>>
  <2>1. PICK v : Emit(events, v, dust, live)
    BY <1>7 DEF clear4
  <2>2. c.kind = "ClearV3" /\ e.kind = "AfterClearV2"
    OBVIOUS
  <2> HIDE DEF c, e
  <2>3. events \in Seq({c, e}) /\ Len(events) = 2 /\ events[1] = c /\ events[2] = e
    OBVIOUS
  <2> HIDE DEF events
  <2>4. Fits(events, live)
    <3>1. \A i \in 1 .. 2 : i = 1 \/ i = 2
      OBVIOUS
    <3> QED
      BY <2>2, <2>3, <3>1 DEF Fits
  <2> QED
    BY <2>1, <2>3, <2>4 DEF Emits
<1> QED
  BY <1>2, <1>3, <1>4, <1>5, <1>6, <1>7 DEF Contract

LEMMA EmptySum == \A k : SumAt({}, k) = 0
<1>1. \A k : {d \in {} : d.key = k} = {}
  OBVIOUS
<1>2. Changes({})
  BY FS_EmptySet DEF Changes
<1>3. SumOf({}) = 0
  BY <1>2, SumStep
<1> QED
  BY <1>1, <1>3 DEF SumAt

LEMMA InitTables == Init => Ordered /\ Tables
<1> SUFFICES ASSUME Init PROVE Ordered /\ Tables
  OBVIOUS
<1> DEFINE funded == [k \in Keys |-> IF k[3] # 0 /\ \E o \in Orders : k = OutKey(o) THEN 2 * Unit ELSE 0]
           fund == {k \in Keys : funded[k] # 0}
           n == Cardinality(Orders)
           f == Cardinality(fund)
           adds == CHOOSE b \in Bijection(1 .. n, Orders) : TRUE
           keys == CHOOSE b \in Bijection(1 .. f, fund) : TRUE
           entry(i) == [block |-> 1, tx |-> i,
                        e |-> IF i <= n THEN [kind |-> "AddOrderV3", order |-> adds[i]]
                              ELSE [kind |-> "DepositV2", key |-> keys[i - n], amount |-> 2 * Unit]]
<1>1. /\ live = Orders /\ log = [i \in 1 .. n + f |-> entry(i)] /\ block = 2
      /\ db = [mark |-> 0, deltas |-> {}, history |-> {}, balance |-> [k \in Keys |-> 0], trades |-> {}]
  BY DEF Init
<1>2. /\ n \in Nat /\ adds \in [1 .. n -> Orders]
      /\ \A x \in Orders : \E j \in 1 .. n : adds[j] = x
  BY IndexersAssumption, Counted
<1>3. f \in Nat
  <2>1. fund \subseteq {OutKey(o) : o \in Orders}
    OBVIOUS
  <2> HIDE DEF fund
  <2> QED
    BY <2>1, FundedFinite, Counted
<1>4. n > 0
  BY <1>2, IndexersAssumption
<1>5. \A i \in 1 .. n + f :
         /\ entry(i).block = 1
         /\ i <= n => entry(i).e.kind = "AddOrderV3" /\ entry(i).e.order = adds[i]
         /\ ~(i <= n) => entry(i).e.kind = "DepositV2"
  OBVIOUS
<1> HIDE DEF fund, funded, n, f, adds, keys, entry
<1>6. /\ DOMAIN log = 1 .. n + f /\ \A i \in 1 .. n + f : log[i] = entry(i)
      /\ n + f \in Nat /\ n + f > 0
  BY <1>1, <1>2, <1>3, <1>4
<1>7. Replays
  BY InitIndexed DEF IndexInv
<1>8. Len(log) > 0
  <2>1. Len(log) \in Nat /\ DOMAIN log = 1 .. Len(log)
    BY <1>7, LogFields
  <2>2. 1 \in DOMAIN log
    BY <1>6
  <2> QED
    BY <2>1, <2>2
<1>9. \A i \in 1 .. n : i \in 1 .. n + f /\ Adds(log, i, adds[i])
  <2> TAKE i \in 1 .. n
  <2>1. i \in 1 .. n + f /\ i <= n
    BY <1>2, <1>3
  <2> QED
    BY <1>5, <1>6, <2>1 DEF Adds, Kind
<1>10. \A i \in 1 .. n + f : log[i].block = 1 /\ Kind(log, i) # "TakeOrderV4"
  BY <1>5, <1>6 DEF Kind
<1>11. Ordered
  <2>1. 1 \in 1 .. n + f
    BY <1>6
  <2>2. \A o \in live : \E j \in DOMAIN log : Adds(log, j, o)
    BY <1>1, <1>2, <1>6, <1>9
  <2>3. /\ block \in Nat /\ log[1].block = 1
        /\ \A i \in DOMAIN log : log[i].block \in 1 .. block
        /\ \A i, j \in DOMAIN log : i <= j => log[i].block <= log[j].block
    <3>1. block = 2 /\ \A i \in DOMAIN log : log[i].block = 1
      BY <1>1, <1>6, <1>10
    <3>2. 1 \in DOMAIN log
      BY <1>6, <2>1
    <3> QED
      BY <3>1, <3>2
  <2> QED
    BY <1>6, <1>8, <1>10, <2>2, <2>3, Zenon DEF Ordered
<1>12. Tables
  <2>1. RowsUpTo(0) = {} /\ DeltasOf(log, {}) = {}
    BY <1>7, <1>11, NoRows
  <2>2. db.mark = 0 /\ db.deltas = {} /\ \A k \in Keys : db.balance[k] = 0
    BY <1>1
  <2> QED
    BY <1>1, <2>1, <2>2, EmptySum DEF Tables
<1> QED
  BY <1>11, <1>12

LEMMA TablesNext == IndexInv /\ Ordered /\ Tables /\ [Next]_vars => Ordered' /\ Tables'
<1> SUFFICES ASSUME IndexInv, Ordered, Tables, [Next]_vars PROVE Ordered' /\ Tables'
  OBVIOUS
<1>1. ASSUME UNCHANGED <<log, live, db>>, block' = block \/ (block' = block + 1)
      PROVE  Ordered' /\ Tables'
  <2>1. block \in Nat /\ block' \in Nat /\ block <= block'
    BY <1>1 DEF Ordered
  <2>2. \A i \in DOMAIN log : log[i].block \in 1 .. block'
    BY <2>1 DEF Ordered
  <2>3. Ordered'
    BY <1>1, <2>1, <2>2 DEF Ordered, Adds, Kind
  <2>4. db.mark \in Nat /\ db.mark < block'
    BY <2>1 DEF Tables
  <2>5. RowsUpTo(db.mark)' = RowsUpTo(db.mark)
    BY <1>1 DEF RowsUpTo
  <2> QED
    BY <1>1, <2>3, <2>4, <2>5 DEF Tables
<1>2. CASE Contract /\ ~NewTransaction /\ ~Mine
  BY <1>2, OperationEmits, EmitTables DEF Emits, IndexInv
<1>3. CASE NewTransaction
  BY <1>1, <1>3 DEF NewTransaction
<1>4. CASE Mine
  BY <1>1, <1>4 DEF Mine
<1>5. CASE Subgraph
  <2>1. UNCHANGED <<contract, db>>
    BY <1>5 DEF Subgraph, handleDeposit, handleWithdraw, handleAddOrder, handleRemoveOrder,
       handleTakeOrder, handleClear, handleAfterClear, Indexed
  <2> QED
    BY <1>1, <2>1 DEF contract
<1>6. CASE \E target \in 1 .. MaxBlock : SyncWindow(target)
  BY <1>6, WindowSynced DEF IndexInv
<1>7. CASE UNCHANGED vars
  BY <1>1, <1>7 DEF vars
<1> QED
  BY <1>2, <1>3, <1>4, <1>5, <1>6, <1>7 DEF Next

\* However the blocks are cut into windows (SyncWindow: vault_deltas.sql and the statements
\* that derive tables from it), the local DB's balances and active orders at its watermark
\* are the contract's, up to the rounding of deposits.
THEOREM LocalAlwaysAgrees == Spec => []LocalAgrees
<1> DEFINE Inv == IndexInv /\ Ordered /\ Tables
<1>1. Init => Inv
  BY InitIndexed, InitTables
<1>2. Inv /\ [Next]_vars => Inv'
  BY IndexNext, TablesNext
<1>3. Inv => LocalAgrees
  BY TablesImply DEF IndexInv
<1> HIDE DEF Inv
<1> QED
  BY <1>1, <1>2, <1>3, PTL DEF Spec

-----------------------------------------------------------------------------
(* The local DB's trades                                                   *)

\* The sides of a trade at the row i.
Sides(l, i) ==
    CASE l[i].e.kind = "TakeOrderV4" -> {<<i, "take", l[i].e.order>>}
      [] l[i].e.kind = "ClearV3" -> {<<i, "alice", l[i].e.alice>>, <<i, "bob", l[i].e.bob>>}
      [] OTHER -> {}

SidesOf(l, rows) == UNION {Sides(l, i) : i \in rows}

\* No other change is at the place and the vault of d.
Alone(deltas, d) == \A x \in deltas : x.key = d.key /\ x.row = d.row => x = d

\* Where a vault changes once, the change shows the sum of all changes up to there.
History ==
    /\ \A h \in db.history : h.row \in RowsUpTo(db.mark)
    /\ \A d \in db.deltas : Alone(db.deltas, d) =>
           RunningAt(db.history, d.key, d.row) = {SumAt(DeltasOf(log, 1 .. d.row), d.key)}

\* Every side has the trade with the balances that the changes show.
Trades ==
    db.trades = {Trade(db.history, s[1], s[2], s[3]) : s \in SidesOf(log, RowsUpTo(db.mark))}

LEMMA SidesAt ==
    ASSUME NEW l, NEW i
    PROVE  /\ Kind(l, i) = "TakeOrderV4" => Sides(l, i) = {<<i, "take", l[i].e.order>>}
           /\ Kind(l, i) = "ClearV3" =>
                 Sides(l, i) = {<<i, "alice", l[i].e.alice>>, <<i, "bob", l[i].e.bob>>}
           /\ Kind(l, i) \notin {"TakeOrderV4", "ClearV3"} => Sides(l, i) = {}
           /\ IsFiniteSet(Sides(l, i))
           /\ \A s \in Sides(l, i) : s[1] = i /\ s = <<s[1], s[2], s[3]>>
<1> DEFINE t == <<i, "take", l[i].e.order>>
           a == <<i, "alice", l[i].e.alice>>
           b == <<i, "bob", l[i].e.bob>>
<1>1. CASE Kind(l, i) = "TakeOrderV4"
  <2>1. Sides(l, i) = {t}
    BY <1>1 DEF Sides, Kind
  <2>2. IsFiniteSet({t})
    BY FS_Singleton
  <2> QED
    BY <1>1, <2>1, <2>2
<1>2. CASE Kind(l, i) = "ClearV3"
  <2>1. Sides(l, i) = {a, b}
    BY <1>2 DEF Sides, Kind
  <2>2. IsFiniteSet({a, b})
    <3> HIDE DEF a, b
    <3>1. IsFiniteSet({a}) /\ IsFiniteSet({b}) /\ {a, b} = {a} \cup {b}
      BY FS_Singleton
    <3> QED
      BY <3>1, FS_Union
  <2> QED
    BY <1>2, <2>1, <2>2
<1>3. CASE Kind(l, i) \notin {"TakeOrderV4", "ClearV3"}
  <2>1. Sides(l, i) = {}
    BY <1>3 DEF Sides, Kind
  <2> QED
    BY <1>3, <2>1, FS_EmptySet
<1> QED
  BY <1>1, <1>2, <1>3

LEMMA RowTally ==
    ASSUME Replays, NEW i \in DOMAIN log
    PROVE  /\ Changes(DeltasOf(log, 1 .. i))
           /\ \A k \in Keys : Wallet(k) \/ SumAt(DeltasOf(log, 1 .. i), k) = after[i].balance[k]
<1>1. Len(log) \in Nat /\ DOMAIN log = 1 .. Len(log)
  BY LogFields
<1>2. CASE Kind(log, i) # "ClearV3"
  <2>1. i \in 0 .. Len(log) /\ i + 1 # 1 /\ (i + 1) - 1 = i
    BY <1>1
  <2>2. Tallies(i)
    BY <1>2, <2>1, AllTally
  <2> QED
    BY <2>1, <2>2 DEF Tallies, Before
<1>3. CASE Kind(log, i) = "ClearV3"
  <2> DEFINE j == i + 1
  <2>1. j \in DOMAIN log /\ Clears(log[i], log[j], after[i - 1], after[j]) /\ after[i] = after[j]
    BY <1>3, ClearAt DEF Kind
  <2>2. Kind(log, j) = "AfterClearV2"
    BY <2>1 DEF Clears, Kind
  <2>3. j \in 0 .. Len(log) /\ j + 1 # 1 /\ (j + 1) - 1 = j /\ j - 1 = i /\ j \in Nat /\ j > 0
    BY <1>1, <2>1
  <2> HIDE DEF j
  <2>4. Tallies(j)
    BY <2>2, <2>3, AllTally
  <2>5. DeltasOf(log, 1 .. j) = DeltasOf(log, 1 .. j - 1) \cup RowDeltas(log, j)
    BY <2>3, DeltasGrow
  <2>6. RowDeltas(log, j) = {}
    BY <2>2, RowOf
  <2>7. DeltasOf(log, 1 .. j) = DeltasOf(log, 1 .. i)
    BY <2>3, <2>5, <2>6
  <2> QED
    BY <2>1, <2>3, <2>4, <2>7 DEF Tallies, Before
<1> QED
  BY <1>2, <1>3

\* The running balance of a change that is alone.
LEMMA AloneSum ==
    ASSUME Replays, NEW m \in 1 .. Len(log), NEW i \in 1 .. m, NEW d \in RowDeltas(log, i),
           Alone(DeltasOf(log, 1 .. m), d), NEW start
    PROVE  running_balance(DeltasOf(log, 1 .. m), d, start) = SumAt(DeltasOf(log, 1 .. i), d.key)
<1> DEFINE D == DeltasOf(log, 1 .. m)
           T == DeltasOf(log, 1 .. i)
           R == {x \in T : x.key = d.key}
           Q == {x \in D : x.key = d.key /\ x.row < d.row}
<1>1. Len(log) \in Nat /\ DOMAIN log = 1 .. Len(log) /\ i \in DOMAIN log /\ m \in Nat
  BY LogFields
<1>2. \A j, x : x \in RowDeltas(log, j) => x.row = j
  BY RowOf
<1>3. Changes(T)
  BY <1>1, RowTally
<1>4. d.row = i /\ d \in T /\ d \in D
  BY <1>1, <1>2 DEF DeltasOf
<1>5. \A x : x \in T <=> x \in D /\ x.row <= i
  BY <1>1, <1>2 DEF DeltasOf
<1>6. \A x \in D : x.row \in 1 .. m
  BY <1>2 DEF DeltasOf
<1>7. R \ {d} = Q
  <2>1. \A x \in R \ {d} : x \in Q
    <3> TAKE x \in R \ {d}
    <3>1. x \in D /\ x.row <= i /\ x.key = d.key /\ x # d
      BY <1>5
    <3>2. x.row # i
      BY <1>4, <3>1 DEF Alone
    <3> QED
      BY <1>1, <1>4, <1>6, <3>1, <3>2
  <2>2. \A x \in Q : x \in R \ {d}
    <3> TAKE x \in Q
    <3>1. x \in D /\ x.row < i /\ x.key = d.key /\ x.row \in 1 .. m
      BY <1>4, <1>6
    <3>2. x.row <= i /\ x # d
      BY <1>1, <1>4, <3>1
    <3> QED
      BY <1>5, <3>1, <3>2
  <2> QED
    BY <2>1, <2>2
<1>8. R \in SUBSET T /\ d \in R /\ Q \in SUBSET T
  BY <1>4, <1>7
<1> HIDE DEF R, Q, T, D
<1>9. SumOf(R) = SumOf(R \ {d}) + d.delta /\ SumOf(Q) \in Int /\ d.delta \in Int
  BY <1>3, <1>4, <1>8, SumStep DEF Changes
<1>10. running_balance(D, d, start) = d.delta + SumOf(Q)
  BY DEF running_balance, Q
<1>11. SumAt(T, d.key) = SumOf(R)
  BY DEF SumAt, R
<1>12. SumOf(R) = d.delta + SumOf(Q)
  <2>1. SumOf(R) = SumOf(Q) + d.delta
    BY <1>7, <1>9
  <2> QED
    BY <1>9, <2>1
<1> QED
  BY <1>10, <1>11, <1>12 DEF D, T

LEMMA ChangesOf ==
    ASSUME NEW deltas, NEW new, NEW start, NEW changes \in BalanceChanges(deltas, new, start)
    PROVE  /\ \A h \in changes : \E d \in new :
                 /\ h.row = d.row /\ h.key = d.key
                 /\ h.running = running_balance(deltas, d, start)
           /\ \A d \in new : Alone(new, d) => \E h \in changes :
                 /\ h.row = d.row /\ h.key = d.key
                 /\ h.running = running_balance(deltas, d, start)
<1> DEFINE same(d) == {x \in new : x.key = d.key /\ x.row = d.row}
           tied == {d \in new : same(d) # {d}}
           row(d) == [row |-> d.row, key |-> d.key, delta |-> d.delta,
                      running |-> running_balance(deltas, d, start)]
           sets == {same(d) : d \in tied}
<1>1. PICK first \in Choices(sets) : changes = {row(d) : d \in (new \ tied) \cup first}
  BY DEF BalanceChanges
<1>2. PICK g \in [sets -> UNION sets] : first = Range(g)
  BY <1>1 DEF Choices
<1>3. first \subseteq new
  <2>1. UNION sets \subseteq new
    OBVIOUS
  <2> HIDE DEF sets
  <2> QED
    BY <1>2, <2>1 DEF Range
<1>4. \A d \in new : Alone(new, d) => d \notin tied
  BY DEF Alone
<1>5. \A d : row(d).row = d.row /\ row(d).key = d.key /\ row(d).running = running_balance(deltas, d, start)
  OBVIOUS
<1> HIDE DEF row, tied
<1> QED
  BY <1>1, <1>3, <1>4, <1>5

\* A trade changes the vaults of its order.
LEMMA SideDelta ==
    ASSUME Replays, NEW i \in DOMAIN log, NEW s \in Sides(log, i), NEW k \in {InKey(s[3]), OutKey(s[3])}
    PROVE  k \in Keys /\ \E d \in RowDeltas(log, i) : d.row = i /\ d.key = k
<1> DEFINE e == log[i].e
<1>1. CASE Kind(log, i) = "TakeOrderV4"
  <2>1. s[3] = e.order
    BY <1>1, SidesAt
  <2>2. e.order \in Orders
    BY <1>1, NamedOrder
  <2>3. RowDeltas(log, i) = TakeRow(i, e)
    BY <1>1, RowOf
  <2> HIDE DEF e
  <2>4. \E d \in TakeRow(i, e) : d.row = i /\ d.key = InKey(e.order)
    BY DeltaFields DEF TakeRow
  <2>5. \E d \in TakeRow(i, e) : d.row = i /\ d.key = OutKey(e.order)
    BY DeltaFields DEF TakeRow
  <2> QED
    BY <2>1, <2>2, <2>3, <2>4, <2>5, OrderKeys
<1>2. CASE Kind(log, i) = "ClearV3"
  <2> DEFINE c == log[i + 1].e.change
  <2>1. s[3] = e.alice \/ s[3] = e.bob
    BY <1>2, SidesAt
  <2>2. e.alice \in Orders /\ e.bob \in Orders
    BY <1>2, ClearAt DEF Kind, Clears
  <2>3. ClearRow(i, e, c) \subseteq RowDeltas(log, i)
    BY <1>2, RowOf
  <2> HIDE DEF e, c
  <2>4. \E d \in ClearRow(i, e, c) : d.row = i /\ d.key = InKey(e.alice)
    BY DeltaFields DEF ClearRow
  <2>5. \E d \in ClearRow(i, e, c) : d.row = i /\ d.key = OutKey(e.alice)
    BY DeltaFields DEF ClearRow
  <2>6. \E d \in ClearRow(i, e, c) : d.row = i /\ d.key = InKey(e.bob)
    BY DeltaFields DEF ClearRow
  <2>7. \E d \in ClearRow(i, e, c) : d.row = i /\ d.key = OutKey(e.bob)
    BY DeltaFields DEF ClearRow
  <2> QED
    BY <2>1, <2>2, <2>3, <2>4, <2>5, <2>6, <2>7, OrderKeys
<1> QED
  BY <1>1, <1>2, SidesAt

LEMMA TradeFields ==
    ASSUME NEW h, NEW s, s = <<s[1], s[2], s[3]>>
    PROVE  LET t == Trade(h, s[1], s[2], s[3])
           IN  /\ <<t.row, t.side, t.order>> = s /\ t.row = s[1] /\ t.order = s[3]
               /\ t.input = RunningAt(h, InKey(s[3]), s[1]) /\ t.output = RunningAt(h, OutKey(s[3]), s[1])
  BY DEF Trade

LEMMA TradesImply ==
    ASSUME Replays, Ordered, Tables, History, Trades
    PROVE  TradesReplay
<1> DEFINE rows == RowsUpTo(db.mark)
           S == SidesOf(log, rows)
           h == db.history
           trade(s) == Trade(h, s[1], s[2], s[3])
           side(t) == <<t.row, t.side, t.order>>
           shows(t, k, shown) ==
               \/ Wallet(k)
               \/ \E x, y \in db.deltas : x # y /\ x.row = t.row /\ y.row = t.row /\ x.key = k /\ y.key = k
               \/ shown = {after[t.row].balance[k]}
<1>1. rows \subseteq DOMAIN log
  BY DEF RowsUpTo
<1>2. db.trades = {trade(s) : s \in S}
  BY DEF Trades
<1>3. \A s \in S : s = <<s[1], s[2], s[3]>> /\ s[1] \in rows /\ s \in Sides(log, s[1])
  <2> SUFFICES ASSUME NEW i \in rows, NEW s \in Sides(log, i)
               PROVE  s = <<s[1], s[2], s[3]>> /\ s[1] \in rows /\ s \in Sides(log, s[1])
    BY DEF SidesOf
  <2> QED
    BY SidesAt
<1>4. \A s \in S : /\ side(trade(s)) = s /\ trade(s).row = s[1] /\ trade(s).order = s[3]
                   /\ trade(s).input = RunningAt(h, InKey(s[3]), s[1])
                   /\ trade(s).output = RunningAt(h, OutKey(s[3]), s[1])
  BY <1>3, TradeFields
<1>5. IsFiniteSet(S)
  <2>1. IsFiniteSet(rows)
    <3>1. DOMAIN log = 1 .. Len(log) /\ Len(log) \in Nat
      BY LogFields
    <3>2. IsFiniteSet(1 .. Len(log))
      BY <3>1, FS_Interval
    <3> QED
      BY <1>1, <3>1, <3>2, FS_Subset
  <2> DEFINE F == {Sides(log, i) : i \in rows}
             g == [i \in rows |-> Sides(log, i)]
  <2>2. g \in Surjection(rows, F)
    BY DEF Surjection
  <2> HIDE DEF g
  <2>3. IsFiniteSet(F)
    <3> HIDE DEF F, rows
    <3> QED
      BY <2>1, <2>2, FS_Surjection
  <2>4. \A T \in F : IsFiniteSet(T)
    BY SidesAt
  <2>5. S = UNION F
    BY DEF SidesOf
  <2> HIDE DEF F, S
  <2> QED
    BY <2>3, <2>4, <2>5, FS_UNION
<1>6. {side(t) : t \in db.trades} = S
  <2> HIDE DEF S, trade, side
  <2> QED
    BY <1>2, <1>4
<1>7. Cardinality(db.trades) = Cardinality(S)
  <2> DEFINE g == [s \in S |-> trade(s)]
  <2>1. g \in Bijection(S, db.trades)
    <3> HIDE DEF S, trade, side
    <3>1. g \in [S -> db.trades] /\ \A s \in S : g[s] = trade(s)
      BY <1>2
    <3>2. \A s, z \in S : g[s] = g[z] => s = z
      BY <1>4, <3>1
    <3>3. \A t \in db.trades : \E s \in S : g[s] = t
      BY <1>2, <3>1
    <3> HIDE DEF g
    <3> QED
      BY <3>1, <3>2, <3>3 DEF Bijection, Injection, Surjection, IsInjective
  <2>2. ExistsBijection(S, db.trades)
    BY <2>1 DEF ExistsBijection
  <2> HIDE DEF S
  <2> QED
    BY <1>5, <2>2, FS_Bijection
<1>8. ASSUME NEW s \in S, NEW k \in {InKey(s[3]), OutKey(s[3])}
      PROVE  shows(trade(s), k, RunningAt(h, k, s[1]))
  <2> DEFINE i == s[1]
  <2>1. i \in rows /\ i \in DOMAIN log /\ s \in Sides(log, i) /\ trade(s).row = i
    BY <1>1, <1>3, <1>4
  <2>2. k \in Keys /\ \E d \in RowDeltas(log, i) : d.row = i /\ d.key = k
    BY <2>1, SideDelta
  <2>3. PICK d \in RowDeltas(log, i) : d.row = i /\ d.key = k
    BY <2>2
  <2>4. d \in db.deltas
    BY <2>1, <2>3 DEF Tables, DeltasOf
  <2>5. CASE Alone(db.deltas, d)
    <3>1. RunningAt(h, k, i) = {SumAt(DeltasOf(log, 1 .. i), k)}
      BY <2>3, <2>4, <2>5 DEF History
    <3>2. Wallet(k) \/ SumAt(DeltasOf(log, 1 .. i), k) = after[i].balance[k]
      BY <2>1, <2>2, RowTally
    <3> HIDE DEF trade, i
    <3>3. Wallet(k) \/ RunningAt(h, k, i) = {after[trade(s).row].balance[k]}
      BY <2>1, <3>1, <3>2
    <3> QED
      BY <3>3 DEF i
  <2>6. CASE ~Alone(db.deltas, d)
    <3>1. \E x \in db.deltas : x # d /\ x.row = i /\ x.key = k
      BY <2>3, <2>6 DEF Alone
    <3> HIDE DEF trade
    <3> QED
      BY <2>1, <2>3, <2>4, <3>1
  <2> QED
    BY <2>5, <2>6
<1>9. \A t \in db.trades : shows(t, InKey(t.order), t.input) /\ shows(t, OutKey(t.order), t.output)
  <2> HIDE DEF shows, trade, S
  <2> QED
    BY <1>2, <1>4, <1>8
<1>10. S = UNION {Sides(log, i) : i \in rows}
  BY DEF SidesOf
<1> HIDE DEF S
<1> QED
  BY <1>6, <1>7, <1>9, <1>10 DEF TradesReplay, Sides

LEMMA DerivedTrades ==
    ASSUME Replays, Ordered, NEW m \in 1 .. Len(log), Kind(log, m) # "ClearV3",
           NEW window \in SUBSET (1 .. m), NEW h
    PROVE  derived_trades(1 .. m, window, h) =
               {Trade(h, s[1], s[2], s[3]) : s \in SidesOf(log, window)}
<1> DEFINE takes == Rows(window, "TakeOrderV4")
           clears == Rows(window, "ClearV3")
           trade(s) == Trade(h, s[1], s[2], s[3])
           of(i) == {trade(s) : s \in Sides(log, i)}
<1>1. takes \subseteq Rows(1 .. m, "TakeOrderV4") /\ clears \subseteq Rows(1 .. m, "ClearV3")
  BY DEF Rows
<1>2. \A i \in takes : {Trade(h, i, "take", o) : o \in TakenOrder(1 .. m, i)} = of(i)
  <2> SUFFICES ASSUME NEW i \in takes
               PROVE  {Trade(h, i, "take", o) : o \in TakenOrder(1 .. m, i)} = of(i)
    OBVIOUS
  <2>1. TakenOrder(1 .. m, i) = {log[i].e.order}
    BY <1>1, TakenIs
  <2>2. Sides(log, i) = {<<i, "take", log[i].e.order>>}
    BY SidesAt DEF Rows, Kind
  <2>3. of(i) = {Trade(h, i, "take", log[i].e.order)}
    BY <2>2
  <2> QED
    BY <2>1, <2>3
<1>3. \A i \in clears : {Trade(h, i, "alice", log[i].e.alice), Trade(h, i, "bob", log[i].e.bob)} = of(i)
  <2> SUFFICES ASSUME NEW i \in clears
               PROVE  {Trade(h, i, "alice", log[i].e.alice), Trade(h, i, "bob", log[i].e.bob)} = of(i)
    OBVIOUS
  <2>1. Sides(log, i) = {<<i, "alice", log[i].e.alice>>, <<i, "bob", log[i].e.bob>>}
    BY SidesAt DEF Rows, Kind
  <2> QED
    BY <2>1
<1>4. {i \in clears : AfterOf(1 .. m, i) # {}} = clears
  BY <1>1, AfterIs
<1>5. TakeTrades(1 .. m, window, h) = UNION {of(i) : i \in takes}
  <2>1. TakeTrades(1 .. m, window, h) =
            UNION {{Trade(h, i, "take", o) : o \in TakenOrder(1 .. m, i)} : i \in takes}
    BY DEF TakeTrades
  <2> HIDE DEF takes, of
  <2> QED
    BY <1>2, <2>1
<1>6. ClearTrades(1 .. m, window, h) = UNION {of(i) : i \in clears}
  <2>1. ClearTrades(1 .. m, window, h) =
            UNION {{Trade(h, i, "alice", log[i].e.alice), Trade(h, i, "bob", log[i].e.bob)} :
                      i \in {i \in clears : AfterOf(1 .. m, i) # {}}}
    BY DEF ClearTrades
  <2> HIDE DEF clears, of
  <2> QED
    BY <1>3, <1>4, <2>1
<1>7. \A i \in window : i \notin takes \cup clears => Sides(log, i) = {}
  BY SidesAt DEF Rows, Kind
<1>8. takes \subseteq window /\ clears \subseteq window
  BY DEF Rows
<1> HIDE DEF takes, clears
<1>9. SidesOf(log, window) = UNION {Sides(log, i) : i \in takes \cup clears}
  BY <1>7, <1>8 DEF SidesOf
<1> HIDE DEF trade
<1>10. (UNION {of(i) : i \in takes}) \cup (UNION {of(i) : i \in clears}) = {trade(s) : s \in SidesOf(log, window)}
  BY <1>9
<1> QED
  BY <1>5, <1>6, <1>10 DEF derived_trades, trade

LEMMA WindowTraded ==
    ASSUME Replays, Ordered, Tables, History, Trades, NEW target \in 1 .. MaxBlock, SyncWindow(target)
    PROVE  History' /\ Trades'
<1> DEFINE rows == RowsUpTo(target)
           old == RowsUpTo(db.mark)
           window == rows \ old
           new == {d \in vault_deltas(rows) : d.row \in window}
           deltas == db.deltas \cup new
           start == db.mark + 1
<1>1. PICK changes \in BalanceChanges(deltas, new, start) :
          db' = [mark |-> target, deltas |-> deltas,
                 history |-> db.history \cup changes,
                 balance |-> running_vault_balances(deltas, new),
                 trades |-> db.trades \cup derived_trades(rows, window, db.history \cup changes)]
  BY DEF SyncWindow
<1> DEFINE h == db.history \cup changes
<1>2. /\ db'.mark = target /\ db'.deltas = deltas /\ db'.history = h
      /\ db'.trades = db.trades \cup derived_trades(rows, window, h)
  BY <1>1
<1>3. UNCHANGED log /\ db.mark < target
  BY DEF SyncWindow, contract
<1>4. target \in Nat /\ target > 0 /\ db.mark \in Nat
  BY IndexersAssumption DEF Tables
<1>5. RowsUpTo(db.mark)' = rows
  BY <1>2, <1>3 DEF RowsUpTo
<1>6. PICK m \in 1 .. Len(log) : rows = 1 .. m /\ Kind(log, m) # "ClearV3"
  BY <1>4, RowsAre
<1>7. vault_deltas(rows) = DeltasOf(log, rows)
  BY <1>4, ViewUpTo
<1>8. old \subseteq rows
  <2>1. \A i \in DOMAIN log : log[i].block \in Nat
    BY DEF Ordered
  <2> QED
    BY <1>3, <1>4, <2>1 DEF RowsUpTo
<1>9. \A i, d : d \in RowDeltas(log, i) => d.row = i
  BY RowOf
<1>10. db.deltas = DeltasOf(log, old)
  BY DEF Tables
<1>11. /\ \A d : d \in db.deltas <=> d.row \in old /\ d \in RowDeltas(log, d.row)
       /\ \A d : d \in new <=> d.row \in window /\ d \in RowDeltas(log, d.row)
       /\ \A d : d \in deltas <=> d.row \in rows /\ d \in RowDeltas(log, d.row)
  <2>1. \A R, d : d \in DeltasOf(log, R) <=> d.row \in R /\ d \in RowDeltas(log, d.row)
    BY <1>9 DEF DeltasOf
  <2> HIDE DEF rows, old
  <2>2. \A d : d \in new <=> d.row \in window /\ d \in RowDeltas(log, d.row)
    BY <1>7, <2>1
  <2>3. \A d : d \in db.deltas <=> d.row \in old /\ d \in RowDeltas(log, d.row)
    BY <1>10, <2>1
  <2> HIDE DEF new
  <2> QED
    BY <1>8, <2>2, <2>3
<1>12. deltas = DeltasOf(log, 1 .. m)
  <2>1. \A d : d \in DeltasOf(log, 1 .. m) <=> d.row \in 1 .. m /\ d \in RowDeltas(log, d.row)
    BY <1>9 DEF DeltasOf
  <2> HIDE DEF deltas, rows
  <2> QED
    BY <1>6, <1>11, <2>1
<1> HIDE DEF rows, old, new, deltas, start
<1>13. /\ \A x \in changes : \E d \in new :
              x.row = d.row /\ x.key = d.key /\ x.running = running_balance(deltas, d, start)
       /\ \A d \in new : Alone(new, d) => \E x \in changes :
              x.row = d.row /\ x.key = d.key /\ x.running = running_balance(deltas, d, start)
  BY <1>1, ChangesOf
<1>14. /\ \A x \in db.history : x.row \in old
       /\ \A d \in db.deltas : Alone(db.deltas, d) =>
              RunningAt(db.history, d.key, d.row) = {SumAt(DeltasOf(log, 1 .. d.row), d.key)}
  BY DEF History, old
<1>15. \A x \in changes : x.row \in window
  BY <1>11, <1>13
<1>16. \A x \in h : x.row \in rows
  BY <1>8, <1>14, <1>15
<1>17. \A k, i : i \in old => RunningAt(h, k, i) = RunningAt(db.history, k, i)
  <2> SUFFICES ASSUME NEW k, NEW i \in old
               PROVE  {x \in h : x.key = k /\ x.row = i} = {x \in db.history : x.key = k /\ x.row = i}
    BY DEF RunningAt
  <2> QED
    BY <1>15
<1>18. ASSUME NEW d \in deltas, Alone(deltas, d)
       PROVE  RunningAt(h, d.key, d.row) = {SumAt(DeltasOf(log, 1 .. d.row), d.key)}
  <2>1. CASE d.row \in old
    <3>1. d \in db.deltas
      BY <1>11, <2>1
    <3>2. Alone(db.deltas, d)
      BY <1>8, <1>11, <1>18 DEF Alone
    <3> QED
      BY <1>14, <1>17, <2>1, <3>1, <3>2
  <2>2. CASE d.row \notin old
    <3> DEFINE r == running_balance(deltas, d, start)
    <3>1. d.row \in window /\ d \in new /\ d.row \in 1 .. m /\ d \in RowDeltas(log, d.row)
      BY <1>6, <1>11, <2>2
    <3>2. Alone(new, d)
      BY <1>11, <1>18 DEF Alone
    <3>3. r = SumAt(DeltasOf(log, 1 .. d.row), d.key)
      BY <1>12, <1>18, <3>1, AloneSum
    <3>4. \E x \in changes : x.row = d.row /\ x.key = d.key /\ x.running = r
      BY <1>13, <3>1, <3>2
    <3>5. \A x \in h : x.row = d.row /\ x.key = d.key => x.running = r
      <4> SUFFICES ASSUME NEW x \in h, x.row = d.row, x.key = d.key PROVE x.running = r
        OBVIOUS
      <4>1. x \in changes
        BY <1>14, <2>2
      <4>2. PICK z \in new : x.row = z.row /\ x.key = z.key /\ x.running = running_balance(deltas, z, start)
        BY <1>13, <4>1
      <4>3. z = d
        BY <3>2, <4>2 DEF Alone
      <4> QED
        BY <4>2, <4>3
    <3> HIDE DEF r
    <3>6. RunningAt(h, d.key, d.row) = {r}
      BY <3>4, <3>5 DEF RunningAt
    <3> QED
      BY <3>3, <3>6
  <2> QED
    BY <2>1, <2>2
<1> HIDE DEF h
<1>19. History'
  BY <1>2, <1>3, <1>5, <1>16, <1>18 DEF History
<1>20. derived_trades(rows, window, h) = {Trade(h, s[1], s[2], s[3]) : s \in SidesOf(log, window)}
  <2>1. window \in SUBSET (1 .. m)
    BY <1>6
  <2> HIDE DEF window
  <2> QED
    BY <1>6, <2>1, DerivedTrades
<1>21. db.trades = {Trade(h, s[1], s[2], s[3]) : s \in SidesOf(log, old)}
  <2>1. db.trades = {Trade(db.history, s[1], s[2], s[3]) : s \in SidesOf(log, old)}
    BY DEF Trades, old
  <2>2. \A s \in SidesOf(log, old) : s[1] \in old
    BY SidesAt DEF SidesOf
  <2>3. \A s \in SidesOf(log, old) : Trade(h, s[1], s[2], s[3]) = Trade(db.history, s[1], s[2], s[3])
    BY <1>17, <2>2 DEF Trade
  <2> QED
    BY <2>1, <2>3
<1>22. SidesOf(log, rows) = SidesOf(log, old) \cup SidesOf(log, window)
  <2>1. rows = old \cup window
    BY <1>8
  <2> HIDE DEF window
  <2> QED
    BY <2>1 DEF SidesOf
<1>23. db'.trades = {Trade(h, s[1], s[2], s[3]) : s \in SidesOf(log, rows)}
  BY <1>2, <1>20, <1>21, <1>22
<1>24. Trades'
  BY <1>2, <1>3, <1>5, <1>23 DEF Trades
<1> QED
  BY <1>19, <1>24

LEMMA KeptTrades ==
    ASSUME Replays, Ordered, Tables, History, Trades, UNCHANGED db,
           RowsUpTo(db.mark)' = RowsUpTo(db.mark),
           \A i \in DOMAIN log : log'[i] = log[i] /\ RowDeltas(log', i) = RowDeltas(log, i)
    PROVE  History' /\ Trades'
<1> DEFINE rows == RowsUpTo(db.mark)
<1>1. rows \subseteq DOMAIN log
  BY DEF RowsUpTo
<1>2. ASSUME NEW d \in db.deltas
      PROVE  DeltasOf(log', 1 .. d.row) = DeltasOf(log, 1 .. d.row)
  <2>1. d.row \in DOMAIN log
    <3>1. \A i, x : x \in RowDeltas(log, i) => x.row = i
      BY RowOf
    <3> QED
      BY <1>1, <3>1 DEF Tables, DeltasOf
  <2>2. \A i \in 1 .. d.row : i \in DOMAIN log
    <3>1. DOMAIN log = 1 .. Len(log) /\ Len(log) \in Nat
      BY LogFields
    <3> QED
      BY <2>1, <3>1
  <2> QED
    BY <2>2 DEF DeltasOf
<1>3. \A i \in rows : Sides(log', i) = Sides(log, i)
  BY <1>1 DEF Sides
<1>4. SidesOf(log', rows) = SidesOf(log, rows)
  BY <1>3 DEF SidesOf
<1>5. History'
  BY <1>2 DEF History
<1>6. Trades'
  BY <1>4 DEF Trades
<1> QED
  BY <1>5, <1>6

LEMMA TradesNext ==
    IndexInv /\ Ordered /\ Tables /\ History /\ Trades /\ [Next]_vars => History' /\ Trades'
<1> SUFFICES ASSUME IndexInv, Ordered, Tables, History, Trades, [Next]_vars PROVE History' /\ Trades'
  OBVIOUS
<1>1. Replays
  BY DEF IndexInv
<1>2. ASSUME UNCHANGED <<log, db>> PROVE History' /\ Trades'
  <2>1. RowsUpTo(db.mark)' = RowsUpTo(db.mark)
    BY <1>2 DEF RowsUpTo
  <2> QED
    BY <1>1, <1>2, <2>1, KeptTrades
<1>3. CASE Contract /\ ~NewTransaction /\ ~Mine
  <2>1. PICK E, events, v, d, l : events \in Seq(E) /\ Emit(events, v, d, l)
    BY <1>3, OperationEmits DEF Emits
  <2>2. UNCHANGED db
    BY <2>1 DEF Emit
  <2> QED
    BY <1>1, <2>1, <2>2, EmitKeeps, KeptTrades
<1>4. CASE NewTransaction \/ Mine
  BY <1>2, <1>4 DEF NewTransaction, Mine
<1>5. CASE Subgraph
  <2>1. UNCHANGED <<contract, db>>
    BY <1>5 DEF Subgraph, handleDeposit, handleWithdraw, handleAddOrder, handleRemoveOrder,
       handleTakeOrder, handleClear, handleAfterClear, Indexed
  <2> QED
    BY <1>2, <2>1 DEF contract
<1>6. CASE \E target \in 1 .. MaxBlock : SyncWindow(target)
  BY <1>1, <1>6, WindowTraded
<1>7. CASE UNCHANGED vars
  BY <1>2, <1>7 DEF vars
<1> QED
  BY <1>3, <1>4, <1>5, <1>6, <1>7 DEF Next

LEMMA InitTrades == Init => History /\ Trades
<1> SUFFICES ASSUME Init PROVE History /\ Trades
  OBVIOUS
<1>1. db.mark = 0 /\ db.deltas = {} /\ db.history = {} /\ db.trades = {}
  BY DEF Init
<1>2. RowsUpTo(0) = {}
  BY InitIndexed, InitTables, NoRows DEF IndexInv
<1> QED
  BY <1>1, <1>2 DEF History, Trades, SidesOf

\* Every take and both sides of every clear up to the watermark have exactly one trade in
\* the local DB (derived_trades), of the order that was traded, and it shows the balances
\* of the order's vaults after the event, unless the same event changed that vault twice:
\* however the blocks are cut into windows, and whichever of tied changes is kept.
THEOREM TradesAlwaysReplay == Spec => []TradesReplay
<1> DEFINE Inv == IndexInv /\ Ordered /\ Tables /\ History /\ Trades
<1>1. Init => Inv
  BY InitIndexed, InitTables, InitTrades
<1>2. Inv /\ [Next]_vars => Inv'
  BY IndexNext, TablesNext, TradesNext
<1>3. Inv => TradesReplay
  BY TradesImply DEF IndexInv
<1> HIDE DEF Inv
<1> QED
  BY <1>1, <1>2, <1>3, PTL DEF Spec
=============================================================================
