----------------------- MODULE TakeOrdersClientProofs -----------------------
(***************************************************************************)
(* Calldata that the take-orders client hands out goes through, for all    *)
(* requests, quotes and failures of an RPC; and a buyer gets the best of   *)
(* the orders that do not revert.                                          *)
(*                                                                         *)
(* simulate_candidates is a fold, a recursive function over the subsets of *)
(* its candidates.  That the recursion has a solution, and what holds of   *)
(* it, is shown by a smallest counterexample.                              *)
(***************************************************************************)
EXTENDS TakeOrdersClient, FiniteSetTheorems, NaturalsInduction, TLAPS

-----------------------------------------------------------------------------
(* Smallest and largest elements                                           *)

LEMMA SmallestOf ==
    ASSUME NEW T, T \subseteq Nat, T # {}
    PROVE  \E x \in T : \A y \in T : x <= y
<1> DEFINE less == {p \in Nat \X Nat : p[1] < p[2]}
<1>1. IsWellFoundedOn(less, Nat)
  BY NatLessThanWellFounded, Zenon DEF OpToRel
<1>2. \A x, y \in Nat : ~(<<y, x>> \in less) => x <= y
  OBVIOUS
<1> HIDE DEF less
<1>3. \E x \in T : \A y \in T : ~(<<y, x>> \in less)
  BY <1>1, WFMin
<1> QED
  BY <1>2, <1>3, Zenon

LEMMA SmallestSet ==
    ASSUME NEW F, F # {}, \A s \in F : IsFiniteSet(s)
    PROVE  \E s \in F : \A t \in F : Cardinality(s) <= Cardinality(t)
<1> DEFINE sizes == {Cardinality(s) : s \in F}
<1>1. sizes \subseteq Nat /\ sizes # {}
  BY FS_CardinalityType
<1> HIDE DEF sizes
<1>2. PICK n \in sizes : \A m \in sizes : n <= m
  BY <1>1, SmallestOf
<1> QED
  BY <1>2 DEF sizes

LEMMA LargestBy ==
    ASSUME NEW S, IsFiniteSet(S), S # {}, NEW w, \A x \in S : w[x] \in Int
    PROVE  \E x \in S : \A y \in S : w[y] <= w[x]
<1> DEFINE Has(s) == \E x \in s : \A y \in s : w[y] <= w[x]
           bad == {s \in SUBSET S : s # {} /\ ~Has(s)}
<1>1. \A s \in SUBSET S : IsFiniteSet(s)
  BY FS_Subset
<1>2. bad = {}
  <2> SUFFICES ASSUME bad # {} PROVE FALSE
    OBVIOUS
  <2>1. \A s \in bad : IsFiniteSet(s)
    BY <1>1
  <2>2. PICK s \in bad : \A t \in bad : Cardinality(s) <= Cardinality(t)
    <3> HIDE DEF bad
    <3> QED
      BY <2>1, SmallestSet
  <2>3. s \in SUBSET S /\ s # {} /\ ~Has(s) /\ IsFiniteSet(s)
    BY <1>1, <2>2
  <2>4. PICK x \in s : TRUE
    BY <2>3
  <2> DEFINE t == s \ {x}
  <2>5. Cardinality(t) = Cardinality(s) - 1 /\ Cardinality(s) \in Nat
    BY <2>3, <2>4, FS_RemoveElement, FS_CardinalityType
  <2>6. t \notin bad
    <3> HIDE DEF bad
    <3> QED
      BY <2>2, <2>5
  <2>7. t = {} \/ Has(t)
    BY <2>3, <2>6
  <2>8. CASE t = {}
    BY <2>3, <2>4, <2>8
  <2>9. CASE Has(t)
    <3>1. PICK z \in t : \A y \in t : w[y] <= w[z]
      BY <2>9
    <3>2. w[x] \in Int /\ w[z] \in Int /\ \A y \in s : w[y] \in Int /\ (y = x \/ y \in t)
      BY <2>3, <2>4, <3>1
    <3>3. CASE w[z] <= w[x]
      BY <2>3, <2>4, <3>1, <3>2, <3>3
    <3>4. CASE w[x] <= w[z]
      BY <2>3, <2>4, <3>1, <3>2, <3>4
    <3> QED
      BY <3>2, <3>3, <3>4
  <2> QED
    BY <2>7, <2>8, <2>9
<1> QED
  BY <1>2

\* The lexical order of quadruples v.
Beats(v, y, x) == \E i \in 1 .. 4 : v[y][i] > v[x][i] /\ \A j \in 1 .. (i - 1) : v[y][j] = v[x][j]

Numbered(v, S) == \A x \in S : \A i \in 1 .. 4 : v[x][i] \in Int

\* Of finitely many quadruples one is not beaten.
LEMMA FirstOf ==
    ASSUME NEW S, IsFiniteSet(S), S # {}, NEW v, Numbered(v, S)
    PROVE  \E x \in S : \A y \in S : ~Beats(v, y, x)
<1> USE DEF Beats, Numbered
<1> DEFINE w(i) == [x \in S |-> v[x][i]]
           Top(T, i) == {x \in T : \A y \in T : v[y][i] <= v[x][i]}
           T1 == Top(S, 1)
           T2 == Top(T1, 2)
           T3 == Top(T2, 3)
           T4 == Top(T3, 4)
<1>1. ASSUME NEW T \in SUBSET S, T # {}, NEW i \in 1 .. 4 PROVE Top(T, i) # {}
  <2>1. IsFiniteSet(T)
    BY FS_Subset
  <2> DEFINE u == w(i)
  <2>2. \A x \in T : u[x] \in Int /\ u[x] = v[x][i]
    OBVIOUS
  <2> HIDE DEF u
  <2>3. \E x \in T : \A y \in T : u[y] <= u[x]
    BY <1>1, <2>1, <2>2, LargestBy
  <2> QED
    BY <2>2, <2>3
<1>2. 1 \in 1 .. 4 /\ 2 \in 1 .. 4 /\ 3 \in 1 .. 4 /\ 4 \in 1 .. 4
  OBVIOUS
<1>3. T1 \in SUBSET S /\ T2 \in SUBSET T1 /\ T3 \in SUBSET T2 /\ T4 \in SUBSET T3
  OBVIOUS
<1>4. T4 # {}
  <2>1. T1 # {}
    BY <1>1, <1>2
  <2>2. T2 # {}
    <3> HIDE DEF T1
    <3> QED
      BY <1>1, <1>2, <1>3, <2>1
  <2>3. T3 # {}
    <3> HIDE DEF T1, T2
    <3>1. T2 \in SUBSET S
      BY <1>3
    <3> QED
      BY <1>1, <1>2, <2>2, <3>1
  <2>4. T3 \in SUBSET S
    BY <1>3
  <2> HIDE DEF T3
  <2> QED
    BY <1>1, <1>2, <2>3, <2>4
<1>5. PICK x \in T4 : TRUE
  BY <1>4
<1>6. x \in S /\ x \in T1 /\ x \in T2 /\ x \in T3
  BY <1>3, <1>5
<1>7. ASSUME NEW y \in S, NEW i \in 1 .. 4, v[y][i] > v[x][i], \A j \in 1 .. (i - 1) : v[y][j] = v[x][j]
      PROVE  FALSE
  <2>1. \A j \in 1 .. 4 : v[x][j] \in Int /\ v[y][j] \in Int
    BY <1>6
  <2>2. i = 1 \/ i = 2 \/ i = 3 \/ i = 4
    OBVIOUS
  <2>3. i > 1 => v[y][1] = v[x][1]
    BY <1>7
  <2>4. i > 2 => v[y][2] = v[x][2]
    BY <1>7
  <2>5. i > 3 => v[y][3] = v[x][3]
    BY <1>7
  <2>6. i # 1
    BY <1>2, <1>6, <1>7, <2>1
  <2>7. y \in T1
    <3>1. \A z \in S : v[z][1] <= v[y][1]
      BY <1>6, <2>2, <2>3, <2>6
    <3> QED
      BY <3>1
  <2>8. i # 2
    <3>1. v[y][2] <= v[x][2]
      BY <1>6, <2>7
    <3> QED
      BY <1>2, <1>7, <2>1, <3>1
  <2>9. y \in T2
    <3>1. \A z \in T1 : v[z][2] <= v[y][2]
      BY <1>6, <2>2, <2>4, <2>6, <2>8
    <3> QED
      BY <2>7, <3>1
  <2>10. i # 3
    <3>1. v[y][3] <= v[x][3]
      BY <1>6, <2>9
    <3> QED
      BY <1>2, <1>7, <2>1, <3>1
  <2>11. y \in T3
    <3>1. \A z \in T2 : v[z][3] <= v[y][3]
      BY <1>6, <2>2, <2>5, <2>6, <2>8, <2>10
    <3> QED
      BY <2>9, <3>1
  <2>12. v[y][4] <= v[x][4]
    BY <1>5, <2>11
  <2> QED
    BY <1>2, <1>7, <2>1, <2>2, <2>6, <2>8, <2>10, <2>12
<1> QED
  BY <1>6, <1>7

-----------------------------------------------------------------------------
(* The fold of simulate_candidates                                         *)

\* The request has the types that ClientAssumption gives it.
Typed ==
    /\ req.mode \in Modes /\ req.amount \in Nat /\ req.cap \in Nat /\ req.quotes \in Seq(Quotes)
    /\ req.balance \in Nat
    /\ \A c \in DOMAIN req.quotes : req.allowance[req.quotes[c].raindex] \in Nat

\* Candidates of the request, within the cap.
Within(P) == P \subseteq DOMAIN req.quotes /\ \A c \in P : req.quotes[c].ratio <= req.cap

LEMMA QuoteTypes ==
    ASSUME Typed
    PROVE  /\ IsFiniteSet(DOMAIN req.quotes)
           /\ \A c \in DOMAIN req.quotes :
                 /\ c \in Nat
                 /\ req.quotes[c].raindex \in Nat \ {0} /\ req.quotes[c].ratio \in Nat /\ req.quotes[c].max \in Nat
<1>1. req.quotes \in Seq(Quotes)
  BY DEF Typed
<1> DEFINE q == req.quotes
<1> HIDE DEF q
<1>2. q \in Seq(Quotes)
  BY <1>1 DEF q
<1>3. DOMAIN q = 1 .. Len(q) /\ Len(q) \in Nat /\ \A c \in DOMAIN q : q[c] \in Quotes
  BY <1>2
<1>4. IsFiniteSet(1 .. Len(q))
  BY <1>3, FS_Interval
<1> QED
  BY <1>3, <1>4 DEF q, Quotes

Sooner(a, b) ==
    \/ req.quotes[a].ratio < req.quotes[b].ratio
    \/ req.quotes[a].ratio = req.quotes[b].ratio /\ a < b

LEMMA LastIs ==
    ASSUME Typed, NEW s, s \subseteq DOMAIN req.quotes, s # {}
    PROVE  Last(s) \in s /\ \A d \in s \ {Last(s)} : Sooner(d, Last(s))
<1>1. IsFiniteSet(s)
  BY QuoteTypes, FS_Subset
<1> DEFINE w == [c \in s |-> req.quotes[c].ratio]
<1>2. \A c \in s : w[c] \in Int /\ w[c] = req.quotes[c].ratio
  BY QuoteTypes
<1> HIDE DEF w
<1>3. \E a \in s : \A b \in s : w[b] <= w[a]
  BY <1>1, <1>2, LargestBy
<1>4. PICK a \in s : \A b \in s : w[b] <= w[a]
  BY <1>3
<1> DEFINE T == {b \in s : w[b] = w[a]}
           u == [c \in T |-> c]
<1>5. IsFiniteSet(T) /\ T # {}
  BY <1>1, FS_Subset
<1>6. \A c \in T : u[c] \in Int /\ u[c] = c
  BY QuoteTypes
<1>7. \E c \in T : \A d \in T : u[d] <= u[c]
  <2> HIDE DEF T, u
  <2> QED
    BY <1>5, <1>6, LargestBy
<1>8. PICK c \in T : \A d \in T : d <= c
  BY <1>6, <1>7
<1>9. \A d \in s \ {c} : Sooner(d, c)
  <2> TAKE d \in s \ {c}
  <2>1. w[d] <= w[c] /\ w[d] \in Int /\ w[c] \in Int /\ d \in Nat /\ c \in Nat
    BY <1>2, <1>4, <1>8, QuoteTypes
  <2>2. w[d] = w[c] => d \in T
    BY <1>8
  <2> QED
    BY <1>2, <1>8, <2>1, <2>2 DEF Sooner
<1>10. c \in s
  BY <1>8
<1>11. Last(s) = CHOOSE x \in s : \A d \in s \ {x} : Sooner(d, x)
  BY Zenon DEF Last, Sooner
<1> QED
  BY <1>9, <1>10, <1>11, Zenon

LEMMA LastIn ==
    ASSUME Typed, NEW s, s \subseteq DOMAIN req.quotes, s # {}
    PROVE  Last(s) \in s
BY LastIs

\* The simulation of no candidates.
Nothing == [legs |-> <<>>, input |-> 0, output |-> 0, rest |-> req.amount]

\* The rule of the fold.
Folded(g, s) == IF s = {} THEN Nothing ELSE AddLeg(g[s \ {Last(s)}], Last(s))

LEMMA SimulateUnfolds ==
    ASSUME NEW S
    PROVE  simulate_candidates(S)
             = (CHOOSE g : g = [s \in SUBSET Priced(S) |-> Folded(g, s)])[Priced(S)]
BY Zenon DEF simulate_candidates, MapThenFoldSet, Folded, Nothing

LEMMA FoldSolved ==
    ASSUME Typed, NEW P, P \subseteq DOMAIN req.quotes
    PROVE  \E g : g = [s \in SUBSET P |-> Folded(g, s)]
<1> DEFINE Upto(g, n) == \A s \in SUBSET P : Cardinality(s) <= n => g[s] = Folded(g, s)
           bad == {n \in Nat : ~\E g : Upto(g, n)}
<1>1. \A s \in SUBSET P : IsFiniteSet(s) /\ Cardinality(s) \in Nat
  BY QuoteTypes, FS_Subset, FS_CardinalityType
<1>2. ASSUME NEW g, NEW h, NEW n \in Nat, \A s \in SUBSET P : Cardinality(s) < n => g[s] = Folded(g, s),
             h = [s \in SUBSET P |-> Folded(g, s)]
      PROVE  Upto(h, n)
  <2> SUFFICES ASSUME NEW s \in SUBSET P, Cardinality(s) <= n PROVE h[s] = Folded(h, s)
    OBVIOUS
  <2>1. CASE s = {}
    BY <1>2, <2>1 DEF Folded
  <2>2. CASE s # {}
    <3> DEFINE t == s \ {Last(s)}
    <3>1. Last(s) \in s
      BY <2>2, LastIn
    <3>2. Cardinality(t) = Cardinality(s) - 1
      BY <1>1, <3>1, FS_RemoveElement
    <3>3. t \in SUBSET P /\ Cardinality(t) < n
      BY <1>1, <3>2
    <3>4. g[t] = Folded(g, t) /\ h[t] = Folded(g, t)
      <4> HIDE DEF t
      <4> QED
        BY <1>2, <3>3
    <3>5. h[s] = Folded(g, s)
      BY <1>2
    <3> QED
      BY <2>2, <3>4, <3>5 DEF Folded
  <2> QED
    BY <2>1, <2>2
<1>3. bad = {}
  <2> SUFFICES ASSUME bad # {} PROVE FALSE
    OBVIOUS
  <2>1. PICK n \in bad : \A m \in bad : n <= m
    <3>1. bad \subseteq Nat
      OBVIOUS
    <3> HIDE DEF bad
    <3> QED
      BY <3>1, SmallestOf
  <2>2. n \in Nat /\ ~\E g : Upto(g, n)
    BY <2>1
  <2>3. \E g : \A s \in SUBSET P : Cardinality(s) < n => g[s] = Folded(g, s)
    <3>1. CASE n = 0
      BY <1>1, <3>1
    <3>2. CASE n # 0
      <4>1. n - 1 \in Nat /\ n - 1 \notin bad
        <5> HIDE DEF bad
        <5>1. n - 1 \in Nat
          BY <2>2, <3>2
        <5> QED
          BY <2>1, <2>2, <5>1
      <4>2. PICK g : Upto(g, n - 1)
        BY <4>1
      <4>3. \A s \in SUBSET P : Cardinality(s) < n => Cardinality(s) <= n - 1
        BY <1>1, <2>2
      <4> QED
        BY <4>2, <4>3
    <3> QED
      BY <3>1, <3>2
  <2>4. PICK g : \A s \in SUBSET P : Cardinality(s) < n => g[s] = Folded(g, s)
    BY <2>3
  <2> DEFINE h == [s \in SUBSET P |-> Folded(g, s)]
  <2>5. Upto(h, n)
    <3> HIDE DEF Upto
    <3> QED
      BY <1>2, <2>2, <2>4
  <2> QED
    BY <2>2, <2>5
<1>4. Cardinality(P) \in Nat /\ \A s \in SUBSET P : Cardinality(s) <= Cardinality(P)
  BY <1>1, FS_Subset
<1>5. PICK g : Upto(g, Cardinality(P))
  <2> HIDE DEF Upto
  <2> QED
    BY <1>3, <1>4
<1>6. \A s \in SUBSET P : g[s] = Folded(g, s)
  BY <1>4, <1>5
<1> DEFINE h == [s \in SUBSET P |-> g[s]]
<1>7. \A s \in SUBSET P : h[s] = Folded(h, s)
  <2> TAKE s \in SUBSET P
  <2>1. h[s] = Folded(g, s)
    BY <1>6
  <2>2. s \ {Last(s)} \in SUBSET P
    OBVIOUS
  <2>3. h[s \ {Last(s)}] = g[s \ {Last(s)}]
    BY <2>2
  <2> QED
    BY <2>1, <2>3 DEF Folded
<1>8. h = [s \in SUBSET P |-> Folded(h, s)]
  <2>1. h = [s \in SUBSET P |-> h[s]]
    OBVIOUS
  <2> HIDE DEF h
  <2> QED
    BY <1>7, <2>1
<1> QED
  BY <1>8

-----------------------------------------------------------------------------
(* What a simulation holds                                                 *)

Leg(P) == [c : P, input : Nat, output : Nat]

\* Legs of P, none if nothing is asked for; what is filled and what is left make
\* up the request, and a buy costs no more than the cap says of what it fills.
Fills(sim, P) ==
    /\ sim.legs \in Seq(Leg(P))
    /\ sim.legs # << >> => req.amount > 0
    /\ sim.input \in Nat /\ sim.output \in Nat /\ sim.rest \in Nat
    /\ is_buy_mode => sim.output + sim.rest = req.amount /\ 2 * sim.input <= req.cap * sim.output
    /\ ~is_buy_mode => sim.input + sim.rest = req.amount

LEMMA NothingFills ==
    ASSUME Typed, NEW P
    PROVE  Fills(Nothing, P)
<1>1. << >> \in Seq(Leg(P))
  OBVIOUS
<1>2. req.amount \in Nat /\ req.cap \in Nat /\ req.cap * 0 = 0
  BY DEF Typed
<1> QED
  BY <1>1, <1>2 DEF Fills, Nothing

LEMMA Halves ==
    ASSUME NEW a \in Nat, NEW b \in Nat
    PROVE  a \div 2 \in Nat /\ 2 * (a \div 2) <= a /\ (2 * b <= a => b <= a \div 2)
OBVIOUS

LEMMA Scaled ==
    ASSUME NEW a \in Nat, NEW b \in Nat, NEW c \in Nat, a <= b
    PROVE  a * c \in Nat /\ a * c <= b * c /\ c * a \in Nat /\ c * a <= c * b
<1>1. PICK d \in Nat : b = a + d
  <2>1. b - a \in Nat /\ b = a + (b - a)
    OBVIOUS
  <2> QED
    BY <2>1
<1>2. d * c \in Nat /\ a * c \in Nat /\ c * d \in Nat /\ c * a \in Nat
  OBVIOUS
<1>3. b * c = a * c + d * c /\ c * b = c * a + c * d
  BY <1>1
<1> QED
  BY <1>2, <1>3

LEMMA Quotients ==
    ASSUME NEW a \in Nat, NEW b \in Nat, b # 0
    PROVE  a \div b \in Nat
OBVIOUS

LEMMA LegOfRest ==
    ASSUME Typed, NEW P, Within(P), NEW c \in P, NEW rest \in Nat
    PROVE  /\ take_leg(c, rest) \in Leg(P)
           /\ is_buy_mode => /\ take_leg(c, rest).output <= rest
                             /\ 2 * take_leg(c, rest).input <= req.cap * take_leg(c, rest).output
           /\ ~is_buy_mode => take_leg(c, rest).input <= rest
<1> DEFINE q == req.quotes[c]
           most == q.max
           p == q.ratio
<1>1. most \in Nat /\ p \in Nat /\ p <= req.cap /\ req.cap \in Nat
  BY QuoteTypes DEF Within, Typed
<1>2. CASE is_buy_mode
  <2> DEFINE out == Smaller(most, rest)
  <2>1. out \in Nat /\ out <= rest
    BY <1>1 DEF Smaller
  <2>2. take_leg(c, rest) = [c |-> c, input |-> (out * p) \div 2, output |-> out]
    BY <1>2 DEF take_leg, take_leg_for_buy
  <2> HIDE DEF out, p
  <2>3. out * p \in Nat /\ out * p <= req.cap * out /\ req.cap * out \in Nat
    <3>1. p * out \in Nat /\ p * out <= req.cap * out /\ out * p = p * out /\ req.cap * out \in Nat
      BY <1>1, <2>1, Scaled
    <3> QED
      BY <3>1
  <2> DEFINE in == (out * p) \div 2
  <2>4. in \in Nat /\ 2 * in <= out * p
    BY <2>3, Halves
  <2> HIDE DEF in
  <2>5. 2 * in <= req.cap * out
    BY <2>3, <2>4
  <2>6. take_leg(c, rest) = [c |-> c, input |-> in, output |-> out]
    BY <2>2 DEF in
  <2> QED
    BY <1>2, <2>1, <2>4, <2>5, <2>6 DEF Leg
<1>3. CASE ~is_buy_mode
  <2>1. CASE p = 0
    <3>1. take_leg(c, rest) = [c |-> c, input |-> 0, output |-> most]
      BY <1>3, <2>1 DEF take_leg, take_leg_for_spend
    <3> HIDE DEF most
    <3> QED
      BY <1>1, <1>3, <3>1 DEF Leg
  <2>2. CASE p # 0
    <3> DEFINE worth == (most * p) \div 2
               in == Smaller(worth, rest)
               out == (2 * in) \div p
    <3>1. take_leg(c, rest) = [c |-> c, input |-> in, output |-> out]
      BY <1>3, <2>2 DEF take_leg, take_leg_for_spend
    <3> HIDE DEF most, p
    <3>2. most * p \in Nat
      BY <1>1
    <3>3. worth \in Nat
      BY <3>2, Halves
    <3> HIDE DEF worth
    <3>4. in \in Nat /\ in <= rest
      BY <3>3 DEF Smaller
    <3> HIDE DEF in
    <3>5. 2 * in \in Nat
      BY <3>4
    <3>6. out \in Nat
      BY <1>1, <2>2, <3>5, Quotients
    <3> HIDE DEF out
    <3> QED
      BY <1>3, <3>1, <3>4, <3>6 DEF Leg
  <2> QED
    BY <2>1, <2>2
<1> QED
  BY <1>2, <1>3

LEMMA AddLegFills ==
    ASSUME Typed, NEW P, Within(P), NEW c \in P, NEW sim, Fills(sim, P)
    PROVE  Fills(AddLeg(sim, c), P)
<1> DEFINE leg == take_leg(c, sim.rest)
<1>1. sim.rest \in Nat /\ sim.input \in Nat /\ sim.output \in Nat /\ sim.legs \in Seq(Leg(P))
  BY DEF Fills
<1>2. /\ leg \in Leg(P)
      /\ is_buy_mode => leg.output <= sim.rest /\ 2 * leg.input <= req.cap * leg.output
      /\ ~is_buy_mode => leg.input <= sim.rest
  BY <1>1, LegOfRest
<1>3. CASE sim.rest <= 0 \/ leg.output <= 0
  BY <1>3, Zenon DEF AddLeg
<1>4. CASE ~(sim.rest <= 0 \/ leg.output <= 0)
  <2> DEFINE rest == sim.rest - IF is_buy_mode THEN leg.output ELSE leg.input
             new == [legs |-> Append(sim.legs, leg), input |-> sim.input + leg.input,
                     output |-> sim.output + leg.output, rest |-> rest]
  <2>1. AddLeg(sim, c) = new
    BY <1>4, Zenon DEF AddLeg
  <2> HIDE DEF leg
  <2>2. leg.input \in Nat /\ leg.output \in Nat
    BY <1>2 DEF Leg
  <2>3. Append(sim.legs, leg) \in Seq(Leg(P))
    BY <1>1, <1>2
  <2>4. new.input \in Nat /\ new.output \in Nat
    BY <1>1, <2>2
  <2>5. rest \in Nat
    BY <1>1, <1>2, <2>2
  <2>8. req.amount > 0
    BY <1>1, <1>4 DEF Fills, Typed
  <2>6. CASE is_buy_mode
    <3>1. sim.output + sim.rest = req.amount /\ 2 * sim.input <= req.cap * sim.output
      BY <2>6 DEF Fills
    <3>2. req.cap \in Nat /\ req.amount \in Nat
      BY DEF Typed
    <3>3. new.output + new.rest = req.amount
      BY <1>1, <2>2, <2>6, <3>1, <3>2
    <3> DEFINE a == sim.output
               b == leg.output
               k == req.cap
    <3>4. k * (a + b) = k * a + k * b /\ k * a \in Nat /\ k * b \in Nat
      <4>1. a \in Nat /\ b \in Nat /\ k \in Nat
        BY <1>1, <2>2, <3>2
      <4> HIDE DEF a, b, k
      <4> QED
        BY <4>1
    <3>5. 2 * (sim.input + leg.input) <= k * (a + b)
      <4>1. 2 * sim.input <= k * a /\ 2 * leg.input <= k * b
        BY <1>2, <2>6, <3>1
      <4> DEFINE m == k * (a + b)
                 m1 == k * a
                 m2 == k * b
      <4>2. 2 * sim.input <= m1 /\ 2 * leg.input <= m2 /\ m = m1 + m2 /\ m1 \in Nat /\ m2 \in Nat
        BY <3>4, <4>1
      <4> HIDE DEF m, m1, m2
      <4>3. 2 * (sim.input + leg.input) <= m
        BY <1>1, <2>2, <4>2
      <4> QED
        BY <4>3 DEF m
    <3>6. 2 * new.input <= req.cap * new.output
      BY <3>5
    <3> HIDE DEF new
    <3> QED
      BY <2>1, <2>3, <2>4, <2>5, <2>6, <2>8, <3>3, <3>6 DEF Fills, new
  <2>7. CASE ~is_buy_mode
    <3>1. sim.input + sim.rest = req.amount
      BY <2>7 DEF Fills
    <3>2. new.input + new.rest = req.amount
      BY <1>1, <2>2, <2>7, <3>1
    <3> QED
      BY <2>1, <2>3, <2>4, <2>5, <2>7, <2>8, <3>2 DEF Fills
  <2> QED
    BY <2>6, <2>7
<1> QED
  BY <1>3, <1>4

\* Every set of candidates within the cap is filled as Fills says.
LEMMA SimulateFills ==
    ASSUME Typed, NEW S, S \subseteq DOMAIN req.quotes
    PROVE  Fills(simulate_candidates(S), Priced(S))
<1> DEFINE P == Priced(S)
           g == CHOOSE h : h = [s \in SUBSET P |-> Folded(h, s)]
<1>1. P \subseteq DOMAIN req.quotes /\ Within(P)
  BY DEF Priced, Within
<1>2. simulate_candidates(S) = g[P]
  BY SimulateUnfolds, Zenon
<1>3. \E h : h = [s \in SUBSET P |-> Folded(h, s)]
  <2> HIDE DEF P
  <2> QED
    BY <1>1, FoldSolved
<1>4. g = [s \in SUBSET P |-> Folded(g, s)]
  BY <1>3, Zenon
<1> HIDE DEF P, g
<1>5. \A s \in SUBSET P : g[s] = Folded(g, s)
  BY <1>4
<1>6. \A s \in SUBSET P : IsFiniteSet(s) /\ s \subseteq DOMAIN req.quotes
  BY <1>1, QuoteTypes, FS_Subset
<1> DEFINE bad == {s \in SUBSET P : ~Fills(g[s], P)}
<1>7. bad = {}
  <2> SUFFICES ASSUME bad # {} PROVE FALSE
    OBVIOUS
  <2>1. \A s \in bad : IsFiniteSet(s)
    BY <1>6
  <2>2. PICK s \in bad : \A t \in bad : Cardinality(s) <= Cardinality(t)
    <3> HIDE DEF bad
    <3> QED
      BY <2>1, SmallestSet
  <2>3. s \in SUBSET P /\ ~Fills(g[s], P)
    BY <2>2
  <2>4. s # {}
    <3>1. s = {} => g[s] = Nothing
      BY <1>5, <2>3 DEF Folded
    <3> QED
      BY <2>3, <3>1, NothingFills
  <2> DEFINE c == Last(s)
             t == s \ {c}
  <2>5. c \in s
    BY <1>6, <2>3, <2>4, LastIn
  <2>6. Cardinality(t) = Cardinality(s) - 1 /\ Cardinality(s) \in Nat
    BY <1>6, <2>3, <2>5, FS_RemoveElement, FS_CardinalityType
  <2>7. t \notin bad
    <3> HIDE DEF bad, t
    <3> QED
      BY <2>2, <2>6
  <2>8. t \in SUBSET P /\ Fills(g[t], P)
    BY <2>3, <2>7
  <2>9. g[s] = AddLeg(g[t], c)
    BY <1>5, <2>3, <2>4 DEF Folded
  <2> HIDE DEF t, c, bad
  <2>10. c \in P
    BY <2>3, <2>5
  <2>11. Fills(AddLeg(g[t], c), P)
    BY <1>1, <2>8, <2>10, AddLegFills
  <2> QED
    BY <2>3, <2>9, <2>11
<1>8. P \in SUBSET P
  OBVIOUS
<1> QED
  BY <1>2, <1>7, <1>8 DEF P

LEMMA LegsOf ==
    ASSUME NEW P, NEW sim, Fills(sim, P)
    PROVE  /\ DOMAIN sim.legs = 1 .. Len(sim.legs) /\ Len(sim.legs) \in Nat
           /\ \A i \in DOMAIN sim.legs : sim.legs[i].c \in P
           /\ sim.legs # << >> => DOMAIN sim.legs # {}
<1> DEFINE s == sim.legs
<1>1. s \in Seq(Leg(P))
  BY DEF Fills
<1> HIDE DEF s
<1>2. DOMAIN s = 1 .. Len(s) /\ Len(s) \in Nat /\ \A i \in DOMAIN s : s[i] \in Leg(P)
  BY <1>1
<1>3. \A x \in Leg(P) : x.c \in P
  BY DEF Leg
<1>4. s # << >> => DOMAIN s # {}
  <2>1. Len(s) = 0 => s = << >>
    BY <1>1
  <2>2. Len(s) # 0 => 1 \in DOMAIN s
    BY <1>2
  <2> QED
    BY <2>1, <2>2
<1> QED
  BY <1>2, <1>3, <1>4 DEF s

LEMMA FillsMore ==
    ASSUME NEW P, NEW Q, P \subseteq Q, NEW sim, Fills(sim, P)
    PROVE  Fills(sim, Q)
<1>1. Leg(P) \subseteq Leg(Q)
  BY DEF Leg
<1>2. sim.legs \in Seq(Leg(P))
  BY DEF Fills
<1>3. sim.legs \in Seq(Leg(Q))
  <2> DEFINE s == sim.legs
  <2> HIDE DEF s
  <2>1. s \in Seq(Leg(P))
    BY <1>2 DEF s
  <2>2. s \in Seq(Leg(Q))
    BY <1>1, <2>1
  <2> QED
    BY <2>2 DEF s
<1> QED
  BY <1>3 DEF Fills

-----------------------------------------------------------------------------
(* Selections of fewer candidates                                          *)

\* The last of more is the last of fewer that have it.
LEMMA LastOfFewer ==
    ASSUME Typed, NEW s, s \subseteq DOMAIN req.quotes, NEW t, t \subseteq s, s # {}, Last(s) \in t
    PROVE  Last(t) = Last(s)
<1> DEFINE c == Last(s)
           d == Last(t)
<1>1. c \in s /\ \A x \in s \ {c} : Sooner(x, c)
  BY LastIs
<1>2. d \in t /\ \A x \in t \ {d} : Sooner(x, d)
  BY LastIs
<1> HIDE DEF c, d
<1>3. c \in t
  BY DEF c
<1>4. SUFFICES ASSUME c # d PROVE FALSE
  BY DEF c, d
<1>5. Sooner(c, d) /\ Sooner(d, c)
  BY <1>1, <1>2, <1>3, <1>4
<1>6. c \in Nat /\ d \in Nat /\ req.quotes[c].ratio \in Nat /\ req.quotes[d].ratio \in Nat
  BY <1>1, <1>2, QuoteTypes
<1> QED
  BY <1>5, <1>6 DEF Sooner

LEMMA LastIsDearest ==
    ASSUME Typed, NEW s, s \subseteq DOMAIN req.quotes, NEW a \in s
    PROVE  Last(s) \in s /\ req.quotes[a].ratio <= req.quotes[Last(s)].ratio
<1> DEFINE c == Last(s)
<1>1. c \in s /\ \A x \in s \ {c} : Sooner(x, c)
  BY LastIs
<1> HIDE DEF c
<1>2. req.quotes[a].ratio \in Nat /\ req.quotes[c].ratio \in Nat
  BY <1>1, QuoteTypes
<1>3. req.quotes[a].ratio <= req.quotes[c].ratio
  BY <1>1, <1>2 DEF Sooner
<1> QED
  BY <1>1, <1>3 DEF c

\* What is simulated for every set of candidates.
Sim == CHOOSE g : g = [s \in SUBSET (DOMAIN req.quotes) |-> Folded(g, s)]

LEMMA SimRule ==
    ASSUME Typed
    PROVE  /\ \A s \in SUBSET (DOMAIN req.quotes) : Sim[s] = Folded(Sim, s)
           /\ Sim[{}] = Nothing
<1>1. \E g : g = [s \in SUBSET (DOMAIN req.quotes) |-> Folded(g, s)]
  BY FoldSolved
<1>2. Sim = [s \in SUBSET (DOMAIN req.quotes) |-> Folded(Sim, s)]
  BY <1>1, Zenon DEF Sim
<1>3. \A s \in SUBSET (DOMAIN req.quotes) : Sim[s] = Folded(Sim, s)
  BY <1>2
<1>4. Sim[{}] = Folded(Sim, {})
  BY <1>3
<1> QED
  BY <1>3, <1>4 DEF Folded

LEMMA SimStep ==
    ASSUME Typed, NEW s, s \subseteq DOMAIN req.quotes, s # {}
    PROVE  Sim[s] = AddLeg(Sim[s \ {Last(s)}], Last(s))
<1>1. Sim[s] = Folded(Sim, s)
  BY SimRule
<1> QED
  BY <1>1 DEF Folded

\* The rule has one solution.
LEMMA SimulateIs ==
    ASSUME Typed, NEW S, S \subseteq DOMAIN req.quotes
    PROVE  simulate_candidates(S) = Sim[Priced(S)]
<1> DEFINE P == Priced(S)
           g == CHOOSE h : h = [s \in SUBSET P |-> Folded(h, s)]
<1>1. P \subseteq DOMAIN req.quotes
  BY DEF Priced
<1>2. simulate_candidates(S) = g[P]
  BY SimulateUnfolds, Zenon
<1>3. \E h : h = [s \in SUBSET P |-> Folded(h, s)]
  <2> HIDE DEF P
  <2> QED
    BY <1>1, FoldSolved
<1>4. g = [s \in SUBSET P |-> Folded(g, s)]
  BY <1>3, Zenon
<1> HIDE DEF P, g
<1>5. \A s \in SUBSET P : g[s] = Folded(g, s) /\ Sim[s] = Folded(Sim, s)
  BY <1>1, <1>4, SimRule
<1>6. \A s \in SUBSET P : IsFiniteSet(s) /\ s \subseteq DOMAIN req.quotes
  BY <1>1, QuoteTypes, FS_Subset
<1> DEFINE bad == {s \in SUBSET P : g[s] # Sim[s]}
<1>7. bad = {}
  <2> SUFFICES ASSUME bad # {} PROVE FALSE
    OBVIOUS
  <2>1. \A s \in bad : IsFiniteSet(s)
    BY <1>6
  <2>2. PICK s \in bad : \A t \in bad : Cardinality(s) <= Cardinality(t)
    <3> HIDE DEF bad
    <3> QED
      BY <2>1, SmallestSet
  <2>3. s \in SUBSET P /\ g[s] # Sim[s]
    BY <2>2
  <2>4. s # {}
    <3>1. Folded(g, {}) = Folded(Sim, {})
      BY DEF Folded
    <3> QED
      BY <1>5, <2>3, <3>1
  <2> DEFINE c == Last(s)
             t == s \ {c}
  <2>5. c \in s
    BY <1>6, <2>3, <2>4, LastIn
  <2>6. Cardinality(t) = Cardinality(s) - 1 /\ Cardinality(s) \in Nat
    BY <1>6, <2>3, <2>5, FS_RemoveElement, FS_CardinalityType
  <2>7. t \notin bad
    <3> HIDE DEF bad, t
    <3> QED
      BY <2>2, <2>6
  <2>8. g[t] = Sim[t]
    BY <2>3, <2>7
  <2>9. Folded(g, s) = Folded(Sim, s)
    BY <2>8 DEF Folded
  <2> QED
    BY <1>5, <2>3, <2>9
<1>8. P \in SUBSET P
  OBVIOUS
<1> QED
  BY <1>2, <1>7, <1>8 DEF P

LEMMA SimFills ==
    ASSUME Typed, NEW s, Within(s)
    PROVE  Fills(Sim[s], s) /\ LegCandidates(Sim[s]) \subseteq s
<1>1. s \subseteq DOMAIN req.quotes /\ Priced(s) = s
  BY DEF Within, Priced
<1>2. Fills(Sim[s], s)
  BY <1>1, SimulateIs, SimulateFills
<1>3. LegCandidates(Sim[s]) \subseteq s
  BY <1>2, LegsOf DEF LegCandidates
<1> QED
  BY <1>2, <1>3

\* A candidate that adds a leg.
Takes(sim, c) == ~(sim.rest <= 0 \/ take_leg(c, sim.rest).output <= 0)

LEMMA AddLegCases ==
    ASSUME Typed, NEW P, Within(P), NEW c \in P, NEW sim, Fills(sim, P)
    PROVE  /\ ~Takes(sim, c) => AddLeg(sim, c) = sim
           /\ Takes(sim, c) => /\ LegCandidates(AddLeg(sim, c)) = LegCandidates(sim) \cup {c}
                               /\ AddLeg(sim, c).legs # << >>
           /\ is_buy_mode => AddLeg(sim, c).rest = sim.rest - Smaller(req.quotes[c].max, sim.rest)
           /\ is_buy_mode => (Takes(sim, c) <=> Smaller(req.quotes[c].max, sim.rest) > 0)
<1> DEFINE leg == take_leg(c, sim.rest)
<1>1. sim.rest \in Nat /\ sim.legs \in Seq(Leg(P)) /\ req.quotes[c].max \in Nat
  BY QuoteTypes DEF Fills, Within
<1>2. leg \in Leg(P) /\ leg.c = c /\ leg.output \in Nat
  <2>1. leg \in Leg(P)
    BY <1>1, LegOfRest
  <2>2. leg.c = c
    BY DEF take_leg, take_leg_for_buy, take_leg_for_spend
  <2> HIDE DEF leg
  <2> QED
    BY <2>1, <2>2 DEF Leg
<1>3. is_buy_mode => leg.output = Smaller(req.quotes[c].max, sim.rest)
  BY DEF take_leg, take_leg_for_buy
<1>4. Takes(sim, c) <=> ~(sim.rest <= 0 \/ leg.output <= 0)
  BY DEF Takes
<1>5. CASE ~Takes(sim, c)
  <2>1. AddLeg(sim, c) = sim
    BY <1>4, <1>5, Zenon DEF AddLeg
  <2>2. is_buy_mode => Smaller(req.quotes[c].max, sim.rest) = 0
    <3> HIDE DEF leg
    <3> QED
      BY <1>1, <1>2, <1>3, <1>4, <1>5 DEF Smaller
  <2> QED
    BY <1>1, <1>5, <2>1, <2>2
<1>6. CASE Takes(sim, c)
  <2> DEFINE s == sim.legs
             new == AddLeg(sim, c)
  <2>1. new = [legs |-> Append(s, leg), input |-> sim.input + leg.input,
               output |-> sim.output + leg.output,
               rest |-> sim.rest - IF is_buy_mode THEN leg.output ELSE leg.input]
    BY <1>4, <1>6, Zenon DEF AddLeg
  <2> HIDE DEF leg, s, new
  <2>2. new.legs = Append(s, leg) /\ (is_buy_mode => new.rest = sim.rest - leg.output)
    BY <2>1
  <2>3. s \in Seq(Leg(P)) /\ Len(s) \in Nat /\ DOMAIN s = 1 .. Len(s)
    BY <1>1 DEF s
  <2>4. /\ DOMAIN Append(s, leg) = DOMAIN s \cup {Len(s) + 1}
        /\ \A i \in DOMAIN s : Append(s, leg)[i] = s[i]
        /\ Append(s, leg)[Len(s) + 1] = leg
    BY <1>2, <2>3
  <2>5. {Append(s, leg)[i].c : i \in DOMAIN Append(s, leg)} = {s[i].c : i \in DOMAIN s} \cup {c}
    BY <1>2, <2>4
  <2>6. LegCandidates(new) = LegCandidates(sim) \cup {c}
    BY <2>2, <2>5 DEF LegCandidates, s
  <2>7. new.legs # << >>
    BY <1>2, <2>2, <2>3
  <2>8. is_buy_mode => Smaller(req.quotes[c].max, sim.rest) > 0
    BY <1>1, <1>2, <1>3, <1>4, <1>6
  <2> QED
    BY <1>3, <1>6, <2>2, <2>6, <2>7, <2>8 DEF new
<1> QED
  BY <1>5, <1>6

LEMMA FewerWithin ==
    ASSUME NEW s, Within(s), NEW t, t \subseteq s
    PROVE  Within(t)
BY DEF Within

\* What the last candidate of s adds to the others, u.
Peels(s, c, u) ==
    /\ c = Last(s) /\ c \in s /\ u = s \ {c} /\ Within(u)
    /\ Sim[u].rest \in Nat /\ Sim[s].rest \in Nat
    /\ LegCandidates(Sim[u]) \subseteq u
    /\ Sim[s] = AddLeg(Sim[u], c)
    /\ ~Takes(Sim[u], c) => Sim[s] = Sim[u]
    /\ Takes(Sim[u], c) => LegCandidates(Sim[s]) = LegCandidates(Sim[u]) \cup {c} /\ Sim[s].legs # << >>
    /\ is_buy_mode => Sim[s].rest = Sim[u].rest - Smaller(req.quotes[c].max, Sim[u].rest)
    /\ is_buy_mode => (Takes(Sim[u], c) <=> Smaller(req.quotes[c].max, Sim[u].rest) > 0)

LEMMA Peel ==
    ASSUME Typed, NEW s, Within(s), s # {}
    PROVE  Peels(s, Last(s), s \ {Last(s)})
<1> DEFINE c == Last(s)
           u == s \ {c}
<1>1. s \subseteq DOMAIN req.quotes
  BY DEF Within
<1>2. c \in s
  BY <1>1, LastIn
<1>3. Sim[s] = AddLeg(Sim[u], c)
  BY <1>1, SimStep
<1>4. u \subseteq s
  OBVIOUS
<1> HIDE DEF c, u
<1>5. Within(u)
  BY <1>4, FewerWithin
<1>6. Fills(Sim[u], u) /\ LegCandidates(Sim[u]) \subseteq u /\ Fills(Sim[s], s)
  BY <1>5, SimFills
<1>7. Fills(Sim[u], s)
  BY <1>4, <1>6, FillsMore
<1> DEFINE sim == Sim[u]
<1>8. /\ ~Takes(sim, c) => AddLeg(sim, c) = sim
      /\ Takes(sim, c) => /\ LegCandidates(AddLeg(sim, c)) = LegCandidates(sim) \cup {c}
                          /\ AddLeg(sim, c).legs # << >>
      /\ is_buy_mode => AddLeg(sim, c).rest = sim.rest - Smaller(req.quotes[c].max, sim.rest)
      /\ is_buy_mode => (Takes(sim, c) <=> Smaller(req.quotes[c].max, sim.rest) > 0)
  <2> HIDE DEF sim
  <2>1. Fills(sim, s)
    BY <1>7 DEF sim
  <2> QED
    BY <1>2, <2>1, AddLegCases
<1>9. Sim[u].rest \in Nat /\ Sim[s].rest \in Nat
  BY <1>6 DEF Fills
<1> QED
  BY <1>2, <1>3, <1>5, <1>6, <1>8, <1>9 DEF Peels, c, u

LEMMA Shrinks ==
    ASSUME Typed, NEW s, Within(s), NEW c \in s
    PROVE  /\ IsFiniteSet(s) /\ Cardinality(s) \in Nat
           /\ Cardinality(s \ {c}) \in Nat /\ Cardinality(s \ {c}) < Cardinality(s)
<1>1. IsFiniteSet(s)
  BY QuoteTypes, FS_Subset DEF Within
<1>2. Cardinality(s) \in Nat /\ Cardinality(s \ {c}) = Cardinality(s) - 1
  BY <1>1, FS_CardinalityType, FS_RemoveElement
<1>3. IsFiniteSet(s \ {c})
  BY <1>1, FS_Subset
<1>4. Cardinality(s \ {c}) \in Nat
  BY <1>3, FS_CardinalityType
<1> QED
  BY <1>1, <1>2, <1>4

\* Of a set of sets of candidates one has its last candidate dropped outside.
LEMMA PeelSmallest ==
    ASSUME Typed, NEW bad, bad # {}, \A s \in bad : Within(s), {} \notin bad
    PROVE  \E s \in bad : Peels(s, Last(s), s \ {Last(s)}) /\ s \ {Last(s)} \notin bad
<1>1. \A s \in bad : IsFiniteSet(s)
  BY QuoteTypes, FS_Subset DEF Within
<1>2. PICK s \in bad : \A t \in bad : Cardinality(s) <= Cardinality(t)
  BY <1>1, SmallestSet
<1> DEFINE u == s \ {Last(s)}
<1>3. Peels(s, Last(s), u)
  BY <1>2, Peel
<1>4. Last(s) \in s
  BY <1>3 DEF Peels
<1>5. Cardinality(u) \in Nat /\ Cardinality(s) \in Nat /\ Cardinality(u) < Cardinality(s)
  BY <1>2, <1>4, Shrinks
<1> HIDE DEF u
<1>6. u \notin bad
  BY <1>2, <1>5
<1> QED
  BY <1>2, <1>3, <1>6 DEF u

\* A candidate that gave no leg can be left out.
LEMMA SkippedLeave ==
    ASSUME Typed, NEW s, Within(s), NEW t, t \subseteq s, LegCandidates(Sim[s]) \subseteq t
    PROVE  Sim[t] = Sim[s]
<1> DEFINE bad == {x \in SUBSET s : \E y \in SUBSET x : LegCandidates(Sim[x]) \subseteq y /\ Sim[y] # Sim[x]}
<1>1. bad = {}
  <2> SUFFICES ASSUME bad # {} PROVE FALSE
    OBVIOUS
  <2>1. \A x \in bad : Within(x)
    BY FewerWithin
  <2>2. {} \notin bad
    OBVIOUS
  <2>3. PICK x \in bad : Peels(x, Last(x), x \ {Last(x)}) /\ x \ {Last(x)} \notin bad
    <3> HIDE DEF bad
    <3> QED
      BY <2>1, <2>2, PeelSmallest
  <2>4. x \in SUBSET s /\ Within(x) /\ x \subseteq DOMAIN req.quotes
    BY <2>1, <2>3 DEF Within
  <2>5. PICK y \in SUBSET x : LegCandidates(Sim[x]) \subseteq y /\ Sim[y] # Sim[x]
    BY <2>3
  <2> DEFINE c == Last(x)
             u == x \ {c}
             v == y \ {c}
  <2>6. Peels(x, c, u) /\ u \notin bad /\ u \in SUBSET s
    BY <2>3, <2>4
  <2>7. v \in SUBSET u
    OBVIOUS
  <2>8. LegCandidates(Sim[u]) \subseteq v => Sim[v] = Sim[u]
    BY <2>6, <2>7
  <2>9. c \in y => y # {} /\ Last(y) = c /\ Sim[y] = AddLeg(Sim[v], c)
    <3> SUFFICES ASSUME c \in y PROVE y # {} /\ Last(y) = c /\ Sim[y] = AddLeg(Sim[v], c)
      OBVIOUS
    <3>1. Last(y) = c
      BY <2>4, LastOfFewer
    <3>2. y \subseteq DOMAIN req.quotes
      BY <2>4
    <3> QED
      BY <3>1, <3>2, SimStep
  <2>10. c \notin y => y = v
    OBVIOUS
  <2> HIDE DEF c, u, v, bad
  <2>11. c \notin LegCandidates(Sim[u]) /\ LegCandidates(Sim[u]) \subseteq u
    BY <2>6 DEF Peels
  <2>12. LegCandidates(Sim[u]) \subseteq v
    <3>1. LegCandidates(Sim[u]) \subseteq LegCandidates(Sim[x])
      BY <2>6 DEF Peels
    <3> QED
      BY <2>5, <2>11, <3>1 DEF v
  <2>13. Sim[v] = Sim[u]
    BY <2>8, <2>12
  <2>14. CASE c \in y
    BY <2>5, <2>6, <2>9, <2>13, <2>14 DEF Peels
  <2>15. CASE c \notin y
    <3>1. ~Takes(Sim[u], c)
      BY <2>5, <2>6, <2>15 DEF Peels
    <3> QED
      BY <2>5, <2>6, <2>10, <2>13, <2>15, <3>1 DEF Peels
  <2> QED
    BY <2>14, <2>15
<1>2. s \in SUBSET s
  OBVIOUS
<1> QED
  BY <1>1, <1>2

LEMMA TakesLess ==
    ASSUME NEW m \in Nat, NEW a \in Nat, NEW b \in Nat, a <= b
    PROVE  /\ a - Smaller(m, a) <= b - Smaller(m, b)
           /\ a - Smaller(m, a) \in Nat /\ a - Smaller(m, a) <= a
           /\ Smaller(m, a) > 0 => Smaller(m, b) > 0 /\ a - Smaller(m, a) < a
           /\ ~(Smaller(m, a) > 0) => a - Smaller(m, a) = a
BY DEF Smaller

\* Fewer candidates leave as much or more of a buy to fill, and if they leave
\* as much, they are not cheaper.
LEMMA FewerAreNoBetter ==
    ASSUME Typed, is_buy_mode, NEW s, Within(s), NEW t, t \subseteq s
    PROVE  /\ Sim[s].rest <= Sim[t].rest
           /\ Sim[s].rest = Sim[t].rest =>
                 \A a \in LegCandidates(Sim[s]) : \E b \in LegCandidates(Sim[t]) :
                    req.quotes[a].ratio <= req.quotes[b].ratio
<1> DEFINE Cheaper(x, y) ==
               \A a \in LegCandidates(Sim[x]) : \E b \in LegCandidates(Sim[y]) :
                  req.quotes[a].ratio <= req.quotes[b].ratio
           Holds(x, y) == Sim[x].rest <= Sim[y].rest /\ (Sim[x].rest = Sim[y].rest => Cheaper(x, y))
           bad == {x \in SUBSET s : \E y \in SUBSET x : ~Holds(x, y)}
<1>1. bad = {}
  <2> SUFFICES ASSUME bad # {} PROVE FALSE
    OBVIOUS
  <2>1. \A x \in bad : Within(x)
    BY FewerWithin
  <2>2. {} \notin bad
    <3>1. Sim[{}] = Nothing /\ req.amount \in Nat
      BY SimRule DEF Typed
    <3>2. Sim[{}].rest \in Nat /\ LegCandidates(Sim[{}]) = {}
      BY <3>1 DEF Nothing, LegCandidates
    <3>3. Holds({}, {})
      BY <3>2
    <3> QED
      BY <3>3
  <2>3. PICK x \in bad : Peels(x, Last(x), x \ {Last(x)}) /\ x \ {Last(x)} \notin bad
    <3> HIDE DEF bad
    <3> QED
      BY <2>1, <2>2, PeelSmallest
  <2>4. x \in SUBSET s /\ Within(x) /\ x \subseteq DOMAIN req.quotes
    BY <2>1, <2>3 DEF Within
  <2>5. PICK y \in SUBSET x : ~Holds(x, y)
    BY <2>3
  <2> DEFINE c == Last(x)
             u == x \ {c}
             v == y \ {c}
  <2>6. Peels(x, c, u) /\ u \notin bad /\ u \in SUBSET s
    BY <2>3, <2>4
  <2>7. Holds(u, v)
    <3>1. v \in SUBSET u
      OBVIOUS
    <3> QED
      BY <2>6, <3>1
  <2>8. c \in y => Peels(y, c, v)
    <3> SUFFICES ASSUME c \in y PROVE Peels(y, c, v)
      OBVIOUS
    <3>1. Last(y) = c /\ Within(y) /\ y # {}
      BY <2>4, LastOfFewer, FewerWithin
    <3>2. Peels(y, Last(y), y \ {Last(y)})
      BY <3>1, Peel
    <3> QED
      BY <3>1, <3>2
  <2>9. c \notin y => y = v
    OBVIOUS
  <2>10. \A a \in x : req.quotes[a].ratio <= req.quotes[c].ratio
    BY <2>4, LastIsDearest
  <2>11. c \in x /\ v \subseteq x
    BY <2>6 DEF Peels
  <2> HIDE DEF c, u, v, bad
  <2> DEFINE m == req.quotes[c].max
  <2>12. m \in Nat /\ Sim[u].rest \in Nat /\ Sim[x].rest \in Nat
    BY <2>4, <2>6, <2>11, QuoteTypes DEF Peels
  <2>13. Sim[v].rest \in Nat
    <3>1. Within(v)
      BY <2>4, <2>11, FewerWithin
    <3>2. Fills(Sim[v], v)
      BY <3>1, SimFills
    <3> QED
      BY <3>2 DEF Fills
  <2>14. /\ Sim[x].rest = Sim[u].rest - Smaller(m, Sim[u].rest)
         /\ Takes(Sim[u], c) <=> Smaller(m, Sim[u].rest) > 0
    BY <2>6 DEF Peels
  <2>15. c \in y => /\ Sim[y].rest = Sim[v].rest - Smaller(m, Sim[v].rest)
                    /\ Takes(Sim[v], c) <=> Smaller(m, Sim[v].rest) > 0
    BY <2>8 DEF Peels
  <2> HIDE DEF m
  <2> DEFINE ru == Sim[u].rest
             rv == Sim[v].rest
  <2>16. ru \in Nat /\ rv \in Nat /\ ru <= rv
    BY <2>7, <2>12, <2>13
  <2>17. /\ ru - Smaller(m, ru) <= rv - Smaller(m, rv)
         /\ ru - Smaller(m, ru) \in Nat /\ ru - Smaller(m, ru) <= ru
         /\ Smaller(m, ru) > 0 => Smaller(m, rv) > 0 /\ ru - Smaller(m, ru) < ru
         /\ ~(Smaller(m, ru) > 0) => ru - Smaller(m, ru) = ru
         /\ rv - Smaller(m, rv) \in Nat
         /\ Smaller(m, rv) > 0 => rv - Smaller(m, rv) < rv
         /\ ~(Smaller(m, rv) > 0) => rv - Smaller(m, rv) = rv
    <3> HIDE DEF ru, rv
    <3>1. rv <= rv
      BY <2>16
    <3> QED
      BY <2>12, <2>16, <3>1, TakesLess
  <2>18. Sim[x].rest <= Sim[y].rest
    <3>1. CASE c \in y
      BY <2>14, <2>15, <2>17, <3>1
    <3>2. CASE c \notin y
      BY <2>9, <2>12, <2>14, <2>16, <2>17, <3>2
    <3> QED
      BY <3>1, <3>2
  <2>19. ASSUME Sim[x].rest = Sim[y].rest PROVE Cheaper(x, y)
    <3>1. CASE Takes(Sim[u], c)
      <4>1. c \in y
        BY <2>9, <2>12, <2>14, <2>16, <2>17, <2>19, <3>1
      <4>2. Takes(Sim[v], c)
        BY <2>14, <2>15, <2>17, <3>1, <4>1
      <4>3. c \in LegCandidates(Sim[y])
        BY <2>8, <4>1, <4>2 DEF Peels
      <4>4. LegCandidates(Sim[x]) \subseteq x
        BY <2>4, SimFills
      <4> QED
        BY <2>10, <4>3, <4>4
    <3>2. CASE ~Takes(Sim[u], c)
      <4>1. Sim[x] = Sim[u]
        BY <2>6, <3>2 DEF Peels
      <4>2. CASE c \in y /\ Takes(Sim[v], c)
        <5>1. c \in LegCandidates(Sim[y])
          BY <2>8, <4>2 DEF Peels
        <5>2. LegCandidates(Sim[x]) \subseteq x
          BY <2>4, SimFills
        <5> QED
          BY <2>10, <5>1, <5>2
      <4>3. CASE ~(c \in y /\ Takes(Sim[v], c))
        <5>1. Sim[y] = Sim[v]
          BY <2>8, <2>9, <4>3 DEF Peels
        <5>2. Cheaper(u, v)
          BY <2>7, <2>19, <4>1, <5>1
        <5> QED
          BY <4>1, <5>1, <5>2
      <4> QED
        BY <4>2, <4>3
    <3> QED
      BY <3>1, <3>2
  <2> QED
    BY <2>5, <2>18, <2>19
<1>2. s \in SUBSET s /\ t \in SUBSET s
  OBVIOUS
<1>3. Holds(s, t)
  BY <1>1, <1>2
<1> QED
  BY <1>3

-----------------------------------------------------------------------------
(* What is built                                                           *)

\* Of a Raindex of the quotes, within the cap, and all of an exact request.
Sound(b) ==
    /\ b.ok
    /\ \E c \in DOMAIN req.quotes : b.raindex = req.quotes[c].raindex
    /\ Fills(b.sim, Priced(DOMAIN req.quotes))
    /\ is_exact_mode => ~(Achieved(b.sim) < req.amount)

LEMMA WorstPriceIs ==
    ASSUME Typed, NEW P, Within(P), NEW sim, Fills(sim, P), sim.legs # << >>
    PROVE  /\ worst_price(sim) \in Nat
           /\ \E c \in LegCandidates(sim) : worst_price(sim) = req.quotes[c].ratio
           /\ \A c \in LegCandidates(sim) : req.quotes[c].ratio <= worst_price(sim)
<1> DEFINE s == sim.legs
           idx == DOMAIN s
           price == {req.quotes[c].ratio : c \in LegCandidates(sim)}
<1>2. \A i \in idx : s[i].c \in P
  BY LegsOf
<1>3. idx = 1 .. Len(s) /\ Len(s) \in Nat /\ idx # {}
  BY LegsOf
<1>4. IsFiniteSet(idx)
  BY <1>3, FS_Interval
<1> DEFINE w == [i \in idx |-> req.quotes[s[i].c].ratio]
<1>5. \A i \in idx : w[i] \in Nat /\ w[i] = req.quotes[s[i].c].ratio
  BY <1>2, QuoteTypes DEF Within
<1>6. \E i \in idx : \A j \in idx : w[j] <= w[i]
  <2> HIDE DEF idx, w
  <2>1. \A i \in idx : w[i] \in Int
    BY <1>5
  <2> QED
    BY <1>3, <1>4, <2>1, LargestBy
<1>7. price = {w[i] : i \in idx}
  <2>1. LegCandidates(sim) = {s[i].c : i \in idx}
    BY DEF LegCandidates
  <2> HIDE DEF idx, w, s
  <2> QED
    BY <1>5, <2>1
<1> HIDE DEF idx, w, s, price
<1>8. \E x \in price : \A y \in price : x >= y
  BY <1>5, <1>6, <1>7
<1> DEFINE top == CHOOSE x \in price : \A y \in price : x >= y
<1>9. top \in price /\ \A y \in price : top >= y
  BY <1>8
<1>10. price \subseteq Nat
  BY <1>5, <1>7
<1>11. worst_price(sim) = top
  BY DEF worst_price, Max, price
<1> HIDE DEF top
<1> QED
  BY <1>9, <1>10, <1>11 DEF price

\* The candidates of a Raindex, and the Raindexes with legs.
Of(S, r) == Priced({c \in S : req.quotes[c].raindex = r})

SimOf(S, r) == Sim[Of(S, r)]

Some(S) == {r \in {req.quotes[c].raindex : c \in S} : SimOf(S, r).legs # << >>}

\* What Better compares.
Rank(S) ==
    [r \in Some(S) |-> <<selection_primary(SimOf(S, r)), SimOf(S, r).output, -worst_price(SimOf(S, r)), -r>>]

Leads(S, r) == r \in Some(S) /\ \A q \in Some(S) : ~Beats(Rank(S), q, r)

LEMMA OfIs ==
    ASSUME Typed, NEW S, S \subseteq DOMAIN req.quotes, NEW r
    PROVE  /\ Of(S, r) \subseteq S /\ Within(Of(S, r))
           /\ simulate_candidates({c \in S : req.quotes[c].raindex = r}) = SimOf(S, r)
           /\ Fills(SimOf(S, r), Of(S, r)) /\ LegCandidates(SimOf(S, r)) \subseteq Of(S, r)
<1> DEFINE T == {c \in S : req.quotes[c].raindex = r}
<1>1. T \subseteq DOMAIN req.quotes /\ Of(S, r) = Priced(T)
  BY DEF Of
<1> HIDE DEF T
<1>2. simulate_candidates(T) = SimOf(S, r)
  BY <1>1, SimulateIs DEF SimOf
<1>3. Of(S, r) \subseteq S /\ Within(Of(S, r))
  BY DEF Of, Priced, Within
<1>4. Fills(SimOf(S, r), Of(S, r)) /\ LegCandidates(SimOf(S, r)) \subseteq Of(S, r)
  BY <1>3, SimFills DEF SimOf
<1> QED
  BY <1>2, <1>3, <1>4 DEF T

LEMMA SomeIs ==
    ASSUME Typed, NEW S, S \subseteq DOMAIN req.quotes
    PROVE  /\ IsFiniteSet(Some(S))
           /\ \A r \in Some(S) : /\ r \in Nat \ {0}
                                 /\ \E c \in S : r = req.quotes[c].raindex
                                 /\ SimOf(S, r).legs # << >>
<1> DEFINE raindexes == {req.quotes[c].raindex : c \in S}
           f == [c \in S |-> req.quotes[c].raindex]
<1>1. IsFiniteSet(S)
  BY QuoteTypes, FS_Subset
<1>2. f \in Surjection(S, raindexes)
  <2>1. f \in [S -> raindexes] /\ \A r \in raindexes : \E c \in S : f[c] = r
    OBVIOUS
  <2> HIDE DEF raindexes, f
  <2> QED
    BY <2>1, Zenon DEF Surjection
<1>3. IsFiniteSet(raindexes)
  BY <1>1, <1>2, FS_Surjection
<1>4. Some(S) \subseteq raindexes
  BY DEF Some
<1>5. IsFiniteSet(Some(S))
  BY <1>3, <1>4, FS_Subset
<1> QED
  BY <1>5, QuoteTypes DEF Some

LEMMA RankIs ==
    ASSUME Typed, NEW S, S \subseteq DOMAIN req.quotes
    PROVE  /\ Numbered(Rank(S), Some(S))
           /\ \A r \in Some(S) : /\ Rank(S)[r][1] = selection_primary(SimOf(S, r))
                                 /\ Rank(S)[r][2] = SimOf(S, r).output
                                 /\ Rank(S)[r][3] = -worst_price(SimOf(S, r))
                                 /\ Rank(S)[r][4] = -r
<1>1. \A r \in Some(S) :
         Rank(S)[r] = <<selection_primary(SimOf(S, r)), SimOf(S, r).output, -worst_price(SimOf(S, r)), -r>>
  BY DEF Rank
<1>2. ASSUME NEW r \in Some(S)
      PROVE  /\ selection_primary(SimOf(S, r)) \in Int /\ SimOf(S, r).output \in Int
             /\ -worst_price(SimOf(S, r)) \in Int /\ -r \in Int
  <2> DEFINE sim == SimOf(S, r)
             P == Of(S, r)
  <2>1. Fills(sim, P) /\ Within(P) /\ sim.legs # << >> /\ r \in Nat
    BY OfIs, SomeIs
  <2> HIDE DEF sim, P
  <2>2. worst_price(sim) \in Nat
    BY <2>1, WorstPriceIs
  <2>3. selection_primary(sim) \in Nat /\ sim.output \in Nat
    BY <2>1 DEF Fills, selection_primary
  <2>4. -worst_price(sim) \in Int /\ -r \in Int
    BY <2>1, <2>2
  <2> QED
    BY <2>3, <2>4 DEF sim
<1>3. ASSUME NEW r \in Some(S)
      PROVE  /\ Rank(S)[r][1] \in Int /\ Rank(S)[r][2] \in Int /\ Rank(S)[r][3] \in Int /\ Rank(S)[r][4] \in Int
             /\ Rank(S)[r][1] = selection_primary(SimOf(S, r)) /\ Rank(S)[r][2] = SimOf(S, r).output
             /\ Rank(S)[r][3] = -worst_price(SimOf(S, r)) /\ Rank(S)[r][4] = -r
  BY <1>1, <1>2
<1>4. Numbered(Rank(S), Some(S))
  <2> SUFFICES ASSUME NEW r \in Some(S), NEW i \in 1 .. 4 PROVE Rank(S)[r][i] \in Int
    BY DEF Numbered
  <2>1. i = 1 \/ i = 2 \/ i = 3 \/ i = 4
    OBVIOUS
  <2> QED
    BY <1>3, <2>1
<1> QED
  BY <1>3, <1>4

LEMMA BeatsMeans ==
    ASSUME NEW v, NEW y, NEW x
    PROVE  Beats(v, y, x) <=>
              \/ v[y][1] > v[x][1]
              \/ v[y][1] = v[x][1] /\ v[y][2] > v[x][2]
              \/ v[y][1] = v[x][1] /\ v[y][2] = v[x][2] /\ v[y][3] > v[x][3]
              \/ v[y][1] = v[x][1] /\ v[y][2] = v[x][2] /\ v[y][3] = v[x][3] /\ v[y][4] > v[x][4]
<1> DEFINE At(i) == v[y][i] > v[x][i] /\ \A j \in 1 .. (i - 1) : v[y][j] = v[x][j]
<1>1. 1 .. 4 = {1, 2, 3, 4}
  OBVIOUS
<1>2. 1 .. (1 - 1) = {} /\ 1 .. (2 - 1) = {1} /\ 1 .. (3 - 1) = {1, 2} /\ 1 .. (4 - 1) = {1, 2, 3}
  OBVIOUS
<1>3. Beats(v, y, x) <=> At(1) \/ At(2) \/ At(3) \/ At(4)
  BY <1>1, Zenon DEF Beats
<1>4. At(1) <=> v[y][1] > v[x][1]
  BY <1>2
<1>5. At(2) <=> v[y][1] = v[x][1] /\ v[y][2] > v[x][2]
  BY <1>2
<1>6. At(3) <=> v[y][1] = v[x][1] /\ v[y][2] = v[x][2] /\ v[y][3] > v[x][3]
  BY <1>2
<1>7. At(4) <=> v[y][1] = v[x][1] /\ v[y][2] = v[x][2] /\ v[y][3] = v[x][3] /\ v[y][4] > v[x][4]
  BY <1>2
<1> HIDE DEF At
<1> QED
  BY <1>3, <1>4, <1>5, <1>6, <1>7

LEMMA OneLeads ==
    ASSUME Typed, NEW S, S \subseteq DOMAIN req.quotes
    PROVE  /\ Some(S) # {} => \E r \in Some(S) : Leads(S, r)
           /\ \A q, r \in Some(S) : Leads(S, q) /\ Leads(S, r) => q = r
<1> DEFINE v == Rank(S)
<1>1. Numbered(v, Some(S)) /\ IsFiniteSet(Some(S))
  BY RankIs, SomeIs
<1>2. Some(S) # {} => \E r \in Some(S) : \A q \in Some(S) : ~Beats(v, q, r)
  <2> HIDE DEF v
  <2> QED
    BY <1>1, FirstOf
<1>3. ASSUME NEW q \in Some(S), NEW r \in Some(S), Leads(S, q), Leads(S, r) PROVE q = r
  <2>1. ~Beats(v, q, r) /\ ~Beats(v, r, q)
    BY <1>3 DEF Leads
  <2>2. /\ v[q][1] \in Int /\ v[q][2] \in Int /\ v[q][3] \in Int /\ v[q][4] \in Int
        /\ v[r][1] \in Int /\ v[r][2] \in Int /\ v[r][3] \in Int /\ v[r][4] \in Int
    BY <1>1 DEF Numbered
  <2>3. v[q][4] = v[r][4]
    <3> HIDE DEF v
    <3> QED
      BY <2>1, <2>2, BeatsMeans
  <2>4. -q = -r /\ q \in Nat /\ r \in Nat
    BY <2>3, RankIs, SomeIs
  <2> QED
    BY <2>4
<1> QED
  BY <1>2, <1>3 DEF Leads

\* Build, by the Raindex that leads.
LEMMA BuildIs ==
    ASSUME Typed, NEW S, S \subseteq DOMAIN req.quotes
    PROVE  /\ Some(S) = {} => Build(S) = Failed("NoLiquidity")
           /\ \A r \in Some(S) : Leads(S, r) =>
                 Build(S) = IF is_exact_mode /\ Achieved(SimOf(S, r)) < req.amount
                            THEN Failed("InsufficientLiquidity")
                            ELSE [ok |-> TRUE, raindex |-> r, sim |-> SimOf(S, r)]
<1> DEFINE raindexes == {req.quotes[c].raindex : c \in S}
           sim == [r \in raindexes |-> simulate_candidates({c \in S : req.quotes[c].raindex = r})]
           some == {r \in raindexes : sim[r].legs # << >>}
           best == CHOOSE r \in some : \A q \in some : ~Better(q, sim[q], r, sim[r])
<1>1. Build(S) = IF some = {} THEN Failed("NoLiquidity")
                 ELSE IF is_exact_mode /\ Achieved(sim[best]) < req.amount
                 THEN Failed("InsufficientLiquidity")
                 ELSE [ok |-> TRUE, raindex |-> best, sim |-> sim[best]]
  BY Zenon DEF Build
<1>2. \A r \in raindexes : sim[r] = SimOf(S, r)
  BY OfIs
<1> HIDE DEF sim
<1>3. some = Some(S)
  BY <1>2 DEF Some
<1>4. Some(S) \subseteq raindexes
  BY DEF Some
<1> HIDE DEF some, raindexes
<1>5. ASSUME NEW q \in Some(S), NEW r \in Some(S) PROVE Better(q, sim[q], r, sim[r]) <=> Beats(Rank(S), q, r)
  <2>1. sim[q] = SimOf(S, q) /\ sim[r] = SimOf(S, r)
    BY <1>2, <1>4
  <2>2. Better(q, SimOf(S, q), r, SimOf(S, r)) <=> Beats(Rank(S), q, r)
    BY Zenon DEF Better, Beats, Rank
  <2> QED
    BY <2>1, <2>2
<1>6. ASSUME NEW r \in Some(S), Leads(S, r) PROVE best = r
  <2>1. \A q \in some : ~Better(q, sim[q], r, sim[r])
    BY <1>3, <1>5, <1>6 DEF Leads
  <2>2. best \in some /\ \A q \in some : ~Better(q, sim[q], best, sim[best])
    BY <1>3, <2>1, Zenon
  <2> HIDE DEF best
  <2>3. Leads(S, best)
    BY <1>3, <1>5, <2>2 DEF Leads
  <2> QED
    BY <1>3, <1>6, <2>2, <2>3, OneLeads
<1> HIDE DEF best
<1>7. ASSUME NEW r \in Some(S), Leads(S, r)
      PROVE  Build(S) = IF is_exact_mode /\ Achieved(SimOf(S, r)) < req.amount
                        THEN Failed("InsufficientLiquidity")
                        ELSE [ok |-> TRUE, raindex |-> r, sim |-> SimOf(S, r)]
  <2>1. best = r /\ sim[r] = SimOf(S, r) /\ some # {}
    BY <1>2, <1>3, <1>4, <1>6, <1>7
  <2> QED
    BY <1>1, <2>1
<1> QED
  BY <1>1, <1>3, <1>7

LEMMA BuildOk ==
    ASSUME Typed, NEW S, S \subseteq DOMAIN req.quotes, Build(S).ok
    PROVE  \E r \in Some(S) :
              /\ Leads(S, r) /\ Build(S) = [ok |-> TRUE, raindex |-> r, sim |-> SimOf(S, r)]
              /\ is_exact_mode => ~(Achieved(SimOf(S, r)) < req.amount)
<1>1. ~Failed("NoLiquidity").ok /\ ~Failed("InsufficientLiquidity").ok
  BY DEF Failed
<1>2. PICK r \in Some(S) : Leads(S, r)
  BY <1>1, BuildIs, OneLeads
<1>3. Build(S) = IF is_exact_mode /\ Achieved(SimOf(S, r)) < req.amount
                 THEN Failed("InsufficientLiquidity")
                 ELSE [ok |-> TRUE, raindex |-> r, sim |-> SimOf(S, r)]
  BY <1>2, BuildIs
<1> QED
  BY <1>1, <1>2, <1>3

\* A config that is built is sound, whichever Raindex is the best.
LEMMA BuildSound ==
    ASSUME Typed, NEW S, S \subseteq DOMAIN req.quotes, Build(S).ok
    PROVE  Sound(Build(S))
<1>1. PICK r \in Some(S) :
              /\ Leads(S, r) /\ Build(S) = [ok |-> TRUE, raindex |-> r, sim |-> SimOf(S, r)]
              /\ is_exact_mode => ~(Achieved(SimOf(S, r)) < req.amount)
  BY BuildOk
<1>2. \E c \in DOMAIN req.quotes : r = req.quotes[c].raindex
  BY SomeIs
<1>3. Of(S, r) \subseteq Priced(DOMAIN req.quotes)
  BY DEF Of, Priced
<1>4. Fills(SimOf(S, r), Priced(DOMAIN req.quotes))
  BY <1>3, OfIs, FillsMore
<1> QED
  BY <1>1, <1>2, <1>4 DEF Sound

\* What is filled costs no more than maxSellCap.
LEMMA CapKept ==
    ASSUME Typed, NEW P, NEW sim, Fills(sim, P)
    PROVE  sim.input \in Nat /\ calculate_max_sell_cap \in Nat /\ sim.input <= calculate_max_sell_cap
<1>1. /\ sim.input \in Nat /\ sim.output \in Nat /\ sim.rest \in Nat
      /\ req.amount \in Nat /\ req.cap \in Nat
  BY DEF Fills, Typed
<1>2. CASE is_buy_mode
  <2> DEFINE out == sim.output
             in == sim.input
             m == req.amount * req.cap
  <2>1. out \in Nat /\ in \in Nat /\ out <= req.amount /\ 2 * in <= req.cap * out
    BY <1>1, <1>2 DEF Fills
  <2> HIDE DEF out, in
  <2>2. req.cap * out \in Nat /\ req.cap * out <= req.cap * req.amount /\ req.cap * req.amount = m /\ m \in Nat
    BY <1>1, <2>1, Scaled
  <2> HIDE DEF m
  <2>3. 2 * in <= m
    BY <2>1, <2>2
  <2>4. in <= m \div 2 /\ m \div 2 \in Nat
    BY <2>1, <2>2, <2>3, Halves
  <2> QED
    BY <1>1, <1>2, <2>4 DEF calculate_max_sell_cap, m, in
<1>3. CASE ~is_buy_mode
  BY <1>1, <1>3 DEF Fills, calculate_max_sell_cap
<1> QED
  BY <1>2, <1>3

\* A sound config keeps its promises to the taker.
LEMMA SoundKeeps ==
    ASSUME Typed, NEW b, Sound(b)
    PROVE  /\ b.sim.input <= calculate_max_sell_cap
           /\ \A c \in LegCandidates(b.sim) : req.quotes[c].ratio <= req.cap
           /\ IF is_exact_mode THEN Achieved(b.sim) = req.amount ELSE Achieved(b.sim) <= req.amount
<1> DEFINE all == Priced(DOMAIN req.quotes)
           s == b.sim.legs
<1>1. Fills(b.sim, all) /\ (is_exact_mode => ~(Achieved(b.sim) < req.amount))
  BY DEF Sound
<1>2. /\ b.sim.input \in Nat /\ b.sim.output \in Nat /\ b.sim.rest \in Nat
      /\ req.amount \in Nat /\ req.cap \in Nat
  BY <1>1 DEF Fills, Typed
<1>3. \A c \in LegCandidates(b.sim) : req.quotes[c].ratio <= req.cap
  <2>2. LegCandidates(b.sim) = {s[i].c : i \in DOMAIN s}
    BY DEF LegCandidates
  <2>3. \A i \in DOMAIN s : s[i].c \in all
    <3> HIDE DEF all
    <3> QED
      BY <1>1, LegsOf
  <2> HIDE DEF s
  <2> QED
    BY <2>2, <2>3 DEF Priced
<1>4. Achieved(b.sim) \in Nat /\ Achieved(b.sim) <= req.amount
  BY <1>1, <1>2 DEF Achieved, Fills
<1>5. b.sim.input <= calculate_max_sell_cap
  BY <1>1, CapKept
<1> QED
  BY <1>1, <1>2, <1>3, <1>4, <1>5

-----------------------------------------------------------------------------
(* Building from fewer candidates                                          *)

LEMMA FewerOf ==
    ASSUME Typed, NEW S, S \subseteq DOMAIN req.quotes, NEW H, H \subseteq S, NEW r
    PROVE  /\ Of(H, r) \subseteq Of(S, r)
           /\ LegCandidates(SimOf(S, r)) \subseteq H => SimOf(H, r) = SimOf(S, r)
<1>1. Of(H, r) \subseteq Of(S, r) /\ Of(S, r) \cap H \subseteq Of(H, r)
  BY DEF Of, Priced
<1>2. Within(Of(S, r)) /\ LegCandidates(SimOf(S, r)) \subseteq Of(S, r)
  BY OfIs
<1>3. LegCandidates(SimOf(S, r)) \subseteq H => SimOf(H, r) = SimOf(S, r)
  <2> SUFFICES ASSUME LegCandidates(SimOf(S, r)) \subseteq H PROVE SimOf(H, r) = SimOf(S, r)
    OBVIOUS
  <2>1. LegCandidates(Sim[Of(S, r)]) \subseteq Of(H, r)
    BY <1>1, <1>2 DEF SimOf
  <2> QED
    BY <1>1, <1>2, <2>1, SkippedLeave DEF SimOf
<1> QED
  BY <1>1, <1>3

\* A Raindex with fewer of its candidates ranks no higher.
LEMMA FewerRank ==
    ASSUME Typed, is_buy_mode, NEW S, S \subseteq DOMAIN req.quotes, NEW H, H \subseteq S, NEW q \in Some(H)
    PROVE  /\ q \in Some(S)
           /\ SimOf(H, q).output <= SimOf(S, q).output
           /\ SimOf(H, q).output = SimOf(S, q).output =>
                 worst_price(SimOf(S, q)) <= worst_price(SimOf(H, q))
<1>1. H \subseteq DOMAIN req.quotes
  OBVIOUS
<1>10. SimOf(S, q).legs = << >> => SimOf(H, q).legs = << >>
  <2> SUFFICES ASSUME SimOf(S, q).legs = << >> PROVE SimOf(H, q) = SimOf(S, q)
    BY Zenon
  <2>1. DOMAIN SimOf(S, q).legs = {}
    OBVIOUS
  <2>2. LegCandidates(SimOf(S, q)) = {}
    BY <2>1 DEF LegCandidates
  <2> QED
    BY <2>2, FewerOf
<1> DEFINE a == SimOf(H, q)
           b == SimOf(S, q)
<1>2. a.legs # << >> /\ \E c \in H : q = req.quotes[c].raindex
  BY <1>1, SomeIs
<1>3. b.legs # << >>
  <2> HIDE DEF SimOf
  <2> QED
    BY <1>2, <1>10, Zenon
<1>4. q \in Some(S)
  BY <1>2, <1>3 DEF Some
<1>5. Fills(a, Of(H, q)) /\ Within(Of(H, q)) /\ Fills(b, Of(S, q)) /\ Within(Of(S, q))
  BY <1>1, OfIs
<1>6. /\ b.rest <= a.rest
      /\ b.rest = a.rest => \A x \in LegCandidates(b) : \E y \in LegCandidates(a) :
                               req.quotes[x].ratio <= req.quotes[y].ratio
  BY <1>5, FewerOf, FewerAreNoBetter DEF SimOf
<1> HIDE DEF a, b
<1>7. /\ a.output \in Nat /\ a.rest \in Nat /\ a.output + a.rest = req.amount
      /\ b.output \in Nat /\ b.rest \in Nat /\ b.output + b.rest = req.amount
  BY <1>5 DEF Fills
<1>8. a.output <= b.output /\ (a.output = b.output => a.rest = b.rest)
  BY <1>6, <1>7
<1>9. ASSUME a.output = b.output PROVE worst_price(b) <= worst_price(a)
  <2>1. PICK x \in LegCandidates(b) : worst_price(b) = req.quotes[x].ratio
    BY <1>3, <1>5, WorstPriceIs
  <2>2. PICK y \in LegCandidates(a) : req.quotes[x].ratio <= req.quotes[y].ratio
    BY <1>6, <1>8, <1>9
  <2>3. req.quotes[y].ratio <= worst_price(a) /\ worst_price(a) \in Nat /\ worst_price(b) \in Nat
    BY <1>2, <1>3, <1>5, WorstPriceIs DEF a, b
  <2>4. req.quotes[y].ratio \in Nat
    <3>1. y \in Of(H, q)
      BY <1>1, OfIs DEF a
    <3> QED
      BY <1>5, <3>1, QuoteTypes DEF Within
  <2> QED
    BY <2>1, <2>2, <2>3, <2>4
<1> QED
  BY <1>4, <1>8, <1>9 DEF a, b

\* The best of more candidates, if it needs only some of them, is the best of
\* those.
LEMMA LeadsFewer ==
    ASSUME Typed, is_buy_mode, NEW S, S \subseteq DOMAIN req.quotes, NEW H, H \subseteq S,
           NEW r \in Some(S), Leads(S, r), LegCandidates(SimOf(S, r)) \subseteq H
    PROVE  r \in Some(H) /\ Leads(H, r) /\ SimOf(H, r) = SimOf(S, r)
<1>1. H \subseteq DOMAIN req.quotes
  OBVIOUS
<1>2. SimOf(H, r) = SimOf(S, r)
  BY FewerOf
<1>3. r \in Some(H)
  <2>1. SimOf(S, r).legs # << >> /\ Fills(SimOf(S, r), Of(S, r))
    BY SomeIs, OfIs
  <2>2. \E c \in LegCandidates(SimOf(S, r)) : TRUE
    <3> DEFINE s == SimOf(S, r).legs
    <3>1. DOMAIN s # {}
      BY <2>1, LegsOf
    <3>2. LegCandidates(SimOf(S, r)) = {s[i].c : i \in DOMAIN s}
      BY DEF LegCandidates
    <3> HIDE DEF s
    <3> QED
      BY <3>1, <3>2
  <2>3. PICK c \in LegCandidates(SimOf(S, r)) : TRUE
    BY <2>2
  <2>4. c \in H /\ req.quotes[c].raindex = r
    BY OfIs DEF Of, Priced
  <2> QED
    BY <1>2, <2>1, <2>4 DEF Some
<1>4. ASSUME NEW q \in Some(H), Beats(Rank(H), q, r) PROVE FALSE
  <2> DEFINE a == Rank(H)
             b == Rank(S)
  <2>1. /\ q \in Some(S)
        /\ SimOf(H, q).output <= SimOf(S, q).output
        /\ SimOf(H, q).output = SimOf(S, q).output =>
                 worst_price(SimOf(S, q)) <= worst_price(SimOf(H, q))
    BY FewerRank
  <2>2. \A sim : selection_primary(sim) = sim.output
    BY DEF selection_primary, is_buy_mode
  <2>3. /\ a[q][1] = SimOf(H, q).output /\ a[q][2] = SimOf(H, q).output
        /\ a[q][3] = -worst_price(SimOf(H, q)) /\ a[q][4] = -q
        /\ a[r][1] = SimOf(S, r).output /\ a[r][2] = SimOf(S, r).output
        /\ a[r][3] = -worst_price(SimOf(S, r)) /\ a[r][4] = -r
    BY <1>1, <1>2, <1>3, <2>2, RankIs
  <2>4. /\ b[q][1] = SimOf(S, q).output /\ b[q][2] = SimOf(S, q).output
        /\ b[q][3] = -worst_price(SimOf(S, q)) /\ b[q][4] = -q
        /\ b[r][1] = SimOf(S, r).output /\ b[r][2] = SimOf(S, r).output
        /\ b[r][3] = -worst_price(SimOf(S, r)) /\ b[r][4] = -r
    BY <2>1, <2>2, RankIs
  <2>5. ASSUME NEW T, T \subseteq DOMAIN req.quotes, NEW p \in Some(T)
        PROVE  SimOf(T, p).output \in Nat /\ worst_price(SimOf(T, p)) \in Nat /\ p \in Nat
    <3> DEFINE sim == SimOf(T, p)
               P == Of(T, p)
    <3>1. Fills(sim, P) /\ Within(P) /\ sim.legs # << >> /\ p \in Nat
      BY <2>5, OfIs, SomeIs
    <3> HIDE DEF sim, P
    <3>2. sim.output \in Nat /\ worst_price(sim) \in Nat
      BY <3>1, WorstPriceIs DEF Fills
    <3> QED
      BY <3>1, <3>2 DEF sim
  <2>6. /\ SimOf(H, q).output \in Nat /\ worst_price(SimOf(H, q)) \in Nat /\ q \in Nat
        /\ SimOf(S, q).output \in Nat /\ worst_price(SimOf(S, q)) \in Nat
        /\ SimOf(S, r).output \in Nat /\ worst_price(SimOf(S, r)) \in Nat /\ r \in Nat
    BY <1>1, <2>1, <2>5
  <2>7. \/ a[q][1] > a[r][1]
        \/ a[q][1] = a[r][1] /\ a[q][2] > a[r][2]
        \/ a[q][1] = a[r][1] /\ a[q][2] = a[r][2] /\ a[q][3] > a[r][3]
        \/ a[q][1] = a[r][1] /\ a[q][2] = a[r][2] /\ a[q][3] = a[r][3] /\ a[q][4] > a[r][4]
    BY <1>4, BeatsMeans
  <2>8. ~(\/ b[q][1] > b[r][1]
          \/ b[q][1] = b[r][1] /\ b[q][2] > b[r][2]
          \/ b[q][1] = b[r][1] /\ b[q][2] = b[r][2] /\ b[q][3] > b[r][3]
          \/ b[q][1] = b[r][1] /\ b[q][2] = b[r][2] /\ b[q][3] = b[r][3] /\ b[q][4] > b[r][4])
    <3>1. ~Beats(b, q, r)
      BY <2>1 DEF Leads
    <3> HIDE DEF b
    <3> QED
      BY <3>1, BeatsMeans
  <2> DEFINE x == SimOf(H, q).output
             xw == worst_price(SimOf(H, q))
             y == SimOf(S, q).output
             yw == worst_price(SimOf(S, q))
             z == SimOf(S, r).output
             zw == worst_price(SimOf(S, r))
  <2>9. \/ x > z
        \/ x = z /\ -xw > -zw
        \/ x = z /\ -xw = -zw /\ -q > -r
    BY <2>3, <2>6, <2>7
  <2>10. /\ ~(y > z)
         /\ ~(y = z /\ -yw > -zw)
         /\ ~(y = z /\ -yw = -zw /\ -q > -r)
    BY <2>4, <2>6, <2>8
  <2>11. x <= y /\ (x = y => yw <= xw)
    BY <2>1
  <2>12. x \in Nat /\ xw \in Nat /\ y \in Nat /\ yw \in Nat /\ z \in Nat /\ zw \in Nat /\ q \in Nat /\ r \in Nat
    BY <2>6
  <2> HIDE DEF x, xw, y, yw, z, zw
  <2> QED
    BY <2>9, <2>10, <2>11, <2>12
<1> QED
  BY <1>2, <1>3, <1>4 DEF Leads

\* What cannot be built from more candidates cannot be built from fewer, and
\* what is built from more without the others is built from fewer too.
LEMMA FewerBuildNoBetter ==
    ASSUME Typed, is_buy_mode, NEW S, S \subseteq DOMAIN req.quotes, NEW H, H \subseteq S
    PROVE  /\ ~Build(S).ok => ~Build(H).ok
           /\ Build(S).ok /\ LegCandidates(Build(S).sim) \subseteq H => Build(H) = Build(S)
<1>1. H \subseteq DOMAIN req.quotes
  OBVIOUS
<1>2. ASSUME Build(H).ok PROVE Build(S).ok
  <2>1. PICK q \in Some(H) :
              /\ Leads(H, q) /\ Build(H) = [ok |-> TRUE, raindex |-> q, sim |-> SimOf(H, q)]
              /\ is_exact_mode => ~(Achieved(SimOf(H, q)) < req.amount)
    BY <1>1, <1>2, BuildOk
  <2>2. q \in Some(S) /\ SimOf(H, q).output <= SimOf(S, q).output
    BY FewerRank
  <2>3. PICK r \in Some(S) : Leads(S, r)
    BY <2>2, OneLeads
  <2> DEFINE x == SimOf(H, q).output
             y == SimOf(S, q).output
             z == SimOf(S, r).output
  <2>4. x \in Nat /\ y \in Nat /\ z \in Nat /\ req.amount \in Nat
    BY <1>1, OfIs DEF Fills, Typed
  <2>5. ~(y > z)
    <3>1. ~Beats(Rank(S), q, r)
      BY <2>2, <2>3 DEF Leads
    <3>2. selection_primary(SimOf(S, q)) = y /\ selection_primary(SimOf(S, r)) = z
      BY DEF selection_primary, is_buy_mode
    <3>3. Rank(S)[q][1] = y /\ Rank(S)[r][1] = z
      BY <2>2, <3>2, RankIs
    <3> HIDE DEF y, z
    <3> QED
      BY <3>1, <3>3, BeatsMeans
  <2>6. is_exact_mode => ~(z < req.amount)
    <3>1. is_exact_mode => ~(x < req.amount)
      BY <2>1 DEF Achieved
    <3>2. x <= y
      BY <2>2
    <3> HIDE DEF x, y, z
    <3> QED
      BY <2>4, <2>5, <3>1, <3>2
  <2>7. ~(is_exact_mode /\ Achieved(SimOf(S, r)) < req.amount)
    BY <2>6 DEF Achieved
  <2>8. Build(S) = [ok |-> TRUE, raindex |-> r, sim |-> SimOf(S, r)]
    BY <2>3, <2>7, BuildIs
  <2> QED
    BY <2>8
<1>3. ASSUME Build(S).ok, LegCandidates(Build(S).sim) \subseteq H PROVE Build(H) = Build(S)
  <2>1. PICK r \in Some(S) :
              /\ Leads(S, r) /\ Build(S) = [ok |-> TRUE, raindex |-> r, sim |-> SimOf(S, r)]
              /\ is_exact_mode => ~(Achieved(SimOf(S, r)) < req.amount)
    BY <1>3, BuildOk
  <2>2. Build(S).sim = SimOf(S, r)
    BY <2>1
  <2>3. r \in Some(H) /\ Leads(H, r) /\ SimOf(H, r) = SimOf(S, r)
    BY <1>3, <2>1, <2>2, LeadsFewer
  <2>4. Build(H) = IF is_exact_mode /\ Achieved(SimOf(H, r)) < req.amount
                   THEN Failed("InsufficientLiquidity")
                   ELSE [ok |-> TRUE, raindex |-> r, sim |-> SimOf(H, r)]
    BY <1>1, <2>3, BuildIs
  <2> QED
    BY <2>1, <2>3, <2>4
<1> QED
  BY <1>2, <1>3

-----------------------------------------------------------------------------
(* Where nothing but an order makes a take revert                          *)

\* What BestOfHealthy leaves out does not happen.
Calm == req.shared = {} /\ CapIsWhole /\ req.balance >= Required

Healthy == Candidates(req.quotes) \ req.bad

LEMMA RoundedUp ==
    ASSUME NEW x \in Nat, NEW m \in Nat, x <= m, m % Unit = 0
    PROVE  (x + Unit - 1) \div Unit \in Nat /\ (x + Unit - 1) \div Unit <= m \div Unit
BY DEF Unit

\* Where the cap is covered, a take fails for its orders only.
LEMMA OnlyOrdersRevert ==
    ASSUME Typed, is_buy_mode, Calm, NEW P, NEW sim, Fills(sim, P),
           NEW r, req.allowance[r] \in Nat, req.allowance[r] >= Required, NEW m
    PROVE  Reverts(r, sim, m) <=> LegCandidates(sim) \cap req.bad # {}
<1>1. sim.input \in Nat /\ calculate_max_sell_cap \in Nat /\ sim.input <= calculate_max_sell_cap
  BY CapKept
<1>2. calculate_max_sell_cap % Unit = 0
  BY DEF Calm, CapIsWhole
<1>3. Pulled(sim) \in Nat /\ Pulled(sim) <= Required
  BY <1>1, <1>2, RoundedUp DEF Pulled, Required
<1>4. Required \in Nat
  <2> DEFINE k == calculate_max_sell_cap
  <2>1. k \in Nat
    BY <1>1
  <2> HIDE DEF k
  <2>2. k \div Unit \in Nat
    BY <2>1 DEF Unit
  <2> QED
    BY <2>2 DEF Required, k
<1>5. ~(Pulled(sim) > Smaller(req.allowance[r], req.balance))
  BY <1>3, <1>4 DEF Smaller, Calm, Typed
<1>6. ~(Cardinality(LegCandidates(sim) \cap req.shared) > 1)
  <2>1. LegCandidates(sim) \cap req.shared = {}
    BY DEF Calm
  <2>2. Cardinality({}) = 0
    BY FS_EmptySet
  <2> QED
    BY <2>1, <2>2
<1> QED
  BY <1>5, <1>6, Zenon DEF Reverts

\* An order with capacity and within the cap is taken alone.
LEMMA TakenAlone ==
    ASSUME Typed, is_buy_mode, req.amount > 0, NEW c \in DOMAIN req.quotes,
           req.quotes[c].ratio <= req.cap, req.quotes[c].max > 0
    PROVE  Fills(simulate_candidates({c}), {c}) /\ LegCandidates(simulate_candidates({c})) = {c}
<1>1. {c} \subseteq DOMAIN req.quotes /\ Within({c}) /\ Priced({c}) = {c}
  BY DEF Within, Priced
<1>2. simulate_candidates({c}) = Sim[{c}]
  BY <1>1, SimulateIs
<1>3. Last({c}) = c
  BY <1>1, LastIn
<1>4. {c} \ {c} = {} /\ {c} # {}
  OBVIOUS
<1>5. Sim[{c}] = AddLeg(Sim[{}], c)
  BY <1>1, <1>3, <1>4, SimStep
<1>6. Sim[{c}] = AddLeg(Nothing, c)
  BY <1>5, SimRule
<1>7. Nothing.rest = req.amount /\ Fills(Nothing, {c})
  BY NothingFills DEF Nothing
<1>8. Smaller(req.quotes[c].max, Nothing.rest) > 0
  BY <1>7 DEF Smaller
<1>9. Takes(Nothing, c) /\ LegCandidates(AddLeg(Nothing, c)) = LegCandidates(Nothing) \cup {c}
  BY <1>1, <1>7, <1>8, AddLegCases
<1>10. LegCandidates(Nothing) = {}
  BY DEF LegCandidates, Nothing
<1>11. LegCandidates(Sim[{c}]) = {c}
  BY <1>6, <1>9, <1>10
<1> QED
  BY <1>1, <1>2, <1>11, SimFills

\* What is built has legs, each of which would be taken alone.
LEMMA LegsOfBuilt ==
    ASSUME Typed, NEW S, S \subseteq Candidates(req.quotes), Build(S).ok
    PROVE  /\ Build(S).sim.legs # << >> /\ Len(Build(S).sim.legs) \in Nat \ {0}
           /\ DOMAIN Build(S).sim.legs = 1 .. Len(Build(S).sim.legs)
           /\ LegCandidates(Build(S).sim) \subseteq S
           /\ req.amount > 0
           /\ \A i \in DOMAIN Build(S).sim.legs :
                 LET c == Build(S).sim.legs[i].c
                 IN  c \in S /\ req.quotes[c].ratio <= req.cap /\ req.quotes[c].max > 0
<1>1. S \subseteq DOMAIN req.quotes /\ \A c \in S : req.quotes[c].max > 0
  BY DEF Candidates
<1>2. PICK r \in Some(S) : Build(S) = [ok |-> TRUE, raindex |-> r, sim |-> SimOf(S, r)]
  BY <1>1, BuildOk
<1>3. Build(S).sim = SimOf(S, r)
  BY <1>2
<1> DEFINE sim == SimOf(S, r)
           P == Of(S, r)
<1>4. Fills(sim, P) /\ P \subseteq S /\ Within(P) /\ LegCandidates(sim) \subseteq P /\ sim.legs # << >>
  BY <1>1, OfIs, SomeIs
<1> HIDE DEF sim, P
<1>5. req.amount > 0
  BY <1>4 DEF Fills
<1>6. /\ DOMAIN sim.legs = 1 .. Len(sim.legs) /\ Len(sim.legs) \in Nat
      /\ \A i \in DOMAIN sim.legs : sim.legs[i].c \in P
      /\ DOMAIN sim.legs # {}
  BY <1>4, LegsOf
<1>7. Len(sim.legs) # 0
  BY <1>6
<1>8. \A i \in DOMAIN sim.legs :
         sim.legs[i].c \in S /\ req.quotes[sim.legs[i].c].ratio <= req.cap /\ req.quotes[sim.legs[i].c].max > 0
  BY <1>1, <1>4, <1>6 DEF Within
<1>9. Build(S).sim = sim
  BY <1>3 DEF sim
<1> QED
  BY <1>4, <1>5, <1>6, <1>7, <1>8, <1>9

LEMMA NothingBuilt ==
    ASSUME Typed
    PROVE  ~Build({}).ok
<1> SUFFICES ASSUME Build({}).ok PROVE FALSE
  OBVIOUS
<1>1. {} \subseteq DOMAIN req.quotes
  OBVIOUS
<1>2. PICK r \in Some({}) : TRUE
  BY <1>1, BuildOk
<1>3. \E c \in {} : r = req.quotes[c].raindex
  BY <1>1, SomeIs
<1> QED
  BY <1>3

\* Why nothing is built.
LEMMA BuildFails ==
    ASSUME Typed, NEW S, S \subseteq DOMAIN req.quotes, ~Build(S).ok
    PROVE  Build(S).why # "Exceeded"
<1>1. /\ Failed("NoLiquidity").why # "Exceeded" /\ Failed("InsufficientLiquidity").why # "Exceeded"
  BY DEF Failed
<1>2. CASE Some(S) = {}
  BY <1>1, <1>2, BuildIs
<1>3. CASE Some(S) # {}
  <2>1. PICK r \in Some(S) : Leads(S, r)
    BY <1>3, OneLeads
  <2>2. Build(S) = IF is_exact_mode /\ Achieved(SimOf(S, r)) < req.amount
                   THEN Failed("InsufficientLiquidity")
                   ELSE [ok |-> TRUE, raindex |-> r, sim |-> SimOf(S, r)]
    BY <2>1, BuildIs
  <2> QED
    BY <1>1, <2>2
<1> QED
  BY <1>2, <1>3

\* A config without orders that revert is the best of the healthy ones.
LEMMA BestFound ==
    ASSUME Typed, is_buy_mode, NEW S, S \subseteq Candidates(req.quotes), Healthy \subseteq S
    PROVE  /\ ~Build(S).ok => ~Build(Healthy).ok
           /\ Build(S).ok /\ LegCandidates(Build(S).sim) \cap req.bad = {} => Build(Healthy) = Build(S)
<1>1. S \subseteq DOMAIN req.quotes
  BY DEF Candidates
<1>2. /\ ~Build(S).ok => ~Build(Healthy).ok
      /\ Build(S).ok /\ LegCandidates(Build(S).sim) \subseteq Healthy => Build(Healthy) = Build(S)
  BY <1>1, FewerBuildNoBetter
<1>3. ASSUME Build(S).ok, LegCandidates(Build(S).sim) \cap req.bad = {}
      PROVE  LegCandidates(Build(S).sim) \subseteq Healthy
  BY <1>3, LegsOfBuilt DEF Healthy
<1> QED
  BY <1>2, <1>3

-----------------------------------------------------------------------------
(* The loop                                                                *)

\* What ReadyWillSucceed says of a config.
Promise(b) ==
    /\ ~Reverts(b.raindex, b.sim, is_exact_mode)
    /\ req.allowance[b.raindex] >= Required
    /\ b.sim.input <= calculate_max_sell_cap
    /\ \A c \in LegCandidates(b.sim) : req.quotes[c].ratio <= req.cap
    /\ IF is_exact_mode THEN Achieved(b.sim) = req.amount ELSE Achieved(b.sim) <= req.amount

Locations ==
    [pc : {"select", "approve", "simulate", "single", "probe", "whole", "done"}, idx : Nat, try : Nat]

Approved == at.pc \in {"simulate", "single", "probe", "whole"}

\* What is built is sound, and where it is simulated its Raindex is the one
\* that was checked: that one has the allowance, whichever were checked before.
ClientInv ==
    /\ req \in Request
    /\ at \in Locations
    /\ remaining \subseteq DOMAIN req.quotes
    /\ at.pc = "approve" \/ Approved => Sound(built)
    /\ Approved => checked = built.raindex
    /\ checked # 0 => req.allowance[checked] >= Required
    /\ result.kind = "ready" => Promise(result.built)

LEMMA RequestTyped ==
    ASSUME req \in Request
    PROVE  Typed
BY ClientAssumption DEF Typed

\* A request stays the same, so what is said of a config does.
LEMMA SoundStays ==
    ASSUME req' = req
    PROVE  Sound(built)' <=> Sound(built')
BY DEF Sound, Fills, Leg, Priced, is_exact_mode, is_buy_mode, Achieved

LEMMA PromiseStays ==
    ASSUME req' = req
    PROVE  Promise(result.built)' <=> Promise(result'.built)
BY DEF Promise, Reverts, LegCandidates, Pulled, Required, calculate_max_sell_cap, is_exact_mode,
       is_buy_mode, Achieved

LEMMA StepsAreLocations ==
    /\ Step("select") \in Locations /\ Step("approve") \in Locations /\ Step("simulate") \in Locations
    /\ Step("single") \in Locations /\ Step("probe") \in Locations /\ Step("whole") \in Locations
    /\ Step("done") \in Locations
BY DEF Step, Locations

LEMMA RequiredStays ==
    ASSUME req' = req
    PROVE  Required' = Required
BY DEF Required, calculate_max_sell_cap, is_buy_mode

\* A step that leaves the config, the checks and the result.
LEMMA MovesOn ==
    ASSUME ClientInv, UNCHANGED <<req, remaining, built, checked, result>>,
           at' \in Locations, Approved' => Approved, at'.pc = "approve" => at.pc = "approve"
    PROVE  ClientInv'
<1>1. Sound(built)' <=> Sound(built)
  BY SoundStays
<1>2. Promise(result.built)' <=> Promise(result.built)
  BY PromiseStays
<1>3. Required' = Required
  BY RequiredStays
<1> QED
  BY <1>1, <1>2, <1>3 DEF ClientInv

LEMMA FinishKeeps ==
    ASSUME ClientInv, NEW r, Finish(r), r.kind # "ready"
    PROVE  ClientInv'
<1>1. /\ result' = r /\ at' \in Locations /\ at'.pc = "done"
      /\ UNCHANGED <<req, remaining, built, checked>>
  BY StepsAreLocations DEF Finish, Step
<1>2. Required' = Required
  BY <1>1, RequiredStays
<1> QED
  BY <1>1, <1>2 DEF ClientInv, Approved

LEMMA ReadyKeeps ==
    ASSUME ClientInv, Approved, ~BuiltReverts, Ready
    PROVE  ClientInv'
<1>1. /\ result' = [kind |-> "ready", built |-> built]
      /\ at' \in Locations /\ at'.pc = "done" /\ UNCHANGED <<req, remaining, built, checked>>
  BY StepsAreLocations DEF Ready, Finish, Step
<1>2. Required' = Required
  BY <1>1, RequiredStays
<1>3. Typed /\ Sound(built)
  BY RequestTyped DEF ClientInv
<1>4. checked # 0
  <2>1. PICK c \in DOMAIN req.quotes : built.raindex = req.quotes[c].raindex
    BY <1>3 DEF Sound
  <2> QED
    BY <1>3, <2>1, QuoteTypes DEF ClientInv
<1>5. Promise(built)
  BY <1>3, <1>4, SoundKeeps DEF ClientInv, Promise, BuiltReverts
<1>6. Promise(result.built)'
  <2>1. result'.built = built
    BY <1>1
  <2> QED
    BY <1>1, <1>5, <2>1, PromiseStays
<1> QED
  BY <1>1, <1>2, <1>6 DEF ClientInv, Approved

LEMMA RebuildKeeps ==
    ASSUME ClientInv, NEW S, S \subseteq remaining, Rebuild(S)
    PROVE  ClientInv'
<1>1. remaining' = S /\ UNCHANGED <<req, checked>>
  BY DEF Rebuild
<1>2. Required' = Required
  BY <1>1, RequiredStays
<1>3. CASE S = {} \/ ~Build(S).ok
  <2>1. result' = Error(IF S = {} THEN "AllFailed" ELSE Build(S).why) /\ at' = Step("done")
    BY <1>3, Zenon DEF Rebuild
  <2>2. result'.kind = "error" /\ at' \in Locations /\ at'.pc = "done"
    BY <2>1, StepsAreLocations DEF Error, Step
  <2> QED
    BY <1>1, <1>2, <2>2 DEF ClientInv, Approved
<1>4. CASE ~(S = {} \/ ~Build(S).ok)
  <2>1. built' = Build(S) /\ at' = Step("approve") /\ result' = result
    BY <1>4, Zenon DEF Rebuild
  <2>2. at' \in Locations /\ at'.pc = "approve"
    BY <2>1, StepsAreLocations DEF Step
  <2>3. Sound(Build(S))
    BY <1>4, RequestTyped, BuildSound DEF ClientInv
  <2>4. Sound(built)'
    <3>1. Sound(built')
      BY <2>1, <2>3
    <3> QED
      BY <1>1, <3>1, SoundStays
  <2>5. Promise(result.built)' <=> Promise(result.built)
    BY <1>1, <2>1, PromiseStays
  <2> QED
    BY <1>1, <1>2, <2>1, <2>2, <2>4, <2>5 DEF ClientInv, Approved
<1> QED
  BY <1>3, <1>4

LEMMA ErrorsAreNotReady ==
    ASSUME NEW why
    PROVE  Error(why).kind # "ready"
BY DEF Error

LEMMA SelectKeeps ==
    ASSUME ClientInv, Select
    PROVE  ClientInv'
<1> DEFINE b == Build(remaining)
<1>1. CASE ~b.ok /\ Finish(Error(b.why))
  <2> HIDE DEF b
  <2> QED
    BY <1>1, FinishKeeps, ErrorsAreNotReady
<1>2. CASE b.ok /\ built' = b /\ at' = Step("approve") /\ UNCHANGED <<req, remaining, checked, iteration, result>>
  <2>1. at' \in Locations /\ at'.pc = "approve"
    BY <1>2, StepsAreLocations DEF Step
  <2>2. Sound(b)
    BY <1>2, RequestTyped, BuildSound DEF ClientInv
  <2> HIDE DEF b
  <2>3. Sound(built)'
    <3>1. Sound(built')
      BY <1>2, <2>2
    <3> QED
      BY <1>2, <3>1, SoundStays
  <2>4. Required' = Required
    BY <1>2, RequiredStays
  <2>5. Promise(result.built)' <=> Promise(result.built)
    BY <1>2, PromiseStays
  <2> QED
    BY <1>2, <2>1, <2>3, <2>4, <2>5 DEF ClientInv, Approved
<1> QED
  BY <1>1, <1>2, Zenon DEF Select

LEMMA CheckApprovalKeeps ==
    ASSUME ClientInv, CheckApproval
    PROVE  ClientInv'
<1>1. CASE Finish(Error("Exceeded")) \/ Finish(Error("Rpc"))
  BY <1>1, FinishKeeps, ErrorsAreNotReady
<1>2. CASE Finish([kind |-> "approval", raindex |-> built.raindex])
  BY <1>2, FinishKeeps
<1>3. CASE /\ checked' = built.raindex \/ (~NeedsCheck /\ checked' = checked)
           /\ ~NeedsCheck \/ req.allowance[built.raindex] >= Required
           /\ at' = Step("simulate") /\ UNCHANGED <<req, remaining, built, result>>
  <2>1. at' \in Locations /\ at'.pc = "simulate"
    BY <1>3, StepsAreLocations DEF Step
  <2>2. checked' = built.raindex
    BY <1>3 DEF NeedsCheck
  <2>3. Sound(built)
    BY DEF CheckApproval, ClientInv
  <2>4. Sound(built)' /\ (Promise(result.built)' <=> Promise(result.built)) /\ Required' = Required
    BY <1>3, <2>3, SoundStays, PromiseStays, RequiredStays
  <2>5. checked' # 0 => req.allowance[checked'] >= Required
    BY <1>3, <2>2 DEF NeedsCheck, ClientInv
  <2> QED
    BY <1>3, <2>1, <2>2, <2>4, <2>5 DEF ClientInv, Approved
<1>4. \/ Finish(Error("Exceeded")) \/ Finish(Error("Rpc"))
      \/ Finish([kind |-> "approval", raindex |-> built.raindex])
      \/ /\ checked' = built.raindex \/ (~NeedsCheck /\ checked' = checked)
         /\ ~NeedsCheck \/ req.allowance[built.raindex] >= Required
         /\ at' = Step("simulate") /\ UNCHANGED <<req, remaining, built, result>>
  <2>1. CASE iteration >= MaxIterations
    BY <2>1, Zenon DEF CheckApproval
  <2>2. CASE ~(iteration >= MaxIterations) /\ ~NeedsCheck
    BY <2>2, Zenon DEF CheckApproval
  <2>3. CASE ~(iteration >= MaxIterations) /\ NeedsCheck
    BY <2>3, Zenon DEF CheckApproval
  <2> QED
    BY <2>1, <2>2, <2>3
<1> QED
  BY <1>1, <1>2, <1>3, <1>4

LEMMA AnswerOfNoError ==
    ASSUME NEW reverts, NEW err, Answer(reverts, err), ~err
    PROVE  ~reverts
BY DEF Answer

LEMMA SimulateKeeps ==
    ASSUME ClientInv, Simulate
    PROVE  ClientInv'
<1>1. PICK err \in BOOLEAN :
          /\ Answer(BuiltReverts, err)
          /\ \/ ~err /\ Ready
             \/ /\ at' = Step(IF Len(built.sim.legs) = 1 THEN "single" ELSE "probe")
                /\ UNCHANGED <<req, remaining, built, checked, iteration, result>>
  BY Zenon DEF Simulate
<1>2. Approved /\ at.pc = "simulate"
  BY DEF Simulate, Approved
<1>3. CASE ~err /\ Ready
  BY <1>1, <1>2, <1>3, AnswerOfNoError, ReadyKeeps
<1>4. CASE /\ at' = Step(IF Len(built.sim.legs) = 1 THEN "single" ELSE "probe")
           /\ UNCHANGED <<req, remaining, built, checked, iteration, result>>
  <2>1. at' \in Locations /\ at'.pc # "approve"
    BY <1>4, StepsAreLocations DEF Step
  <2> QED
    BY <1>2, <1>4, <2>1, MovesOn
<1> QED
  BY <1>1, <1>3, <1>4

LEMMA DiagnoseKeeps ==
    ASSUME ClientInv, DiagnoseSingle \/ DiagnoseProbe \/ DiagnoseWhole
    PROVE  ClientInv'
<1>1. Approved
  BY DEF DiagnoseSingle, DiagnoseProbe, DiagnoseWhole, Approved
<1>2. CASE \E S : S \subseteq remaining /\ Rebuild(S)
  BY <1>2, RebuildKeeps
<1>3. CASE ~BuiltReverts /\ Ready
  BY <1>1, <1>3, ReadyKeeps
<1>4. CASE at' \in Locations /\ at'.pc # "approve" /\ UNCHANGED <<req, remaining, built, checked, result>>
  BY <1>1, <1>4, MovesOn
<1>5. \A i : rebuild_without_failing_leg(i) => \E S : S \subseteq remaining /\ Rebuild(S)
  <2>1. \A x : remaining \ {x} \subseteq remaining
    OBVIOUS
  <2> QED
    BY <2>1, Zenon DEF rebuild_without_failing_leg
<1>6. rebuild_without_raindex => \E S : S \subseteq remaining /\ Rebuild(S)
  <2>1. {c \in remaining : req.quotes[c].raindex # built.raindex} \subseteq remaining
    OBVIOUS
  <2> QED
    BY <2>1, Zenon DEF rebuild_without_raindex
<1>7. /\ [at EXCEPT !.try = @ + 1] \in Locations /\ [at EXCEPT !.try = @ + 1].pc # "approve"
      /\ [Step("probe") EXCEPT !.idx = at.idx + 1] \in Locations
      /\ [Step("probe") EXCEPT !.idx = at.idx + 1].pc # "approve"
  <2>1. at \in Locations /\ at.pc # "approve"
    BY DEF DiagnoseSingle, DiagnoseProbe, DiagnoseWhole, ClientInv
  <2>2. /\ [at EXCEPT !.try = @ + 1] = [pc |-> at.pc, idx |-> at.idx, try |-> at.try + 1]
        /\ [Step("probe") EXCEPT !.idx = at.idx + 1] = [pc |-> "probe", idx |-> at.idx + 1, try |-> 1]
    BY <2>1 DEF Locations, Step
  <2> QED
    BY <2>1, <2>2 DEF Locations
<1>8. CASE DiagnoseSingle
  <2>1. PICK err \in BOOLEAN :
          /\ Answer(BuiltReverts, err)
          /\ \/ ~err /\ Ready
             \/ rebuild_without_failing_leg(1)
             \/ /\ at' = [at EXCEPT !.try = @ + 1]
                /\ UNCHANGED <<req, remaining, built, checked, iteration, result>>
    BY <1>8, Zenon DEF DiagnoseSingle
  <2> QED
    BY <1>2, <1>3, <1>4, <1>5, <1>7, <2>1, AnswerOfNoError
<1>9. CASE DiagnoseProbe
  <2>1. \/ rebuild_without_failing_leg(at.idx)
        \/ AfterProbes
        \/ /\ at' = [at EXCEPT !.try = @ + 1] \/ at' = [Step("probe") EXCEPT !.idx = at.idx + 1]
           /\ UNCHANGED <<req, remaining, built, checked, iteration, result>>
    BY <1>9, Zenon DEF DiagnoseProbe
  <2>2. AfterProbes =>
          at' \in Locations /\ at'.pc # "approve" /\ UNCHANGED <<req, remaining, built, checked, result>>
    BY StepsAreLocations DEF AfterProbes, Step
  <2> QED
    BY <1>2, <1>4, <1>5, <1>7, <2>1, <2>2
<1>10. CASE DiagnoseWhole
  <2>1. PICK err \in BOOLEAN :
          /\ Answer(BuiltReverts, err)
          /\ rebuild_without_raindex \/ (~err /\ Ready)
    BY <1>10, Zenon DEF DiagnoseWhole
  <2> QED
    BY <1>2, <1>3, <1>6, <2>1, AnswerOfNoError
<1> QED
  BY <1>8, <1>9, <1>10

LEMMA ClientInductive == Spec => []ClientInv
<1>1. Init => ClientInv
  BY StepsAreLocations DEF Init, ClientInv, Approved, Step, NoResult, Candidates
<1>2. ClientInv /\ [Next]_vars => ClientInv'
  <2> SUFFICES ASSUME ClientInv, [Next]_vars PROVE ClientInv'
    OBVIOUS
  <2>1. CASE Done \/ UNCHANGED vars
    <3>1. UNCHANGED vars
      BY <2>1 DEF Done
    <3>2. at' = at /\ UNCHANGED <<req, remaining, built, checked, result>>
      BY <3>1 DEF vars
    <3> QED
      BY <3>2, MovesOn DEF Approved, ClientInv
  <2> QED
    BY <2>1, SelectKeeps, CheckApprovalKeeps, SimulateKeeps, DiagnoseKeeps DEF Next
<1> QED
  BY <1>1, <1>2, PTL DEF Spec

(***************************************************************************)
(* Calldata that get_take_orders_calldata hands out does not revert at its *)
(* block, is covered by the allowance that was checked, keeps the price    *)
(* cap and maxSellCap and fills an exact request: for all requests and     *)
(* quotes, whatever orders revert, whatever an RPC fails and however often *)
(* orders or whole Raindexes were dropped on the way.                      *)
(***************************************************************************)
THEOREM ReadyAlwaysSucceeds == Spec => []ReadyWillSucceed
<1>1. ClientInv => ReadyWillSucceed
  BY Zenon DEF ClientInv, ReadyWillSucceed, Promise
<1> QED
  BY <1>1, ClientInductive, PTL
-----------------------------------------------------------------------------
(* The best of the orders that do not revert                               *)

\* The parts of Build, which depend on nothing but the request.
Sims(S) ==
    [r \in {req.quotes[c].raindex : c \in S} |-> simulate_candidates({c \in S : req.quotes[c].raindex = r})]

Found(S) == {r \in {req.quotes[c].raindex : c \in S} : Sims(S)[r].legs # <<>>}

Best(S) == CHOOSE r \in Found(S) : \A q \in Found(S) : ~Better(q, Sims(S)[q], r, Sims(S)[r])

TooLittle(S) == is_exact_mode /\ Achieved(Sims(S)[Best(S)]) < req.amount

Chosen(S) ==
    IF Found(S) = {} THEN Failed("NoLiquidity")
    ELSE IF TooLittle(S) THEN Failed("InsufficientLiquidity")
    ELSE [ok |-> TRUE, raindex |-> Best(S), sim |-> Sims(S)[Best(S)]]

LEMMA BuildIsChosen ==
    ASSUME NEW CONSTANT S
    PROVE  Build(S) = Chosen(S)
BY Zenon DEF Build, Chosen, Best, Found, Sims, TooLittle

LEMMA BuildStays ==
    ASSUME req' = req, NEW CONSTANT S
    PROVE  Build(S)' = Build(S)
<1>1. Build(S) = Chosen(S) /\ (Build(S) = Chosen(S))'
  BY BuildIsChosen, PTL
<1>2. Sims(S)' = Sims(S)
  BY DEF Sims, simulate_candidates, Priced, Last, AddLeg, take_leg, take_leg_for_buy, take_leg_for_spend,
         is_buy_mode, MapThenFoldSet
<1>3. Found(S)' = Found(S)
  BY <1>2 DEF Found
<1>4. Best(S)' = Best(S)
  BY <1>2, <1>3 DEF Best, Better, selection_primary, worst_price, LegCandidates, Max
<1>5. TooLittle(S)' = TooLittle(S)
  BY <1>2, <1>4 DEF TooLittle, Achieved, is_exact_mode, is_buy_mode
<1>6. Chosen(S)' = Chosen(S)
  BY <1>2, <1>3, <1>4, <1>5, Zenon DEF Chosen, Failed
<1> QED
  BY <1>1, <1>6

LEMMA WorldStays ==
    ASSUME req' = req
    PROVE  /\ Build(remaining)' = Build(remaining')
           /\ Build(Healthy)' = Build(Healthy) /\ Healthy' = Healthy
           /\ Candidates(req.quotes)' = Candidates(req.quotes) /\ MaxIterations' = MaxIterations
           /\ is_buy_mode' = is_buy_mode /\ Calm' = Calm
<1>1. \A S : Build(S)' = Build(S)
  BY BuildStays
<1>2. Healthy' = Healthy /\ Candidates(req.quotes)' = Candidates(req.quotes)
  BY DEF Healthy, Candidates
<1>3. Build(Healthy)' = Build(Healthy)
  BY <1>1, <1>2
<1>4. Build(remaining)' = Build(remaining')
  BY <1>1
<1>5. MaxIterations' = MaxIterations
  BY DEF MaxIterations, Candidates
<1>6. is_buy_mode' = is_buy_mode
  BY DEF is_buy_mode
<1>7. Calm' = Calm
  BY DEF Calm, CapIsWhole, Required, calculate_max_sell_cap, is_buy_mode
<1> QED
  BY <1>2, <1>3, <1>4, <1>5, <1>6, <1>7

\* What BestOfHealthy says of a result.
Serves(r) ==
    /\ r.kind = "ready" => r.built = Build(Healthy)
    /\ r.kind = "error" /\ r.why # "Rpc" => ~Build(Healthy).ok /\ r.why # "Exceeded"

BadLegs == LegCandidates(built.sim) \cap req.bad

\* No candidate is dropped but the ones that revert, so every round has one less.
OnlyBadDropped ==
    /\ remaining \subseteq Candidates(req.quotes) /\ Healthy \subseteq remaining
    /\ iteration \in Nat /\ iteration + Cardinality(remaining) <= MaxIterations

BestBuilt == at.pc = "approve" \/ Approved => Build(remaining).ok /\ built = Build(remaining)

\* A diagnosis has a cause, and finds it: where no order reverts, the RPC has
\* failed and will not fail again.
Diagnosis ==
    /\ at.pc = "single" => Len(built.sim.legs) = 1
    /\ at.pc \in {"single", "probe", "whole"} => BadLegs # {} \/ flakes = MaxFlakes
    /\ at.pc = "probe" =>
          /\ at.idx \in 1 .. Len(built.sim.legs)
          /\ \A i \in 1 .. (at.idx - 1) : built.sim.legs[i].c \notin req.bad
          /\ at.try >= Tries => built.sim.legs[at.idx].c \in req.bad \/ flakes = MaxFlakes
    /\ at.pc = "whole" => BadLegs = {}

BestInv ==
    /\ flakes \in 0 .. MaxFlakes
    /\ is_buy_mode /\ Calm => OnlyBadDropped /\ BestBuilt /\ Diagnosis /\ Serves(result)

\* A simulation fails for the orders, or for the last time without a cause.
LEMMA AnswerMeans ==
    ASSUME MaxFlakes <= 1, flakes \in 0 .. MaxFlakes, NEW reverts \in BOOLEAN, NEW err \in BOOLEAN, Answer(reverts, err)
    PROVE  /\ flakes' \in 0 .. MaxFlakes
           /\ reverts => err
           /\ err => reverts \/ (flakes < MaxFlakes /\ flakes' = MaxFlakes)
           /\ flakes = MaxFlakes => flakes' = flakes /\ (err <=> reverts)
<1>1. MaxFlakes \in Nat
  BY ClientAssumption
<1> QED
  BY <1>1 DEF Answer

LEMMA ServesStays ==
    ASSUME req' = req
    PROVE  Serves(result)' <=> Serves(result')
<1>1. Build(Healthy)' = Build(Healthy)
  BY WorldStays
<1> QED
  BY <1>1 DEF Serves

\* In a calm world: a step that ends the call with a result.
LEMMA FinishServes ==
    ASSUME BestInv, is_buy_mode, Calm, flakes' \in 0 .. MaxFlakes, NEW r, Finish(r), Serves(r)
    PROVE  BestInv'
<1>1. /\ result' = r /\ at'.pc = "done" /\ UNCHANGED <<req, remaining, built, checked, iteration>>
  BY DEF Finish, Step
<1>2. Serves(result)'
  BY <1>1, ServesStays
<1>3. OnlyBadDropped'
  BY <1>1, WorldStays DEF BestInv, OnlyBadDropped
<1>4. BestBuilt' /\ Diagnosis'
  BY <1>1 DEF BestBuilt, Diagnosis, Approved
<1> QED
  BY <1>2, <1>3, <1>4 DEF BestInv

\* A step from one place of the loop to another.
LEMMA MovesBest ==
    ASSUME BestInv, is_buy_mode, Calm, flakes' \in 0 .. MaxFlakes,
           UNCHANGED <<req, remaining, built, iteration, result>>,
           at.pc = "approve" \/ Approved, Diagnosis'
    PROVE  BestInv'
<1>1. Serves(result)'
  BY ServesStays DEF BestInv
<1>2. OnlyBadDropped' /\ BestBuilt'
  BY WorldStays DEF BestInv, OnlyBadDropped, BestBuilt
<1> QED
  BY <1>1, <1>2 DEF BestInv

\* The config that is simulated, and what its simulations say.
LEMMA SimulationsTell ==
    ASSUME ClientInv, BestInv, is_buy_mode, Calm, Approved
    PROVE  /\ Typed /\ built = Build(remaining) /\ Build(remaining).ok
           /\ BuiltReverts <=> BadLegs # {}
           /\ Len(built.sim.legs) \in Nat \ {0}
           /\ BadLegs = {built.sim.legs[i].c : i \in 1 .. Len(built.sim.legs)} \cap req.bad
           /\ \A i \in 1 .. Len(built.sim.legs) :
                 /\ built.sim.legs[i].c \in remaining
                 /\ ProbeReverts(i) <=> built.sim.legs[i].c \in req.bad
<1>1. Typed /\ Sound(built) /\ checked = built.raindex /\ (checked # 0 => req.allowance[checked] >= Required)
  BY RequestTyped DEF ClientInv
<1>2. built = Build(remaining) /\ Build(remaining).ok /\ remaining \subseteq Candidates(req.quotes)
  BY DEF BestInv, BestBuilt, OnlyBadDropped
<1>3. /\ Len(built.sim.legs) \in Nat \ {0}
      /\ DOMAIN built.sim.legs = 1 .. Len(built.sim.legs)
      /\ req.amount > 0
      /\ \A i \in DOMAIN built.sim.legs :
            /\ built.sim.legs[i].c \in remaining
            /\ req.quotes[built.sim.legs[i].c].ratio <= req.cap /\ req.quotes[built.sim.legs[i].c].max > 0
  BY <1>1, <1>2, LegsOfBuilt
<1> DEFINE r == built.raindex
<1>4. req.allowance[r] \in Nat /\ req.allowance[r] >= Required
  <2>1. PICK c \in DOMAIN req.quotes : r = req.quotes[c].raindex
    BY <1>1 DEF Sound
  <2>2. r # 0 /\ req.allowance[r] \in Nat
    BY <1>1, <2>1, QuoteTypes DEF Typed
  <2> QED
    BY <1>1, <2>2
<1>5. BuiltReverts <=> BadLegs # {}
  <2>1. Fills(built.sim, Priced(DOMAIN req.quotes))
    BY <1>1 DEF Sound
  <2> QED
    BY <1>1, <1>4, <2>1, OnlyOrdersRevert DEF BuiltReverts, BadLegs
<1>6. BadLegs = {built.sim.legs[i].c : i \in 1 .. Len(built.sim.legs)} \cap req.bad
  BY <1>3 DEF BadLegs, LegCandidates
<1>7. ASSUME NEW i \in 1 .. Len(built.sim.legs)
      PROVE  built.sim.legs[i].c \in remaining /\ (ProbeReverts(i) <=> built.sim.legs[i].c \in req.bad)
  <2> DEFINE c == built.sim.legs[i].c
             alone == simulate_candidates({c})
  <2>1. c \in remaining /\ req.quotes[c].ratio <= req.cap /\ req.quotes[c].max > 0
    BY <1>3
  <2>2. c \in DOMAIN req.quotes
    BY <1>2, <2>1 DEF Candidates
  <2>3. ProbeReverts(i) <=> Reverts(r, alone, FALSE)
    BY DEF ProbeReverts
  <2> HIDE DEF c
  <2>4. Fills(alone, {c}) /\ LegCandidates(alone) = {c}
    BY <1>1, <1>3, <2>1, <2>2, TakenAlone
  <2> HIDE DEF alone
  <2>5. Reverts(r, alone, FALSE) <=> LegCandidates(alone) \cap req.bad # {}
    BY <1>1, <1>4, <2>4, OnlyOrdersRevert
  <2>6. ProbeReverts(i) <=> c \in req.bad
    BY <2>3, <2>4, <2>5
  <2> QED
    BY <2>1, <2>6 DEF c
<1> QED
  BY <1>1, <1>2, <1>3, <1>5, <1>6, <1>7

LEMMA ReadyServes ==
    ASSUME ClientInv, BestInv, is_buy_mode, Calm, Approved, flakes' \in 0 .. MaxFlakes, ~BuiltReverts, Ready
    PROVE  BestInv'
<1> DEFINE r == [kind |-> "ready", built |-> built]
<1>1. Typed /\ built = Build(remaining) /\ Build(remaining).ok /\ LegCandidates(built.sim) \cap req.bad = {}
  BY SimulationsTell DEF BadLegs
<1>2. Build(Healthy) = built
  BY <1>1, BestFound DEF BestInv, OnlyBadDropped
<1>3. r.kind = "ready" /\ r.built = built
  OBVIOUS
<1>4. Finish(r)
  BY DEF Ready
<1> HIDE DEF r
<1>5. Serves(r)
  BY <1>2, <1>3 DEF Serves
<1> QED
  BY <1>4, <1>5, FinishServes

\* An order that reverts is dropped.
LEMMA DropServes ==
    ASSUME ClientInv, BestInv, is_buy_mode, Calm, Approved, flakes' \in 0 .. MaxFlakes,
           NEW i \in 1 .. Len(built.sim.legs), built.sim.legs[i].c \in req.bad, rebuild_without_failing_leg(i)
    PROVE  BestInv'
<1> DEFINE c == built.sim.legs[i].c
           S == remaining \ {c}
<1>1. Typed /\ c \in remaining /\ c \in req.bad
  BY SimulationsTell
<1>2. Rebuild(S)
  BY DEF rebuild_without_failing_leg
<1> HIDE DEF c
<1>3. /\ remaining \subseteq Candidates(req.quotes) /\ Healthy \subseteq remaining
      /\ iteration \in Nat /\ iteration + Cardinality(remaining) <= MaxIterations
  BY DEF BestInv, OnlyBadDropped
<1>4. S \subseteq Candidates(req.quotes) /\ Healthy \subseteq S /\ Candidates(req.quotes) \subseteq DOMAIN req.quotes
  BY <1>1, <1>3 DEF Healthy, Candidates
<1>5. /\ IsFiniteSet(Candidates(req.quotes)) /\ MaxIterations \in Nat
      /\ Cardinality(S) = Cardinality(remaining) - 1 /\ Cardinality(remaining) \in Nat /\ Cardinality(S) \in Nat
  <2>1. IsFiniteSet(Candidates(req.quotes))
    BY <1>1, <1>4, QuoteTypes, FS_Subset
  <2>2. IsFiniteSet(remaining)
    BY <1>3, <2>1, FS_Subset
  <2>3. IsFiniteSet(S) /\ Cardinality(S) = Cardinality(remaining) - 1
    BY <1>1, <2>2, FS_RemoveElement
  <2> QED
    BY <2>1, <2>2, <2>3, FS_CardinalityType DEF MaxIterations
<1> HIDE DEF S
<1>6. remaining' = S /\ req' = req /\ checked' = checked
  BY <1>2 DEF Rebuild
<1>7. CASE S = {} \/ ~Build(S).ok
  <2> DEFINE why == IF S = {} THEN "AllFailed" ELSE Build(S).why
  <2>1. result' = Error(why) /\ at' = Step("done") /\ UNCHANGED <<built, iteration>>
    BY <1>2, <1>7, Zenon DEF Rebuild
  <2>2. ~Build(Healthy).ok
    <3>1. S = {} => Healthy = {}
      BY <1>4
    <3> QED
      BY <1>1, <1>4, <1>7, <3>1, BestFound, NothingBuilt
  <2>3. why # "Exceeded"
    BY <1>1, <1>4, <1>7, BuildFails
  <2> HIDE DEF why
  <2>4. Serves(Error(why))
    BY <2>2, <2>3 DEF Serves, Error
  <2>5. Serves(result)'
    BY <1>6, <2>1, <2>4, ServesStays
  <2>6. at'.pc = "done"
    BY <2>1 DEF Step
  <2>7. OnlyBadDropped'
    BY <1>3, <1>4, <1>5, <1>6, <2>1, WorldStays DEF OnlyBadDropped
  <2>8. BestBuilt' /\ Diagnosis'
    BY <2>6 DEF BestBuilt, Diagnosis, Approved
  <2> QED
    BY <2>5, <2>7, <2>8 DEF BestInv
<1>8. CASE ~(S = {} \/ ~Build(S).ok)
  <2>1. built' = Build(S) /\ iteration' = iteration + 1 /\ at' = Step("approve") /\ result' = result
    BY <1>2, <1>8, Zenon DEF Rebuild
  <2>2. at'.pc = "approve"
    BY <2>1 DEF Step
  <2>3. Serves(result)'
    BY <1>6, <2>1, ServesStays DEF BestInv
  <2>4. OnlyBadDropped'
    BY <1>3, <1>4, <1>5, <1>6, <2>1, WorldStays DEF OnlyBadDropped
  <2>5. BestBuilt'
    BY <1>6, <1>8, <2>1, WorldStays DEF BestBuilt
  <2>6. Diagnosis'
    BY <2>2 DEF Diagnosis
  <2> QED
    BY <2>3, <2>4, <2>5, <2>6 DEF BestInv
<1> QED
  BY <1>7, <1>8

LEMMA SelectServes ==
    ASSUME ClientInv, BestInv, is_buy_mode, Calm, Select
    PROVE  BestInv'
<1> DEFINE b == Build(remaining)
<1>1. Typed /\ OnlyBadDropped /\ Serves(result) /\ flakes' \in 0 .. MaxFlakes
  BY RequestTyped DEF ClientInv, BestInv, Select
<1>2. remaining \subseteq DOMAIN req.quotes
  BY DEF ClientInv
<1>3. CASE ~b.ok /\ Finish(Error(b.why))
  <2>1. ~Build(Healthy).ok /\ b.why # "Exceeded"
    BY <1>1, <1>2, <1>3, BestFound, BuildFails DEF OnlyBadDropped
  <2> HIDE DEF b
  <2>2. Serves(Error(b.why))
    BY <2>1 DEF Serves, Error
  <2> QED
    BY <1>1, <1>3, <2>2, FinishServes
<1>4. CASE b.ok /\ built' = b /\ at' = Step("approve") /\ UNCHANGED <<req, remaining, checked, iteration, result>>
  <2>1. at'.pc = "approve"
    BY <1>4 DEF Step
  <2>2. Serves(result)' /\ OnlyBadDropped' /\ BestBuilt'
    BY <1>1, <1>4, ServesStays, WorldStays DEF OnlyBadDropped, BestBuilt
  <2>3. Diagnosis'
    BY <2>1 DEF Diagnosis
  <2> QED
    BY <1>1, <2>2, <2>3 DEF BestInv
<1> QED
  BY <1>3, <1>4, Zenon DEF Select

\* Candidates remain where a config is built, so the rounds are not used up.
LEMMA CheckApprovalServes ==
    ASSUME MaxFlakes <= 1, ClientInv, BestInv, is_buy_mode, Calm, CheckApproval
    PROVE  BestInv'
<1>1. Typed /\ OnlyBadDropped /\ Build(remaining).ok /\ at.pc = "approve"
  BY RequestTyped DEF ClientInv, BestInv, BestBuilt, CheckApproval
<1>2. ~(iteration >= MaxIterations)
  <2>1. IsFiniteSet(remaining) /\ remaining # {} /\ IsFiniteSet(Candidates(req.quotes))
    <3>1. IsFiniteSet(DOMAIN req.quotes) /\ remaining \subseteq DOMAIN req.quotes
          /\ Candidates(req.quotes) \subseteq DOMAIN req.quotes
      BY <1>1, QuoteTypes DEF ClientInv, Candidates
    <3>2. remaining # {}
      BY <1>1, NothingBuilt
    <3> QED
      BY <3>1, <3>2, FS_Subset
  <2>2. Cardinality(remaining) \in Nat /\ Cardinality(remaining) # 0 /\ MaxIterations \in Nat
    BY <2>1, FS_CardinalityType, FS_EmptySet DEF MaxIterations
  <2> QED
    BY <1>1, <2>2 DEF OnlyBadDropped
<1>3. flakes' \in 0 .. MaxFlakes
  <2>1. CASE ~NeedsCheck
    BY <1>2, <2>1 DEF CheckApproval, BestInv
  <2>2. CASE NeedsCheck
    <3>1. PICK err \in BOOLEAN : Answer(FALSE, err)
      BY <1>2, <2>2, Zenon DEF CheckApproval
    <3> QED
      BY <3>1, AnswerMeans DEF BestInv
  <2> QED
    BY <2>1, <2>2
<1>4. \/ Finish(Error("Rpc"))
      \/ Finish([kind |-> "approval", raindex |-> built.raindex])
      \/ at' = Step("simulate") /\ UNCHANGED <<req, remaining, built, iteration, result>>
  <2>1. CASE ~NeedsCheck
    BY <1>2, <2>1, Zenon DEF CheckApproval
  <2>2. CASE NeedsCheck
    BY <1>2, <2>2, Zenon DEF CheckApproval
  <2> QED
    BY <2>1, <2>2
<1>5. Serves(Error("Rpc")) /\ Serves([kind |-> "approval", raindex |-> built.raindex])
  BY DEF Serves, Error
<1>6. CASE at' = Step("simulate") /\ UNCHANGED <<req, remaining, built, iteration, result>>
  <2>1. at'.pc = "simulate"
    BY <1>6 DEF Step
  <2>2. Diagnosis'
    BY <2>1 DEF Diagnosis
  <2> QED
    BY <1>1, <1>3, <1>6, <2>2, MovesBest
<1> QED
  BY <1>3, <1>4, <1>5, <1>6, FinishServes

LEMMA SimulateServes ==
    ASSUME MaxFlakes <= 1, ClientInv, BestInv, is_buy_mode, Calm, Simulate
    PROVE  BestInv'
<1>1. at.pc = "simulate" /\ Approved
  BY DEF Simulate, Approved
<1>2. /\ BuiltReverts <=> BadLegs # {}
      /\ Len(built.sim.legs) \in Nat \ {0}
  BY <1>1, SimulationsTell
<1>3. PICK err \in BOOLEAN :
          /\ Answer(BuiltReverts, err)
          /\ \/ ~err /\ Ready
             \/ /\ err
                /\ at' = Step(IF Len(built.sim.legs) = 1 THEN "single" ELSE "probe")
                /\ UNCHANGED <<req, remaining, built, checked, iteration, result>>
  BY Zenon DEF Simulate
<1>4. BuiltReverts \in BOOLEAN /\ flakes \in 0 .. MaxFlakes
  BY DEF BuiltReverts, Reverts, BestInv
<1>5. /\ flakes' \in 0 .. MaxFlakes
      /\ err => BuiltReverts \/ flakes' = MaxFlakes
      /\ ~err => ~BuiltReverts
  BY <1>3, <1>4, AnswerMeans
<1>6. CASE ~err /\ Ready
  BY <1>1, <1>5, <1>6, ReadyServes
<1>7. CASE /\ err
           /\ at' = Step(IF Len(built.sim.legs) = 1 THEN "single" ELSE "probe")
           /\ UNCHANGED <<req, remaining, built, checked, iteration, result>>
  <2>1. /\ at'.pc = "single" \/ at'.pc = "probe"
        /\ at'.pc = "single" => Len(built.sim.legs) = 1
        /\ at'.idx = 1 /\ at'.try = 1
    BY <1>7 DEF Step
  <2>2. BadLegs' = BadLegs
    BY <1>7 DEF BadLegs, LegCandidates
  <2>3. BadLegs # {} \/ flakes' = MaxFlakes
    BY <1>2, <1>5, <1>7
  <2>4. ~(at'.try >= Tries)
    BY <2>1 DEF Tries
  <2>5. 1 \in 1 .. Len(built.sim.legs) /\ 1 .. (1 - 1) = {}
    BY <1>2
  <2>6. Diagnosis'
    BY <1>7, <2>1, <2>2, <2>3, <2>4, <2>5 DEF Diagnosis
  <2> QED
    BY <1>1, <1>5, <1>7, <2>6, MovesBest
<1> QED
  BY <1>3, <1>6, <1>7

LEMMA DiagnoseSingleServes ==
    ASSUME MaxFlakes <= 1, ClientInv, BestInv, is_buy_mode, Calm, DiagnoseSingle
    PROVE  BestInv'
<1>1. at.pc = "single" /\ Approved /\ at \in Locations
  BY DEF DiagnoseSingle, Approved, ClientInv
<1>2. /\ BuiltReverts <=> BadLegs # {}
      /\ BadLegs = {built.sim.legs[i].c : i \in 1 .. Len(built.sim.legs)} \cap req.bad
  BY <1>1, SimulationsTell
<1>3. Len(built.sim.legs) = 1 /\ (BadLegs # {} \/ flakes = MaxFlakes)
  BY <1>1 DEF BestInv, Diagnosis
<1>4. PICK err \in BOOLEAN :
          /\ Answer(BuiltReverts, err)
          /\ \/ ~err /\ Ready
             \/ err /\ rebuild_without_failing_leg(1)
             \/ /\ err
                /\ at' = [at EXCEPT !.try = @ + 1]
                /\ UNCHANGED <<req, remaining, built, checked, iteration, result>>
  BY Zenon DEF DiagnoseSingle
<1>5. BuiltReverts \in BOOLEAN /\ flakes \in 0 .. MaxFlakes
  BY DEF BuiltReverts, Reverts, BestInv
<1>6. flakes' \in 0 .. MaxFlakes /\ (err <=> BuiltReverts) /\ (flakes = MaxFlakes => flakes' = flakes)
  BY <1>2, <1>3, <1>4, <1>5, AnswerMeans
<1>7. CASE ~err /\ Ready
  BY <1>1, <1>6, <1>7, ReadyServes
<1>8. CASE err /\ rebuild_without_failing_leg(1)
  <2>1. 1 \in 1 .. Len(built.sim.legs) /\ built.sim.legs[1].c \in req.bad
    BY <1>2, <1>3, <1>6, <1>8
  <2> QED
    BY <1>1, <1>6, <1>8, <2>1, DropServes
<1>9. CASE /\ err
           /\ at' = [at EXCEPT !.try = @ + 1]
           /\ UNCHANGED <<req, remaining, built, checked, iteration, result>>
  <2>1. at'.pc = "single"
    BY <1>1, <1>9 DEF Locations
  <2>2. BadLegs' = BadLegs
    BY <1>9 DEF BadLegs, LegCandidates
  <2>3. Diagnosis'
    BY <1>3, <1>6, <1>9, <2>1, <2>2 DEF Diagnosis
  <2> QED
    BY <1>1, <1>6, <1>9, <2>3, MovesBest
<1> QED
  BY <1>4, <1>7, <1>8, <1>9

\* A probe fails twice only for an order that reverts, and after the last probe
\* nothing but the RPC is left to blame.
LEMMA DiagnoseProbeServes ==
    ASSUME MaxFlakes <= 1, ClientInv, BestInv, is_buy_mode, Calm, DiagnoseProbe
    PROVE  BestInv'
<1> DEFINE n == Len(built.sim.legs)
           c(i) == built.sim.legs[i].c
<1>1. at.pc = "probe" /\ Approved /\ at \in Locations
  BY DEF DiagnoseProbe, Approved, ClientInv
<1>2. /\ n \in Nat \ {0}
      /\ BadLegs = {c(i) : i \in 1 .. n} \cap req.bad
      /\ \A i \in 1 .. n : ProbeReverts(i) <=> c(i) \in req.bad
  BY <1>1, SimulationsTell
<1>3. /\ at.idx \in 1 .. n
      /\ \A i \in 1 .. (at.idx - 1) : c(i) \notin req.bad
      /\ at.try >= Tries => c(at.idx) \in req.bad \/ flakes = MaxFlakes
      /\ BadLegs # {} \/ flakes = MaxFlakes
  BY <1>1 DEF BestInv, Diagnosis
<1>4. PICK err \in BOOLEAN :
          /\ Answer(ProbeReverts(at.idx), err)
          /\ \/ err /\ at.try >= Tries /\ rebuild_without_failing_leg(at.idx)
             \/ /\ err
                /\ at' = [at EXCEPT !.try = @ + 1]
                /\ UNCHANGED <<req, remaining, built, checked, iteration, result>>
             \/ /\ ~err /\ at.idx < n
                /\ at' = [Step("probe") EXCEPT !.idx = at.idx + 1]
                /\ UNCHANGED <<req, remaining, built, checked, iteration, result>>
             \/ ~err /\ at.idx = n /\ AfterProbes
  BY Zenon DEF DiagnoseProbe
<1>5. ProbeReverts(at.idx) \in BOOLEAN /\ flakes \in 0 .. MaxFlakes
  BY DEF ProbeReverts, Reverts, BestInv
<1>6. /\ flakes' \in 0 .. MaxFlakes
      /\ ProbeReverts(at.idx) => err
      /\ err => ProbeReverts(at.idx) \/ (flakes < MaxFlakes /\ flakes' = MaxFlakes)
      /\ flakes = MaxFlakes => flakes' = flakes /\ (err <=> ProbeReverts(at.idx))
  BY <1>4, <1>5, AnswerMeans
<1>7. ProbeReverts(at.idx) <=> c(at.idx) \in req.bad
  BY <1>2, <1>3
<1>8. CASE err /\ at.try >= Tries /\ rebuild_without_failing_leg(at.idx)
  <2>1. c(at.idx) \in req.bad
    BY <1>3, <1>6, <1>7, <1>8
  <2> QED
    BY <1>1, <1>3, <1>6, <1>8, <2>1, DropServes
<1>9. CASE /\ err
           /\ at' = [at EXCEPT !.try = @ + 1]
           /\ UNCHANGED <<req, remaining, built, checked, iteration, result>>
  <2>1. at'.pc = "probe" /\ at'.idx = at.idx
    BY <1>1, <1>9 DEF Locations
  <2>2. BadLegs' = BadLegs
    BY <1>9 DEF BadLegs, LegCandidates
  <2>3. c(at.idx) \in req.bad \/ flakes' = MaxFlakes
    BY <1>6, <1>7, <1>9
  <2>4. BadLegs # {} \/ flakes' = MaxFlakes
    BY <1>3, <1>6
  <2>5. Diagnosis'
    BY <1>3, <1>9, <2>1, <2>2, <2>3, <2>4 DEF Diagnosis
  <2> QED
    BY <1>1, <1>6, <1>9, <2>5, MovesBest
<1>10. ASSUME ~err PROVE \A i \in 1 .. at.idx : c(i) \notin req.bad
  <2>1. \A i \in 1 .. at.idx : i = at.idx \/ i \in 1 .. (at.idx - 1)
    BY <1>2, <1>3
  <2>2. c(at.idx) \notin req.bad
    BY <1>6, <1>7, <1>10
  <2> HIDE DEF c
  <2> QED
    BY <1>3, <2>1, <2>2
<1>11. CASE /\ ~err /\ at.idx < n
            /\ at' = [Step("probe") EXCEPT !.idx = at.idx + 1]
            /\ UNCHANGED <<req, remaining, built, checked, iteration, result>>
  <2>1. at'.pc = "probe" /\ at'.idx = at.idx + 1 /\ at'.try = 1
    BY <1>11 DEF Step
  <2>2. BadLegs' = BadLegs /\ req' = req /\ built' = built
    BY <1>11 DEF BadLegs, LegCandidates
  <2>3. at.idx + 1 \in 1 .. n /\ (at.idx + 1) - 1 = at.idx
    BY <1>2, <1>3, <1>11
  <2>4. BadLegs # {} \/ flakes' = MaxFlakes
    BY <1>3, <1>6
  <2>5. ~(at'.try >= Tries)
    BY <2>1 DEF Tries
  <2>6. \A i \in 1 .. (at'.idx - 1) : c(i) \notin req.bad
    BY <1>10, <1>11, <2>1, <2>3
  <2>7. Diagnosis'
    BY <2>1, <2>2, <2>3, <2>4, <2>5, <2>6 DEF Diagnosis
  <2> QED
    BY <1>1, <1>6, <1>11, <2>7, MovesBest
<1>12. CASE ~err /\ at.idx = n /\ AfterProbes
  <2>1. at'.pc = "whole" /\ UNCHANGED <<req, remaining, built, checked, iteration, result>>
    BY <1>12 DEF AfterProbes, Step
  <2>2. BadLegs' = BadLegs
    BY <2>1 DEF BadLegs, LegCandidates
  <2>3. BadLegs = {}
    <3>1. \A i \in 1 .. n : c(i) \notin req.bad
      BY <1>10, <1>12
    <3> HIDE DEF c, n
    <3> QED
      BY <1>2, <3>1
  <2>4. flakes' = MaxFlakes
    BY <1>3, <1>6, <2>3
  <2>5. Diagnosis'
    BY <2>1, <2>2, <2>3, <2>4 DEF Diagnosis
  <2> QED
    BY <1>1, <1>6, <2>1, <2>5, MovesBest
<1> QED
  BY <1>4, <1>8, <1>9, <1>11, <1>12

\* No Raindex is dropped for a failure of the RPC.
LEMMA DiagnoseWholeServes ==
    ASSUME MaxFlakes <= 1, ClientInv, BestInv, is_buy_mode, Calm, DiagnoseWhole
    PROVE  BestInv'
<1>1. at.pc = "whole" /\ Approved
  BY DEF DiagnoseWhole, Approved
<1>2. BuiltReverts <=> BadLegs # {}
  BY <1>1, SimulationsTell
<1>3. BadLegs = {} /\ flakes = MaxFlakes
  BY <1>1 DEF BestInv, Diagnosis
<1>4. PICK err \in BOOLEAN : Answer(BuiltReverts, err) /\ (~err => Ready)
  BY Zenon DEF DiagnoseWhole
<1>5. BuiltReverts \in BOOLEAN /\ flakes \in 0 .. MaxFlakes
  BY DEF BuiltReverts, Reverts, BestInv
<1>6. ~err /\ ~BuiltReverts /\ flakes' \in 0 .. MaxFlakes
  BY <1>2, <1>3, <1>4, <1>5, AnswerMeans
<1> QED
  BY <1>1, <1>4, <1>6, ReadyServes

LEMMA BestInductive ==
    ASSUME MaxFlakes <= 1
    PROVE  Spec => []BestInv
<1>1. Init => BestInv
  <2> SUFFICES ASSUME Init PROVE BestInv
    OBVIOUS
  <2>1. at.pc = "select" /\ result.kind = "none" /\ iteration = 0 /\ remaining = Candidates(req.quotes) /\ flakes = 0
    BY DEF Init, Step, NoResult
  <2>2. Typed
    BY RequestTyped DEF Init
  <2>3. MaxIterations \in Nat /\ MaxIterations = Cardinality(remaining) /\ Healthy \subseteq remaining
    <3>1. IsFiniteSet(Candidates(req.quotes))
      BY <2>2, QuoteTypes, FS_Subset DEF Candidates
    <3> QED
      BY <2>1, <3>1, FS_CardinalityType DEF MaxIterations, Healthy
  <2>4. OnlyBadDropped
    BY <2>1, <2>3 DEF OnlyBadDropped
  <2>5. BestBuilt /\ Diagnosis
    BY <2>1 DEF BestBuilt, Diagnosis, Approved
  <2>6. Serves(result)
    BY <2>1 DEF Serves
  <2>7. flakes \in 0 .. MaxFlakes
    BY <2>1, ClientAssumption
  <2> QED
    BY <2>4, <2>5, <2>6, <2>7 DEF BestInv
<1>2. ClientInv /\ BestInv /\ [Next]_vars => BestInv'
  <2> SUFFICES ASSUME ClientInv, BestInv, [Next]_vars PROVE BestInv'
    OBVIOUS
  <2>1. req' = req
    BY DEF Next, vars, Select, CheckApproval, Simulate, DiagnoseSingle, DiagnoseProbe, DiagnoseWhole, Done,
           Finish, Ready, Rebuild, rebuild_without_failing_leg, rebuild_without_raindex, AfterProbes
  <2>2. flakes' \in 0 .. MaxFlakes
    BY ClientAssumption DEF Next, vars, Select, CheckApproval, Simulate, DiagnoseSingle, DiagnoseProbe,
       DiagnoseWhole, Done, Answer, BestInv
  <2>3. CASE ~(is_buy_mode /\ Calm)
    BY <2>1, <2>2, <2>3, WorldStays DEF BestInv
  <2>4. CASE (is_buy_mode /\ Calm) /\ (Done \/ UNCHANGED vars)
    <3>1. UNCHANGED vars
      BY <2>4 DEF Done
    <3>2. UNCHANGED <<req, remaining, built, iteration, at, flakes, result>>
      BY <3>1 DEF vars
    <3>3. Serves(result)' /\ OnlyBadDropped' /\ BestBuilt'
      BY <2>4, <3>2, ServesStays, WorldStays DEF BestInv, OnlyBadDropped, BestBuilt, Approved
    <3>4. Diagnosis'
      BY <2>4, <3>2 DEF BestInv, Diagnosis, BadLegs, LegCandidates
    <3> QED
      BY <2>2, <3>3, <3>4 DEF BestInv
  <2>5. CASE (is_buy_mode /\ Calm) /\ ~(Done \/ UNCHANGED vars)
    <3>1. Select \/ CheckApproval \/ Simulate \/ DiagnoseSingle \/ DiagnoseProbe \/ DiagnoseWhole
      BY <2>5 DEF Next
    <3> QED
      BY <2>5, <3>1, SelectServes, CheckApprovalServes, SimulateServes, DiagnoseSingleServes,
         DiagnoseProbeServes, DiagnoseWholeServes
  <2> QED
    BY <2>3, <2>4, <2>5
<1> QED
  BY <1>1, <1>2, ClientInductive, PTL DEF Spec

(***************************************************************************)
(* A buyer gets the best of the orders that do not revert, or an error     *)
(* only when those cannot serve the request, and never runs out of rounds: *)
(* for all requests to buy, all quotes and all sets of orders that revert, *)
(* with at most one simulation or call that an RPC fails for no reason,    *)
(* whenever it comes.                                                      *)
(***************************************************************************)
THEOREM BuyersGetTheBest ==
    ASSUME MaxFlakes <= 1
    PROVE  Spec => [](is_buy_mode => BestOfHealthy)
<1>1. BestInv => (is_buy_mode => BestOfHealthy)
  <2> SUFFICES ASSUME BestInv, is_buy_mode, Calm PROVE BestOfHealthy
    BY Zenon DEF BestOfHealthy, Calm
  <2>1. Serves(result)
    BY DEF BestInv
  <2> QED
    BY <2>1, Zenon DEF BestOfHealthy, Serves, Healthy
<1> QED
  BY <1>1, BestInductive, PTL
=============================================================================
