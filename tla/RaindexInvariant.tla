-------------------------- MODULE RaindexInvariant --------------------------
(***************************************************************************)
(* Proofs about module Raindex for all accounts, tokens, orders and        *)
(* arguments, and any depth of flash loans.                                *)
(*                                                                         *)
(* A revert brings back the ledger of the moment of the call, so what      *)
(* holds of the current ledger must also hold of every ledger that a       *)
(* pending call may restore, each with the flash loans and the batch that  *)
(* were pending below that call.  That is the inductive invariant.         *)
(*                                                                         *)
(* First comes what every function of module RaindexLedger does to the     *)
(* position of the contract in a token: what it holds less what its vaults *)
(* promise and less the dust.  Then what the arithmetic of module          *)
(* RaindexTrades guarantees to the taker, to the owners of the orders and  *)
(* to the clearer, for all amounts and ratios.  Then the invariant.        *)
(***************************************************************************)
EXTENDS Raindex, FiniteSetTheorems, SequenceTheorems, TLAPS

LEMMA DivNat == \A a \in Nat, b \in Nat \ {0} : a \div b \in Nat
  OBVIOUS

LEMMA DivMod ==
    \A a \in Nat, b \in Nat \ {0} : /\ a = b * (a \div b) + (a % b)
                                    /\ a % b \in Nat
                                    /\ a % b < b
  OBVIOUS

\* The conversions: a push never moves more than the Float amount, a pull never
\* less, and the amounts moved are base units.
LEMMA Conversions ==
    ASSUME NEW t \in Tokens, NEW q \in Nat
    PROVE  /\ ToUnits(t, q) \in Nat
           /\ PullUnits(t, q) \in Nat
           /\ q - FromUnits(t, ToUnits(t, q)) \in Nat
           /\ FromUnits(t, PullUnits(t, q)) - q \in Nat
<1> DEFINE u == Unit[t]
<1>1. u \in Nat \ {0}
  BY LedgerAssumption
<1>2. /\ q = u * (q \div u) + (q % u)
      /\ q % u \in Nat
      /\ q % u < u
      /\ q \div u \in Nat
  BY <1>1, DivMod, DivNat
<1> HIDE DEF u
<1>3. /\ q - (q \div u) * u \in Nat
      /\ q % u = 0 => ((q \div u) + 0) * u - q \in Nat
      /\ q % u # 0 => ((q \div u) + 1) * u - q \in Nat
  BY <1>1, <1>2
<1> QED
  BY <1>2, <1>3 DEF ToUnits, PullUnits, FromUnits, Lossless, u

-----------------------------------------------------------------------------
(* Sums.                                                                   *)

LEMMA SliceSize ==
    ASSUME NEW k, NEW n \in Nat
    PROVE  IsFiniteSet({k} \X (1 .. n)) /\ Cardinality({k} \X (1 .. n)) = n
<1>1. IsFiniteSet({k}) /\ Cardinality({k}) = 1
  BY FS_Singleton
<1>2. IsFiniteSet(1 .. n) /\ Cardinality(1 .. n) = n
  BY FS_Interval
<1> DEFINE S == {k}
           T == 1 .. n
<1> HIDE DEF S, T
<1>3. IsFiniteSet(S \X T) /\ Cardinality(S \X T) = Cardinality(S) * Cardinality(T)
  BY <1>1, <1>2, FS_Product DEF S, T
<1> QED
  BY <1>1, <1>2, <1>3 DEF S, T

LEMMA SliceOnTop ==
    ASSUME NEW S, IsFiniteSet(S), NEW k, NEW n \in Nat, S \cap ({k} \X (1 .. n)) = {}
    PROVE  Cardinality(S \cup ({k} \X (1 .. n))) = Cardinality(S) + n
<1> DEFINE slice == {k} \X (1 .. n)
<1>1. IsFiniteSet(slice) /\ Cardinality(slice) = n
  BY SliceSize
<1>2. S \cap slice = {}
  OBVIOUS
<1> HIDE DEF slice
<1>3. Cardinality(S \cup slice) = Cardinality(S) + Cardinality(slice) - Cardinality(S \cap slice)
  BY <1>1, FS_Union
<1>4. Cardinality(S) \in Nat /\ Cardinality({}) = 0
  BY FS_CardinalityType, FS_EmptySet
<1>5. Cardinality(S \cap slice) = 0
  BY <1>2, <1>4, Zenon
<1>6. Cardinality(S \cup slice) = Cardinality(S) + n
  BY <1>1, <1>3, <1>4, <1>5
<1> QED
  BY <1>6 DEF slice

LEMMA PileFinite ==
    ASSUME NEW K, IsFiniteSet(K), NEW f \in [K -> Nat]
    PROVE  IsFiniteSet(Pile(f))
<1> DEFINE slices == {{k} \X (1 .. f[k]) : k \in K}
           g == [k \in K |-> {k} \X (1 .. f[k])]
<1>1. g \in Surjection(K, slices)
  BY DEF Surjection
<1>2. IsFiniteSet(slices)
  BY <1>1, FS_Surjection
<1>3. ASSUME NEW S \in slices
      PROVE  IsFiniteSet(S)
  <2>1. PICK k \in K : S = {k} \X (1 .. f[k])
    OBVIOUS
  <2> QED
    BY <2>1, SliceSize, f[k] \in Nat
<1> QED
  BY <1>2, <1>3, FS_UNION DEF Pile

\* Replacing one term of a sum changes the sum by the difference.
LEMMA TotalUpdate ==
    ASSUME NEW K, IsFiniteSet(K), NEW f \in [K -> Nat], NEW j \in K, NEW n \in Nat
    PROVE  /\ Total(f) \in Nat
           /\ Total([f EXCEPT ![j] = n]) = Total(f) - f[j] + n
<1> DEFINE g == [f EXCEPT ![j] = n]
           rest == UNION {{k} \X (1 .. f[k]) : k \in K \ {j}}
<1>1. g \in [K -> Nat]
  OBVIOUS
<1>2. Pile(f) = rest \cup ({j} \X (1 .. f[j]))
  BY DEF Pile
<1>3. Pile(g) = rest \cup ({j} \X (1 .. n))
  BY DEF Pile
<1>4. /\ rest \cap ({j} \X (1 .. f[j])) = {}
      /\ rest \cap ({j} \X (1 .. n)) = {}
  OBVIOUS
<1>5. IsFiniteSet(Pile(f))
  BY PileFinite
<1>6. IsFiniteSet(rest)
  BY <1>2, <1>5, FS_Subset
<1>7. Cardinality(rest) \in Nat
  BY <1>6, FS_CardinalityType
<1>9. f[j] \in Nat
  OBVIOUS
<1> HIDE DEF rest, g
<1>10. Cardinality(Pile(f)) = Cardinality(rest) + f[j]
  <2>1. Cardinality(rest \cup ({j} \X (1 .. f[j]))) = Cardinality(rest) + f[j]
    BY <1>4, <1>6, <1>9, SliceOnTop
  <2> QED
    BY <2>1, <1>2, Zenon
<1>11. Cardinality(Pile(g)) = Cardinality(rest) + n
  <2>1. Cardinality(rest \cup ({j} \X (1 .. n))) = Cardinality(rest) + n
    BY <1>4, <1>6, SliceOnTop
  <2> QED
    BY <2>1, <1>3, Zenon
<1> QED
  BY <1>7, <1>9, <1>10, <1>11 DEF Total, g

LEMMA OwedNat ==
    ASSUME NEW L \in Ledgers, NEW t \in Tokens
    PROVE  Owed(L, t) \in Nat
<1> DEFINE K == Accounts \X VaultIds
           f == Balances(L, t)
<1>1. IsFiniteSet(K)
  BY LedgerAssumption, FS_Product
<1>2. f \in [K -> Nat]
  BY DEF Balances, Ledgers
<1> HIDE DEF K, f
<1>3. IsFiniteSet(Pile(f))
  BY <1>1, <1>2, PileFinite
<1> QED
  BY <1>3, FS_CardinalityType DEF Owed, Total, f

-----------------------------------------------------------------------------
(* The position of the contract in a token, and how the functions move it. *)

Position(L, t) == FromUnits(t, L.wallet[Raindex][t]) - Owed(L, t) - L.dust[t]

\* M is a ledger in which the position has changed by d in token t only.
Moves(L, M, t, d) ==
    /\ M \in Ledgers
    /\ \A s \in Tokens : Position(M, s) = Position(L, s) + (IF s = t THEN d ELSE 0)

LEMMA PositionInt ==
    ASSUME NEW L \in Ledgers, NEW t \in Tokens
    PROVE  Position(L, t) \in Int
<1>1. L.wallet[Raindex][t] \in Nat /\ L.dust[t] \in Nat /\ Unit[t] \in Nat
  BY LedgerAssumption DEF Ledgers, Holders
<1>2. FromUnits(t, L.wallet[Raindex][t]) \in Int
  BY <1>1 DEF FromUnits
<1> QED
  BY <1>1, <1>2, OwedNat DEF Position

\* Setting one vault balance moves the position by the difference.
LEMMA SetVaultMoves ==
    ASSUME NEW L \in Ledgers, NEW o \in Accounts, NEW t \in Tokens, NEW v \in VaultIds,
           NEW n \in Nat
    PROVE  Moves(L, [L EXCEPT !.vault[o][t][v] = n], t, L.vault[o][t][v] - n)
<1> DEFINE M == [L EXCEPT !.vault[o][t][v] = n]
           K == Accounts \X VaultIds
           f == Balances(L, t)
           j == <<o, v>>
<1>1. M \in Ledgers
  <2> DEFINE vault == [L.vault EXCEPT ![o][t][v] = n]
  <2>1. vault \in [Accounts -> [Tokens -> [VaultIds -> Nat]]]
    BY DEF Ledgers
  <2>2. M = [L EXCEPT !.vault = vault]
    OBVIOUS
  <2> HIDE DEF vault, M
  <2> QED
    BY <2>1, <2>2 DEF Ledgers
<1>2. M.wallet = L.wallet /\ M.dust = L.dust
  BY DEF Ledgers
<1>3. \A s \in Tokens : s # t => Balances(M, s) = Balances(L, s)
  BY DEF Balances, Ledgers
<1>4. Balances(M, t) = [f EXCEPT ![j] = n]
  <2>1. ASSUME NEW k \in K
        PROVE  M.vault[k[1]][t][k[2]] = IF k = j THEN n ELSE L.vault[k[1]][t][k[2]]
    BY DEF Ledgers
  <2> HIDE DEF M
  <2> QED
    BY <2>1 DEF Balances
<1>5. f \in [K -> Nat] /\ j \in K /\ f[j] = L.vault[o][t][v]
  BY DEF Balances, Ledgers
<1>6. IsFiniteSet(K)
  BY LedgerAssumption, FS_Product
<1>7. \A s \in Tokens : Owed(L, s) \in Nat /\ Owed(M, s) \in Nat
  BY <1>1, OwedNat
<1> HIDE DEF M, K, f, j
<1>8. Total([f EXCEPT ![j] = n]) = Total(f) - f[j] + n
  BY <1>5, <1>6, TotalUpdate
<1>9. Owed(M, t) = Owed(L, t) - L.vault[o][t][v] + n
  BY <1>4, <1>5, <1>8 DEF Owed, f
<1>10. \A s \in Tokens : s # t => Owed(M, s) = Owed(L, s)
  BY <1>3 DEF Owed
<1>11. L.vault[o][t][v] \in Nat
  BY DEF Ledgers
<1>12. \A s \in Tokens : /\ FromUnits(s, L.wallet[Raindex][s]) \in Int
                         /\ L.dust[s] \in Int
  BY LedgerAssumption DEF Ledgers, FromUnits, Holders
<1>13. \A s \in Tokens :
          Position(M, s) = Position(L, s) + (IF s = t THEN L.vault[o][t][v] - n ELSE 0)
  BY <1>2, <1>7, <1>9, <1>10, <1>11, <1>12 DEF Position
<1> QED
  BY <1>1, <1>13 DEF Moves, M

LEMMA CreditMoves ==
    ASSUME NEW L \in Ledgers, NEW o \in Accounts, NEW t \in Tokens, NEW v \in VaultIds,
           NEW q \in Nat
    PROVE  Moves(L, Credit(L, o, t, v, q), t, -q)
<1> DEFINE n == L.vault[o][t][v] + q
<1>1. L.vault[o][t][v] \in Nat /\ n \in Nat /\ L.vault[o][t][v] - n = -q
  BY DEF Ledgers
<1>2. Credit(L, o, t, v, q) = [L EXCEPT !.vault[o][t][v] = n]
  BY DEF Credit, Ledgers
<1> HIDE DEF n
<1> QED
  BY <1>1, <1>2, SetVaultMoves

LEMMA DebitMoves ==
    ASSUME NEW L \in Ledgers, NEW o \in Accounts, NEW t \in Tokens, NEW v \in VaultIds,
           NEW q \in Nat, q <= L.vault[o][t][v]
    PROVE  Moves(L, Debit(L, o, t, v, q), t, q)
<1> DEFINE n == L.vault[o][t][v] - q
<1>1. L.vault[o][t][v] \in Nat /\ n \in Nat /\ L.vault[o][t][v] - n = q
  BY DEF Ledgers
<1>2. Debit(L, o, t, v, q) = [L EXCEPT !.vault[o][t][v] = n]
  BY DEF Debit, Ledgers
<1> HIDE DEF n
<1> QED
  BY <1>1, <1>2, SetVaultMoves

LEMMA MovesTrans ==
    ASSUME NEW L \in Ledgers, NEW M, NEW N, NEW t \in Tokens, NEW d \in Int, NEW e \in Int,
           Moves(L, M, t, d), Moves(M, N, t, e)
    PROVE  Moves(L, N, t, d + e)
<1>1. M \in Ledgers /\ N \in Ledgers
  BY DEF Moves
<1>2. \A s \in Tokens : Position(L, s) \in Int
  BY PositionInt
<1> QED
  BY <1>1, <1>2 DEF Moves

LEMMA MovedType ==
    ASSUME NEW w \in [Holders -> [Tokens -> Nat]], NEW a \in Holders, NEW b \in Holders,
           a # b, NEW t \in Tokens, NEW n \in Nat, n <= w[a][t]
    PROVE  /\ Moved(w, a, b, t, n) \in [Holders -> [Tokens -> Nat]]
           /\ \A c \in Holders, s \in Tokens :
                 Moved(w, a, b, t, n)[c][s] =
                    IF s # t THEN w[c][s]
                    ELSE IF c = a THEN w[c][s] - n
                    ELSE IF c = b THEN w[c][s] + n
                    ELSE w[c][s]
<1> DEFINE x == [w EXCEPT ![a][t] = @ - n]
           y == [x EXCEPT ![b][t] = @ + n]
<1>1. /\ x \in [Holders -> [Tokens -> Nat]]
      /\ \A c \in Holders, s \in Tokens :
            x[c][s] = IF s = t /\ c = a THEN w[c][s] - n ELSE w[c][s]
  OBVIOUS
<1>2. Moved(w, a, b, t, n) = y
  BY DEF Moved
<1> HIDE DEF x
<1>3. /\ y \in [Holders -> [Tokens -> Nat]]
      /\ \A c \in Holders, s \in Tokens :
            y[c][s] = IF s = t /\ c = b THEN x[c][s] + n ELSE x[c][s]
  BY <1>1
<1> HIDE DEF y
<1> QED
  BY <1>1, <1>2, <1>3

\* Tokens that come in without a vault being credited move the position up.
LEMMA TransferInMoves ==
    ASSUME NEW L \in Ledgers, NEW a \in Accounts, NEW t \in Tokens, NEW n \in Nat,
           CanTransferIn(L, a, t, n)
    PROVE  /\ Moves(L, TransferIn(L, a, t, n), t, FromUnits(t, n))
           /\ TransferIn(L, a, t, n).vault = L.vault
           /\ TransferIn(L, a, t, n).dust = L.dust
<1> DEFINE M == TransferIn(L, a, t, n)
           wallet == Moved(L.wallet, a, Raindex, t, n)
           allow == [L.allow EXCEPT ![a][t] = IF @ = MaxUint THEN @ ELSE @ - n]
<1>0. /\ L.wallet \in [Holders -> [Tokens -> Nat]]
      /\ a \in Holders /\ Raindex \in Holders /\ a # Raindex
      /\ n <= L.wallet[a][t]
  BY LedgerAssumption DEF Ledgers, Holders, CanTransferIn
<1>1. wallet \in [Holders -> [Tokens -> Nat]]
  BY <1>0, MovedType
<1>2. allow \in [Accounts -> [Tokens -> Nat]]
  BY DEF Ledgers, CanTransferIn
<1>3. \A s \in Tokens : wallet[Raindex][s] = L.wallet[Raindex][s] + (IF s = t THEN n ELSE 0)
  BY <1>0, MovedType
<1>4. M = [L EXCEPT !.wallet = wallet, !.allow = allow]
  BY DEF TransferIn
<1> HIDE DEF wallet, allow, M
<1>5. M \in Ledgers /\ M.vault = L.vault /\ M.dust = L.dust /\ M.wallet = wallet
  BY <1>1, <1>2, <1>4 DEF Ledgers
<1>6. \A s \in Tokens : Owed(M, s) = Owed(L, s) /\ Owed(L, s) \in Nat
  BY <1>5, OwedNat DEF Owed, Balances
<1>7. \A s \in Tokens : /\ L.wallet[Raindex][s] \in Nat
                        /\ L.dust[s] \in Nat
                        /\ Unit[s] \in Nat
  BY LedgerAssumption DEF Ledgers, Holders
<1>8. \A s \in Tokens :
         Position(M, s) = Position(L, s) + (IF s = t THEN FromUnits(t, n) ELSE 0)
  BY <1>3, <1>5, <1>6, <1>7 DEF Position, FromUnits
<1> QED
  BY <1>5, <1>8 DEF Moves, M

LEMMA TransferOutMoves ==
    ASSUME NEW L \in Ledgers, NEW a \in Accounts, NEW t \in Tokens, NEW n \in Nat,
           CanTransferOut(L, t, n)
    PROVE  /\ Moves(L, TransferOut(L, a, t, n), t, -FromUnits(t, n))
           /\ TransferOut(L, a, t, n).vault = L.vault
           /\ TransferOut(L, a, t, n).dust = L.dust
<1> DEFINE M == TransferOut(L, a, t, n)
           wallet == Moved(L.wallet, Raindex, a, t, n)
<1>0. /\ L.wallet \in [Holders -> [Tokens -> Nat]]
      /\ a \in Holders /\ Raindex \in Holders /\ a # Raindex
      /\ n <= L.wallet[Raindex][t]
  BY LedgerAssumption DEF Ledgers, Holders, CanTransferOut
<1>1. wallet \in [Holders -> [Tokens -> Nat]]
  BY <1>0, MovedType
<1>3. \A s \in Tokens : wallet[Raindex][s] = L.wallet[Raindex][s] - (IF s = t THEN n ELSE 0)
  BY <1>0, MovedType
<1>4. M = [L EXCEPT !.wallet = wallet]
  BY DEF TransferOut
<1> HIDE DEF wallet, M
<1>5. M \in Ledgers /\ M.vault = L.vault /\ M.dust = L.dust /\ M.wallet = wallet
  BY <1>1, <1>4 DEF Ledgers
<1>6. \A s \in Tokens : Owed(M, s) = Owed(L, s) /\ Owed(L, s) \in Nat
  BY <1>5, OwedNat DEF Owed, Balances
<1>7. \A s \in Tokens : /\ L.wallet[Raindex][s] \in Nat
                        /\ L.dust[s] \in Nat
                        /\ Unit[s] \in Nat
  BY LedgerAssumption DEF Ledgers, Holders
<1>8. \A s \in Tokens :
         Position(M, s) = Position(L, s) + (IF s = t THEN -FromUnits(t, n) ELSE 0)
  BY <1>3, <1>5, <1>6, <1>7 DEF Position, FromUnits
<1> QED
  BY <1>5, <1>8 DEF Moves, M

\* Dust that a rounding adds moves the position down.
LEMMA DustMoves ==
    ASSUME NEW L \in Ledgers, NEW t \in Tokens, NEW d \in Nat
    PROVE  /\ Moves(L, [L EXCEPT !.dust[t] = @ + d], t, -d)
           /\ [L EXCEPT !.dust[t] = @ + d].vault = L.vault
<1> DEFINE dust == [L.dust EXCEPT ![t] = @ + d]
           M == [L EXCEPT !.dust[t] = @ + d]
<1>1. dust \in [Tokens -> Nat]
  BY DEF Ledgers
<1>2. \A s \in Tokens : dust[s] = L.dust[s] + (IF s = t THEN d ELSE 0)
  BY DEF Ledgers
<1>3. M = [L EXCEPT !.dust = dust]
  OBVIOUS
<1> HIDE DEF dust, M
<1>4. M \in Ledgers /\ M.vault = L.vault /\ M.wallet = L.wallet /\ M.dust = dust
  BY <1>1, <1>3 DEF Ledgers
<1>5. \A s \in Tokens : Owed(M, s) = Owed(L, s) /\ Owed(L, s) \in Nat
  BY <1>4, OwedNat DEF Owed, Balances
<1>6. \A s \in Tokens : FromUnits(s, L.wallet[Raindex][s]) \in Int /\ L.dust[s] \in Nat
  BY LedgerAssumption DEF Ledgers, Holders, FromUnits
<1>7. \A s \in Tokens : Position(M, s) = Position(L, s) + (IF s = t THEN -d ELSE 0)
  BY <1>2, <1>4, <1>5, <1>6 DEF Position
<1> QED
  BY <1>4, <1>7 DEF Moves, M

\* pullTokens moves the position up by exactly the Float amount: what it pulls
\* beyond that is dust.
LEMMA PullMoves ==
    ASSUME NEW L \in Ledgers, NEW a \in Accounts, NEW t \in Tokens, NEW q \in Nat,
           CanPull(L, a, t, q)
    PROVE  /\ Moves(L, pullTokens(L, a, t, q), t, q)
           /\ pullTokens(L, a, t, q).vault = L.vault
<1> DEFINE n == PullUnits(t, q)
           M == TransferIn(L, a, t, n)
           d == FromUnits(t, n) - q
<1>1. n \in Nat /\ d \in Nat
  BY Conversions
<1>2. CanTransferIn(L, a, t, n)
  BY DEF CanPull
<1> HIDE DEF n
<1>3. Moves(L, M, t, FromUnits(t, n)) /\ M.vault = L.vault
  BY <1>1, <1>2, TransferInMoves
<1>4. M \in Ledgers
  BY <1>3 DEF Moves
<1>5. pullTokens(L, a, t, q) = [M EXCEPT !.dust[t] = @ + d]
  BY DEF pullTokens, n
<1>6. FromUnits(t, n) \in Int
  BY <1>1, LedgerAssumption DEF FromUnits
<1> HIDE DEF M, d
<1>7. Moves(M, pullTokens(L, a, t, q), t, -d) /\ pullTokens(L, a, t, q).vault = M.vault
  BY <1>1, <1>4, <1>5, DustMoves
<1>8. Moves(L, pullTokens(L, a, t, q), t, FromUnits(t, n) + (-d))
  BY <1>1, <1>3, <1>6, <1>7, MovesTrans
<1>9. FromUnits(t, n) + (-d) = q
  BY <1>1, <1>6 DEF d
<1> QED
  BY <1>3, <1>7, <1>8, <1>9

LEMMA PushMoves ==
    ASSUME NEW L \in Ledgers, NEW a \in Accounts, NEW t \in Tokens, NEW q \in Nat,
           CanPush(L, t, q)
    PROVE  /\ Moves(L, pushTokens(L, a, t, q), t, -q)
           /\ pushTokens(L, a, t, q).vault = L.vault
<1> DEFINE n == ToUnits(t, q)
           M == TransferOut(L, a, t, n)
           d == q - FromUnits(t, n)
<1>1. n \in Nat /\ d \in Nat
  BY Conversions
<1>2. CanTransferOut(L, t, n)
  BY DEF CanPush
<1> HIDE DEF n
<1>3. Moves(L, M, t, -FromUnits(t, n)) /\ M.vault = L.vault
  BY <1>1, <1>2, TransferOutMoves
<1>4. M \in Ledgers
  BY <1>3 DEF Moves
<1>5. pushTokens(L, a, t, q) = [M EXCEPT !.dust[t] = @ + d]
  BY DEF pushTokens, n
<1>6. FromUnits(t, n) \in Int
  BY <1>1, LedgerAssumption DEF FromUnits
<1> HIDE DEF M, d
<1>7. Moves(M, pushTokens(L, a, t, q), t, -d) /\ pushTokens(L, a, t, q).vault = M.vault
  BY <1>1, <1>4, <1>5, DustMoves
<1>8. Moves(L, pushTokens(L, a, t, q), t, (-FromUnits(t, n)) + (-d))
  BY <1>1, <1>3, <1>6, <1>7, MovesTrans
<1>9. (-FromUnits(t, n)) + (-d) = -q
  BY <1>1, <1>6 DEF d
<1> QED
  BY <1>3, <1>7, <1>8, <1>9

-----------------------------------------------------------------------------
(* The vault functions.  Each lemma also says what happens to the slots of *)
(* vault 0.                                                                *)

SameSlots(L, M) ==
    \A o \in Accounts, t \in Tokens : M.vault[o][t][0] = L.vault[o][t][0]

LEMMA IncreaseMoves ==
    ASSUME NEW L \in Ledgers, NEW o \in Accounts, NEW t \in Tokens, NEW v \in VaultIds,
           NEW q \in Nat, CanIncrease(L, t, v, q)
    PROVE  /\ Moves(L, increaseVaultBalance(L, o, t, v, q), t, -q)
           /\ SameSlots(L, increaseVaultBalance(L, o, t, v, q))
<1>1. CASE v = 0
  <2>1. increaseVaultBalance(L, o, t, v, q) = pushTokens(L, o, t, q)
    BY <1>1 DEF increaseVaultBalance
  <2>2. CanPush(L, t, q)
    BY <1>1 DEF CanIncrease
  <2> QED
    BY <2>1, <2>2, PushMoves DEF SameSlots
<1>2. CASE v # 0
  <2>1. increaseVaultBalance(L, o, t, v, q) = Credit(L, o, t, v, q)
    BY <1>2 DEF increaseVaultBalance
  <2>2. SameSlots(L, Credit(L, o, t, v, q))
    BY <1>2, LedgerAssumption DEF SameSlots, Credit, Ledgers
  <2> QED
    BY <2>1, <2>2, CreditMoves
<1> QED
  BY <1>1, <1>2

LEMMA DecreaseMoves ==
    ASSUME NEW L \in Ledgers, NEW o \in Accounts, NEW t \in Tokens, NEW v \in VaultIds,
           NEW q \in Nat, CanDecrease(L, o, t, v, q)
    PROVE  /\ Moves(L, decreaseVaultBalance(L, o, t, v, q), t, q)
           /\ SameSlots(L, decreaseVaultBalance(L, o, t, v, q))
<1>1. CASE v = 0
  <2>1. decreaseVaultBalance(L, o, t, v, q) = pullTokens(L, o, t, q)
    BY <1>1 DEF decreaseVaultBalance
  <2>2. CanPull(L, o, t, q)
    BY <1>1 DEF CanDecrease
  <2> QED
    BY <2>1, <2>2, PullMoves DEF SameSlots
<1>2. CASE v # 0
  <2>1. decreaseVaultBalance(L, o, t, v, q) = Debit(L, o, t, v, q)
    BY <1>2 DEF decreaseVaultBalance
  <2>2. SameSlots(L, Debit(L, o, t, v, q))
    BY <1>2, LedgerAssumption DEF SameSlots, Debit, Ledgers
  <2>3. q <= L.vault[o][t][v]
    BY <1>2 DEF CanDecrease
  <2> QED
    BY <2>1, <2>2, <2>3, DebitMoves
<1> QED
  BY <1>1, <1>2

LEMMA RecordInputMoves ==
    ASSUME NEW L \in Ledgers, NEW o \in Accounts,
           NEW io \in [token : Tokens, vault : VaultIds], NEW q \in Nat
    PROVE  /\ Moves(L, recordVaultInput(L, o, io, q), io.token, -q)
           /\ \A p \in Accounts, t \in Tokens :
                 (io.vault = 0 /\ p = o /\ t = io.token)
                   \/ recordVaultInput(L, o, io, q).vault[p][t][0] = L.vault[p][t][0]
<1>1. recordVaultInput(L, o, io, q) = Credit(L, o, io.token, io.vault, q)
  BY DEF recordVaultInput, increaseVaultBalance
<1>2. \A p \in Accounts, t \in Tokens :
         (io.vault = 0 /\ p = o /\ t = io.token)
           \/ Credit(L, o, io.token, io.vault, q).vault[p][t][0] = L.vault[p][t][0]
  BY LedgerAssumption DEF Credit, Ledgers
<1> QED
  BY <1>1, <1>2, CreditMoves

\* Flushing a slot leaves the position as it was and the slot empty.
LEMMA FlushMoves ==
    ASSUME NEW L \in Ledgers, NEW o \in Accounts,
           NEW io \in [token : Tokens, vault : VaultIds],
           CanPush(L, io.token, Accrued(L, o, io))
    PROVE  /\ Moves(L, pushVaultZeroInput(L, o, io), io.token, 0)
           /\ \A p \in Accounts, t \in Tokens :
                 pushVaultZeroInput(L, o, io).vault[p][t][0] =
                    IF io.vault = 0 /\ p = o /\ t = io.token THEN 0 ELSE L.vault[p][t][0]
<1> DEFINE q == Accrued(L, o, io)
           M == Debit(L, o, io.token, 0, q)
<1>1. q \in Nat /\ L.vault[o][io.token][0] \in Nat
  BY LedgerAssumption DEF Accrued, Ledgers
<1>2. CASE q = 0
  <2>1. pushVaultZeroInput(L, o, io) = L
    BY <1>2 DEF pushVaultZeroInput
  <2>2. Moves(L, L, io.token, 0)
    BY PositionInt DEF Moves
  <2> QED
    BY <1>2, <2>1, <2>2 DEF Accrued
<1>3. CASE q # 0
  <2>1. io.vault = 0 /\ q = L.vault[o][io.token][0]
    BY <1>3 DEF Accrued
  <2>2. Moves(L, M, io.token, q)
    BY <1>1, <2>1, LedgerAssumption, DebitMoves
  <2>3. M \in Ledgers
    BY <2>2 DEF Moves
  <2>4. M.wallet = L.wallet
    BY DEF Debit, Ledgers
  <2>5. CanPush(M, io.token, q)
    BY <2>4 DEF CanPush, CanTransferOut
  <2>6. pushVaultZeroInput(L, o, io) = pushTokens(M, o, io.token, q)
    BY <1>3 DEF pushVaultZeroInput
  <2>7. \A p \in Accounts, t \in Tokens :
           M.vault[p][t][0] = IF p = o /\ t = io.token THEN 0 ELSE L.vault[p][t][0]
    BY <1>1, <2>1, LedgerAssumption DEF Debit, Ledgers
  <2> HIDE DEF M, q
  <2>8. /\ Moves(M, pushTokens(M, o, io.token, q), io.token, -q)
        /\ pushTokens(M, o, io.token, q).vault = M.vault
    BY <1>1, <2>3, <2>5, PushMoves
  <2>9. Moves(L, pushTokens(M, o, io.token, q), io.token, q + (-q))
    BY <1>1, <2>2, <2>8, MovesTrans
  <2>10. q + (-q) = 0
    BY <1>1
  <2> QED
    BY <2>1, <2>6, <2>7, <2>8, <2>9, <2>10
<1> QED
  BY <1>2, <1>3

-----------------------------------------------------------------------------
(* The arithmetic of RaindexTrades                                         *)

\* A quotient truncates.
LEMMA Truncates ==
    ASSUME NEW a \in Nat, NEW b \in Nat \ {0}
    PROVE  /\ a \div b \in Nat
           /\ (a \div b) * b <= a
           /\ a < (a \div b + 1) * b
  OBVIOUS

LEMMA ProductNat == \A a, b \in Nat : a * b \in Nat
  OBVIOUS

LEMMA ProductMonotone ==
    ASSUME NEW a \in Nat, NEW b \in Nat, NEW c \in Nat, a <= b
    PROVE  a * c <= b * c
  OBVIOUS

LEMMA CancelFactor ==
    ASSUME NEW a \in Int, NEW b \in Int, NEW c \in Nat \ {0}, a * c <= b * c
    PROVE  a <= b
  OBVIOUS

LEMMA CancelFactorStrict ==
    ASSUME NEW a \in Int, NEW b \in Int, NEW c \in Nat \ {0}, a * c < b * c
    PROVE  a < b
  OBVIOUS

\* The product of an amount and a ratio.
LEMMA FloatMulTruncates ==
    ASSUME NEW q \in Nat, NEW r \in Ratios, r.num >= 0
    PROVE  /\ FloatMul(q, r) \in Nat
           /\ FloatMul(q, r) * r.den <= q * r.num
           /\ q * r.num < (FloatMul(q, r) + 1) * r.den
<1>1. r.num \in Nat /\ r.den \in Nat \ {0}
  BY DEF Ratios
<1>2. q * r.num \in Nat
  BY <1>1, ProductNat
<1> QED
  BY <1>1, <1>2, Truncates DEF FloatMul

LEMMA FloatDivTruncates ==
    ASSUME NEW q \in Nat, NEW r \in Ratios, r.num > 0
    PROVE  /\ FloatDiv(q, r) \in Nat
           /\ FloatDiv(q, r) * r.num <= q * r.den
           /\ q * r.den < (FloatDiv(q, r) + 1) * r.num
<1>1. r.num \in Nat \ {0} /\ r.den \in Nat \ {0}
  BY DEF Ratios
<1>2. q * r.den \in Nat
  BY <1>1, ProductNat
<1> QED
  BY <1>1, <1>2, Truncates DEF FloatDiv

\* Dividing what is within a product by its ratio gives back no more than the
\* amount that was multiplied.
LEMMA DivWithinMul ==
    ASSUME NEW q \in Nat, NEW r \in Ratios, r.num > 0, NEW n \in Nat, n <= FloatMul(q, r)
    PROVE  FloatDiv(n, r) \in Nat /\ FloatDiv(n, r) <= q
<1> DEFINE d == FloatDiv(n, r)
           m == FloatMul(q, r)
<1>1. r.num \in Nat \ {0} /\ r.den \in Nat \ {0}
  BY DEF Ratios
<1>2. d \in Nat /\ d * r.num <= n * r.den
  BY FloatDivTruncates
<1>3. m \in Nat /\ m * r.den <= q * r.num
  BY <1>1, FloatMulTruncates
<1> HIDE DEF d, m
<1>4. n * r.den <= m * r.den
  BY <1>1, <1>3, ProductMonotone DEF m
<1>5. /\ d * r.num \in Nat /\ n * r.den \in Nat
      /\ m * r.den \in Nat /\ q * r.num \in Nat
  BY <1>1, <1>2, <1>3, ProductNat
<1>6. d * r.num <= q * r.num
  BY <1>2, <1>3, <1>4, <1>5
<1>7. d <= q
  BY <1>1, <1>2, <1>6, CancelFactor
<1> QED
  BY <1>2, <1>7 DEF d

-----------------------------------------------------------------------------
(* takeOrders5                                                             *)

LEMMA MinOfProperties ==
    ASSUME NEW a \in Int, NEW b \in Int
    PROVE  MinOf(a, b) \in {a, b} /\ MinOf(a, b) <= a /\ MinOf(a, b) <= b
  BY DEF MinOf

\* The order of a batch that bounds the taker's input is filled within its
\* outputMax and the taker's remaining IO, at no worse than its ratio.
LEMMA TakerIOInput ==
    ASSUME NEW q \in Calculations, q.max > 0, q.ratio.num >= 0, NEW n \in Nat
    PROVE  LET io == TakerIO(TRUE, q, n)
           IN  /\ io.input \in Nat /\ io.output \in Nat
               /\ io.input <= q.max /\ io.input <= n
               /\ io.output * q.ratio.den <= io.input * q.ratio.num
               /\ io.input * q.ratio.num < (io.output + 1) * q.ratio.den
<1> DEFINE input == MinOf(q.max, n)
           io == TakerIO(TRUE, q, n)
<1>1. q.max \in Nat /\ q.ratio \in Ratios
  BY DEF Calculations
<1>2. input \in Nat /\ input <= q.max /\ input <= n
  BY <1>1, MinOfProperties
<1>3. io.input = input /\ io.output = FloatMul(input, q.ratio)
  BY DEF TakerIO
<1> HIDE DEF input, io
<1>4. /\ FloatMul(input, q.ratio) \in Nat
      /\ FloatMul(input, q.ratio) * q.ratio.den <= input * q.ratio.num
      /\ input * q.ratio.num < (FloatMul(input, q.ratio) + 1) * q.ratio.den
  BY <1>1, <1>2, FloatMulTruncates
<1> QED
  BY <1>2, <1>3, <1>4 DEF io

\* If it is the taker's output that is bounded, the division may lose up to a
\* quantum of the taker's input, in favour of the order.
LEMMA TakerIOOutput ==
    ASSUME NEW q \in Calculations, q.max > 0, q.ratio.num >= 0, NEW n \in Nat
    PROVE  LET io == TakerIO(FALSE, q, n)
           IN  /\ io.input \in Nat /\ io.output \in Nat
               /\ io.input <= q.max /\ io.output <= n
               /\ io.output * q.ratio.den <= (io.input + 1) * q.ratio.num
               /\ io.input * q.ratio.num <= io.output * q.ratio.den
<1> DEFINE most == FloatMul(q.max, q.ratio)
           output == MinOf(most, n)
           input == IF q.ratio.num = 0 THEN q.max ELSE FloatDiv(output, q.ratio)
           io == TakerIO(FALSE, q, n)
<1>1. q.max \in Nat /\ q.ratio \in Ratios /\ q.ratio.num \in Nat /\ q.ratio.den \in Nat \ {0}
  BY DEF Calculations, Ratios
<1>2. most \in Nat /\ most * q.ratio.den <= q.max * q.ratio.num
  BY <1>1, FloatMulTruncates
<1>3. io.input = input /\ io.output = output
  BY DEF TakerIO
<1>4. output \in Nat /\ output <= most /\ output <= n
  <2> HIDE DEF most
  <2> QED
    BY <1>2, MinOfProperties
<1> DEFINE n1 == q.ratio.num
           d1 == q.ratio.den
           Goal == /\ input \in Nat /\ output \in Nat
                   /\ input <= q.max /\ output <= n
                   /\ output * d1 <= (input + 1) * n1
                   /\ input * n1 <= output * d1
<1>5. ASSUME n1 = 0 PROVE Goal
  <2>1. input = q.max
    BY <1>5
  <2>2. most = 0
    <3> HIDE DEF most
    <3>1. most * q.ratio.den <= 0
      BY <1>1, <1>2, <1>5
    <3> QED
      BY <1>1, <1>2, <3>1
  <2>3. output = 0
    <3> HIDE DEF output, most
    <3> QED
      BY <1>4, <2>2
  <2> HIDE DEF input, output, most, n1, d1
  <2>4. Goal
    BY <1>1, <1>5, <2>1, <2>3 DEF n1, d1
  <2> QED
    BY <2>4
<1>6. ASSUME n1 # 0 PROVE Goal
  <2>1. q.ratio.num > 0
    BY <1>1, <1>6
  <2>2. input = FloatDiv(output, q.ratio)
    BY <1>6
  <2> HIDE DEF input, output
  <2>3. input \in Nat /\ input <= q.max
    BY <1>1, <1>4, <2>1, <2>2, DivWithinMul
  <2>4. /\ input * q.ratio.num <= output * q.ratio.den
        /\ output * q.ratio.den < (input + 1) * q.ratio.num
    BY <1>1, <1>4, <2>1, <2>2, FloatDivTruncates
  <2>5. output * q.ratio.den \in Int /\ (input + 1) * q.ratio.num \in Int
    BY <1>1, <1>4, <2>3
  <2> QED
    BY <1>4, <2>3, <2>4, <2>5
<1>7. Goal
  BY <1>5, <1>6
<1> HIDE DEF input, output, io
<1> QED
  BY <1>3, <1>7, Zenon DEF io

\* A price within an order's ratio is within every ratio that is no less.
LEMMA WithinRatio ==
    ASSUME NEW q \in Calculations, q.ratio.num >= 0, NEW r \in Ratios, ~RatioGt(q.ratio, r),
           NEW a \in Nat, NEW b \in Nat, a * q.ratio.den <= b * q.ratio.num
    PROVE  a * r.den <= r.num * b
<1> DEFINE n == q.ratio.num
           d == q.ratio.den
<1>1. n \in Nat /\ d \in Nat \ {0} /\ r.num \in Int /\ r.den \in Nat \ {0}
  BY DEF Calculations, Ratios
<1>2. n * r.den <= r.num * d
  BY <1>1 DEF RatioGt
<1>3. a * d <= b * n
  OBVIOUS
<1> HIDE DEF n, d
<1>4. (a * d) * r.den <= (b * n) * r.den
  BY <1>1, <1>3, ProductNat, ProductMonotone
<1>5. r.num \in Nat
  <2>1. 0 <= n * r.den
    BY <1>1
  <2>2. 0 <= r.num * d
    BY <1>1, <1>2, <2>1
  <2> QED
    BY <1>1, <2>2
<1>6. (n * r.den) * b <= (r.num * d) * b
  BY <1>1, <1>2, <1>5, ProductNat, ProductMonotone
<1>7. /\ (a * d) * r.den = (a * r.den) * d
      /\ (b * n) * r.den = (n * r.den) * b
      /\ (r.num * d) * b = (r.num * b) * d
  BY <1>1, <1>5
<1>8. (a * r.den) * d <= (r.num * b) * d
  <2> DEFINE x == (a * r.den) * d
             y == (n * r.den) * b
             z == (r.num * b) * d
  <2>1. x <= y /\ y <= z
    BY <1>4, <1>6, <1>7
  <2>2. x \in Int /\ y \in Int /\ z \in Int
    BY <1>1, <1>5
  <2> HIDE DEF x, y, z
  <2>3. x <= z
    BY <2>1, <2>2
  <2> QED
    BY <2>3 DEF x, z
<1>9. a * r.den \in Int /\ r.num * b \in Int
  BY <1>1, <1>5
<1> QED
  BY <1>1, <1>8, <1>9, CancelFactor

\* What takeOrders5 does to one order: the amounts are not negative, the
\* order gives no more than its outputMax, the taker is charged no more than
\* what remains of its IO, the price is within its maximumIORatio, and the
\* order is paid its own ratio up to a quantum of rounding.
THEOREM TakerIOCorrect ==
    ASSUME NEW isInput \in BOOLEAN, NEW q \in Calculations, NEW r \in Ratios, IsTaken(q, r),
           NEW n \in Nat
    PROVE  LET io == TakerIO(isInput, q, n)
           IN  /\ io.input \in Nat /\ io.output \in Nat
               /\ io.input <= q.max
               /\ RelevantIO(isInput, io.input, io.output) <= n
               /\ io.output * r.den
                     <= r.num * (io.input + (IF isInput THEN 0 ELSE 1))
               /\ io.input * q.ratio.num < (io.output + 1) * q.ratio.den
<1>1. q.max > 0 /\ q.ratio.num >= 0 /\ ~RatioGt(q.ratio, r)
  BY DEF IsTaken
<1>2. CASE isInput = TRUE
  <2> DEFINE io == TakerIO(TRUE, q, n)
  <2>1. /\ io.input \in Nat /\ io.output \in Nat
        /\ io.input <= q.max /\ io.input <= n
        /\ io.output * q.ratio.den <= io.input * q.ratio.num
        /\ io.input * q.ratio.num < (io.output + 1) * q.ratio.den
    BY <1>1, TakerIOInput
  <2> HIDE DEF io
  <2>2. io.output * r.den <= r.num * io.input
    BY <1>1, <2>1, WithinRatio
  <2>3. io.input + 0 = io.input
    BY <2>1
  <2> QED
    BY <1>2, <2>1, <2>2, <2>3 DEF RelevantIO, io
<1>3. CASE isInput = FALSE
  <2> DEFINE io == TakerIO(FALSE, q, n)
  <2>1. /\ io.input \in Nat /\ io.output \in Nat
        /\ io.input <= q.max /\ io.output <= n
        /\ io.output * q.ratio.den <= (io.input + 1) * q.ratio.num
        /\ io.input * q.ratio.num <= io.output * q.ratio.den
    BY <1>1, TakerIOOutput
  <2> HIDE DEF io
  <2>2. io.input + 1 \in Nat
    BY <2>1
  <2>3. io.output * r.den <= r.num * (io.input + 1)
    BY <1>1, <2>1, <2>2, WithinRatio
  <2>4. io.input * q.ratio.num < (io.output + 1) * q.ratio.den
    <3>1. q.ratio.num \in Nat /\ q.ratio.den \in Nat \ {0}
      BY <1>1 DEF Calculations, Ratios
    <3> DEFINE x == io.input * q.ratio.num
               d == q.ratio.den
    <3>2. x \in Int /\ d \in Nat \ {0} /\ x <= io.output * d
      BY <2>1, <3>1
    <3> HIDE DEF x, d
    <3>3. x < (io.output + 1) * d
      BY <2>1, <3>2
    <3> QED
      BY <3>3 DEF x, d
  <2> QED
    BY <1>3, <2>1, <2>3, <2>4 DEF RelevantIO, io
<1> QED
  BY <1>2, <1>3

-----------------------------------------------------------------------------
(* clear4                                                                  *)

\* Two orders cross when neither asks for more than the other offers.
Crosses(alice, bob) ==
    alice.ratio.num * bob.ratio.num <= alice.ratio.den * bob.ratio.den

\* One side of a clear gives no more than its outputMax and gets no more than
\* the outputMax of the other side, at no better than its own ratio.
LEMMA ClearSide ==
    ASSUME NEW p \in Calculations, IsClearable(p), NEW q \in Calculations, IsClearable(q)
    PROVE  LET a == calculateClearStateAlice(p, q)
           IN  /\ a.input \in Nat /\ a.output \in Nat
               /\ a.output <= p.max /\ a.input <= q.max
               /\ a.output * p.ratio.num <= (a.input + 1) * p.ratio.den
<1> DEFINE wanted == FloatMul(p.max, p.ratio)
           a == calculateClearStateAlice(p, q)
           pn == p.ratio.num
           pd == p.ratio.den
<1>1. /\ p.max \in Nat /\ p.ratio \in Ratios /\ pn \in Nat /\ pd \in Nat \ {0}
      /\ q.max \in Nat
  BY DEF Calculations, Ratios, IsClearable
<1>2. /\ wanted \in Nat
      /\ wanted * pd <= p.max * pn
      /\ p.max * pn < (wanted + 1) * pd
  BY <1>1, FloatMulTruncates
<1>3. CASE wanted > q.max
  <2>1. a.input = q.max /\ a.output = FloatDiv(q.max, p.ratio)
    BY <1>3 DEF calculateClearStateAlice
  <2>2. pn > 0
    <3> HIDE DEF wanted, pn, pd
    <3>1. wanted * pd > 0
      BY <1>1, <1>2, <1>3
    <3>2. p.max * pn > 0
      BY <1>1, <1>2, <3>1
    <3> QED
      BY <1>1, <3>2
  <2>3. FloatDiv(q.max, p.ratio) \in Nat /\ FloatDiv(q.max, p.ratio) <= p.max
    BY <1>1, <1>2, <1>3, <2>2, DivWithinMul
  <2>4. FloatDiv(q.max, p.ratio) * pn <= q.max * pd
    BY <1>1, <2>2, FloatDivTruncates
  <2> HIDE DEF wanted, a, pn, pd
  <2>5. q.max * pd <= (q.max + 1) * pd
    BY <1>1
  <2>6. q.max * pd \in Int /\ (q.max + 1) * pd \in Int /\ FloatDiv(q.max, p.ratio) * pn \in Int
    BY <1>1, <2>3
  <2>7. a.output * pn <= (a.input + 1) * pd
    BY <2>1, <2>4, <2>5, <2>6
  <2> QED
    BY <1>1, <2>1, <2>3, <2>7 DEF a, pn, pd
<1>4. CASE ~(wanted > q.max)
  <2>1. a.input = wanted /\ a.output = p.max
    BY <1>4 DEF calculateClearStateAlice
  <2> HIDE DEF wanted, a, pn, pd
  <2>2. p.max * pn \in Int /\ (wanted + 1) * pd \in Int
    BY <1>1, <1>2
  <2>3. a.output * pn <= (a.input + 1) * pd
    BY <1>2, <2>1, <2>2
  <2> QED
    BY <1>1, <1>2, <1>4, <2>1, <2>3 DEF a, pn, pd
<1> QED
  BY <1>3, <1>4

\* What clear4 computes for both sides, whenever both are clearable: neither
\* gives more than its outputMax or gets more than the other's, and each gets
\* at least its ratio for what it gives, up to a quantum of rounding.
THEOREM ClearStateCorrect ==
    ASSUME NEW p \in Calculations, IsClearable(p), NEW q \in Calculations, IsClearable(q)
    PROVE  LET c == calculateClearStateChange(p, q)
           IN  /\ c.alice.input \in Nat /\ c.alice.output \in Nat
               /\ c.alice.output <= p.max /\ c.alice.input <= q.max
               /\ c.alice.output * p.ratio.num <= (c.alice.input + 1) * p.ratio.den
               /\ c.bob.input \in Nat /\ c.bob.output \in Nat
               /\ c.bob.output <= q.max /\ c.bob.input <= p.max
               /\ c.bob.output * q.ratio.num <= (c.bob.input + 1) * q.ratio.den
               /\ c.aliceBounty = c.alice.output - c.bob.input
               /\ c.bobBounty = c.bob.output - c.alice.input
<1> DEFINE a == calculateClearStateAlice(p, q)
           b == calculateClearStateAlice(q, p)
           c == calculateClearStateChange(p, q)
<1>1. /\ a.input \in Nat /\ a.output \in Nat /\ a.output <= p.max /\ a.input <= q.max
      /\ a.output * p.ratio.num <= (a.input + 1) * p.ratio.den
  BY ClearSide
<1>2. /\ b.input \in Nat /\ b.output \in Nat /\ b.output <= q.max /\ b.input <= p.max
      /\ b.output * q.ratio.num <= (b.input + 1) * q.ratio.den
  BY ClearSide
<1>3. /\ c.alice = a /\ c.bob = b
      /\ c.aliceBounty = a.output - b.input /\ c.bobBounty = b.output - a.input
  BY DEF calculateClearStateChange
<1> HIDE DEF a, b, c
<1> QED
  BY <1>1, <1>2, <1>3 DEF c

\* What one order of a crossing pair asks for is covered by what the other
\* gives out for the same amount.
LEMMA CrossingCovers ==
    ASSUME NEW p \in Calculations, NEW q \in Calculations, Crosses(p, q),
           p.ratio.num > 0, q.ratio.num >= 0, NEW x \in Nat
    PROVE  FloatMul(x, q.ratio) <= FloatDiv(x, p.ratio)
<1> DEFINE pn == p.ratio.num
           pd == p.ratio.den
           qn == q.ratio.num
           qd == q.ratio.den
           m == FloatMul(x, q.ratio)
           d == FloatDiv(x, p.ratio)
<1>1. /\ p.ratio \in Ratios /\ q.ratio \in Ratios
      /\ pn \in Nat \ {0} /\ pd \in Nat \ {0} /\ qn \in Nat /\ qd \in Nat \ {0}
      /\ pn * qn <= pd * qd
  BY DEF Calculations, Ratios, Crosses
<1>2. m \in Nat /\ m * qd <= x * qn
  BY <1>1, FloatMulTruncates
<1>3. d \in Nat /\ x * pd < (d + 1) * pn
  BY <1>1, FloatDivTruncates
<1> HIDE DEF pn, pd, qn, qd, m, d
<1>4. (m * qd) * pn <= (x * qn) * pn
  BY <1>1, <1>2, ProductNat, ProductMonotone
<1>5. (pn * qn) * x <= (pd * qd) * x
  BY <1>1, ProductNat, ProductMonotone
<1>6. (x * pd) * qd < ((d + 1) * pn) * qd
  <2> DEFINE u == x * pd
             v == (d + 1) * pn
  <2>1. u \in Nat /\ v \in Nat /\ u < v
    BY <1>1, <1>3, ProductNat
  <2> HIDE DEF u, v
  <2>2. u * qd < v * qd
    BY <1>1, <2>1
  <2> QED
    BY <2>2 DEF u, v
<1>7. /\ (x * qn) * pn = (pn * qn) * x
      /\ (pd * qd) * x = (x * pd) * qd
      /\ ((d + 1) * pn) * qd = ((d + 1) * qd) * pn
  BY <1>1, <1>3
<1>8. (m * qd) * pn < ((d + 1) * qd) * pn
  <2> DEFINE u == (m * qd) * pn
             v == (pn * qn) * x
             w == (x * pd) * qd
             z == ((d + 1) * qd) * pn
  <2>1. u <= v /\ v <= w /\ w < z
    BY <1>4, <1>5, <1>6, <1>7
  <2>2. u \in Int /\ v \in Int /\ w \in Int /\ z \in Int
    BY <1>1, <1>2, <1>3
  <2> HIDE DEF u, v, w, z
  <2>3. u < z
    BY <2>1, <2>2
  <2> QED
    BY <2>3 DEF u, z
<1>9. m * qd < (d + 1) * qd
  BY <1>1, <1>2, <1>3, <1>8, CancelFactorStrict
<1>10. m < d + 1
  BY <1>1, <1>2, <1>3, <1>9, CancelFactorStrict
<1>11. m <= d
  BY <1>2, <1>3, <1>10
<1> QED
  BY <1>11 DEF m, d

\* clear4 never reverts with NegativeBounty on orders that cross, whatever
\* their sizes and whatever the roundings.
THEOREM CrossingOrdersClear ==
    ASSUME NEW p \in Calculations, IsClearable(p), NEW q \in Calculations, IsClearable(q),
           Crosses(p, q)
    PROVE  LET c == calculateClearStateChange(p, q)
           IN  c.aliceBounty >= 0 /\ c.bobBounty >= 0
<1> DEFINE a == calculateClearStateAlice(p, q)
           b == calculateClearStateAlice(q, p)
           wa == FloatMul(p.max, p.ratio)
           wb == FloatMul(q.max, q.ratio)
           c == calculateClearStateChange(p, q)
<1>1. c.aliceBounty = a.output - b.input /\ c.bobBounty = b.output - a.input
  BY DEF calculateClearStateChange
<1>2. /\ p.max \in Nat /\ p.ratio \in Ratios /\ p.ratio.num \in Nat /\ p.ratio.den \in Nat \ {0}
      /\ q.max \in Nat /\ q.ratio \in Ratios /\ q.ratio.num \in Nat /\ q.ratio.den \in Nat \ {0}
  BY DEF Calculations, Ratios, IsClearable
<1>3. wa \in Nat /\ wa * p.ratio.den <= p.max * p.ratio.num
  BY <1>2, FloatMulTruncates
<1>4. wb \in Nat /\ wb * q.ratio.den <= q.max * q.ratio.num
  BY <1>2, FloatMulTruncates
<1>5. /\ wa > q.max => a.input = q.max /\ a.output = FloatDiv(q.max, p.ratio)
      /\ ~(wa > q.max) => a.input = wa /\ a.output = p.max
      /\ wb > p.max => b.input = p.max /\ b.output = FloatDiv(p.max, q.ratio)
      /\ ~(wb > p.max) => b.input = wb /\ b.output = q.max
  BY DEF calculateClearStateAlice
<1>6. ASSUME wa > q.max
      PROVE  wb <= FloatDiv(q.max, p.ratio) /\ FloatDiv(q.max, p.ratio) \in Nat
                /\ FloatDiv(q.max, p.ratio) <= p.max
  <2>1. p.ratio.num > 0
    <3> HIDE DEF wa
    <3>1. wa * p.ratio.den > 0
      BY <1>2, <1>3, <1>6
    <3>2. p.max * p.ratio.num > 0
      BY <1>2, <1>3, <3>1
    <3> QED
      BY <1>2, <3>2
  <2>2. q.max <= FloatMul(p.max, p.ratio)
    BY <1>2, <1>3, <1>6
  <2>3. FloatDiv(q.max, p.ratio) \in Nat /\ FloatDiv(q.max, p.ratio) <= p.max
    BY <1>2, <2>1, <2>2, DivWithinMul
  <2>4. q.ratio.num >= 0
    BY <1>2
  <2>5. wb <= FloatDiv(q.max, p.ratio)
    BY <1>2, <2>1, <2>4, CrossingCovers
  <2> QED
    BY <2>3, <2>5
<1>7. ASSUME wb > p.max
      PROVE  wa <= FloatDiv(p.max, q.ratio) /\ FloatDiv(p.max, q.ratio) \in Nat
  <2>1. q.ratio.num > 0
    <3> HIDE DEF wb
    <3>1. wb * q.ratio.den > 0
      BY <1>2, <1>4, <1>7
    <3>2. q.max * q.ratio.num > 0
      BY <1>2, <1>4, <3>1
    <3> QED
      BY <1>2, <3>2
  <2>2. Crosses(q, p)
    BY <1>2 DEF Crosses
  <2>3. p.ratio.num >= 0
    BY <1>2
  <2>4. wa <= FloatDiv(p.max, q.ratio)
    BY <1>2, <2>1, <2>2, <2>3, CrossingCovers
  <2> QED
    BY <1>2, <2>1, <2>4, FloatDivTruncates
<1> HIDE DEF a, b, wa, wb, c
<1>8. a.output - b.input >= 0 /\ b.output - a.input >= 0
  BY <1>2, <1>3, <1>4, <1>5, <1>6, <1>7
<1> QED
  BY <1>1, <1>8 DEF c

-----------------------------------------------------------------------------
(* The inductive invariant                                                 *)

\* What is out on loan, and the batch that is running, below the k-th call.
LentUnder(s, k) == IF k = 1 THEN [t \in Tokens |-> 0] ELSE s[k - 1].lent

TakeUnder(s, tk, k) == IF \E j \in 1 .. (k - 1) : s[j].kind = "take" THEN tk ELSE NoTake

\* A credit in the slot of vault 0 belongs to an order taken and not flushed.
Accruing(tk, o, t) ==
    /\ tk.phase # "none"
    /\ \E j \in DOMAIN tk.taken :
          /\ tk.phase = "flush" => j >= tk.i
          /\ tk.taken[j].order.owner = o
          /\ tk.taken[j].in = [token |-> t, vault |-> 0]

SlotsAccrued(L, tk) ==
    \A o \in Accounts, t \in Tokens : L.vault[o][t][0] # 0 => Accruing(tk, o, t)

\* The state sv, with the given loans and batch pending, is sound.
Sound(sv, lent, tk) ==
    /\ Balanced(sv.ledger, lent, tk)
    /\ SlotsAccrued(sv.ledger, tk)
    /\ tk.phase # "none" => \A j \in DOMAIN tk.taken : tk.taken[j].order \in sv.live
    /\ \A o \in Accounts : sv.store[o] <= Budget[o]

\* What is out on loan after the call f is made with "lent" out before.
LentAfter(f, lent) ==
    IF f.kind = "flash" THEN [lent EXCEPT ![f.token] = @ + f.amount] ELSE lent

\* Every pending call would restore a sound state.
Restorable(s, tk) ==
    \A k \in 1 .. Len(s) :
        /\ s[k].lent = LentAfter(s[k], LentUnder(s, k))
        /\ Sound(s[k].saved, LentUnder(s, k), TakeUnder(s, tk, k))

\* At most one pending call holds the guard, and the batch is its.
Guarded(s, e, tk) ==
    /\ \A j, k \in 1 .. Len(s) : s[j].kind # "flash" /\ s[k].kind # "flash" => j = k
    /\ e <=> \E k \in 1 .. Len(s) : s[k].kind # "flash"
    /\ tk.phase # "none" <=> \E k \in 1 .. Len(s) : s[k].kind = "take"

BatchOK(tk) ==
    tk.phase # "none" =>
        /\ tk.config.legs # <<>>
        /\ tk.i >= 1
        /\ tk.phase = "sent" => tk.i = 1

Inductive ==
    /\ TypeOK
    /\ Guarded(stack, entered, take)
    /\ BatchOK(take)
    /\ Sound(Saved, Lent, take)
    /\ Restorable(stack, take)

-----------------------------------------------------------------------------
(* The stack of calls.                                                     *)

NoLoans == [t \in Tokens |-> 0]

LEMMA FrameFields ==
    ASSUME NEW f \in FrameType
    PROVE  /\ f.kind \in {"take", "post", "handle", "flash"}
           /\ f.caller \in Accounts
           /\ f.lent \in [Tokens -> Nat]
           /\ f.saved \in SavedType
           /\ f.kind = "flash" => f.token \in Tokens /\ f.amount \in Nat
  BY DEF FrameType

LEMMA SavedFields ==
    ASSUME NEW sv \in SavedType
    PROVE  /\ sv.ledger \in Ledgers
           /\ sv.live \subseteq Orders
           /\ sv.store \in [Accounts -> Nat]
  BY DEF SavedType

\* The stack after a call is made and after the innermost call ends.
LEMMA Pushed ==
    ASSUME NEW s \in Seq(FrameType), NEW f \in FrameType
    PROVE  /\ Append(s, f) \in Seq(FrameType)
           /\ Append(s, f) # <<>>
           /\ Len(Append(s, f)) = Len(s) + 1
           /\ \A k \in 1 .. Len(s) : Append(s, f)[k] = s[k]
           /\ Append(s, f)[Len(s) + 1] = f
           /\ Len(s) \in Nat
  BY AppendProperties, LenProperties

LEMMA Popped ==
    ASSUME NEW s \in Seq(FrameType), s # <<>>
    PROVE  LET b == SubSeq(s, 1, Len(s) - 1)
           IN  /\ b \in Seq(FrameType)
               /\ Len(s) \in Nat \ {0}
               /\ Len(b) = Len(s) - 1
               /\ \A k \in 1 .. (Len(s) - 1) : b[k] = s[k]
               /\ b = <<>> <=> Len(s) = 1
<1>1. Len(s) \in Nat /\ Len(s) # 0 /\ \A k \in 1 .. Len(s) : s[k] \in FrameType
  BY LenProperties, EmptySeq
<1> DEFINE n == Len(s) - 1
<1>2. n \in Nat /\ \A k \in 1 .. n : s[k] \in FrameType
  BY <1>1
<1> HIDE DEF n
<1>3. /\ SubSeq(s, 1, n) \in Seq(FrameType)
      /\ Len(SubSeq(s, 1, n)) = IF 1 <= n THEN n - 1 + 1 ELSE 0
      /\ \A k \in 1 .. (n - 1 + 1) : SubSeq(s, 1, n)[k] = s[1 + k - 1]
  BY <1>2, SubSeqProperties
<1>4. Len(SubSeq(s, 1, n)) = n
  BY <1>2, <1>3
<1>5. \A k \in 1 .. n : SubSeq(s, 1, n)[k] = s[k]
  BY <1>2, <1>3
<1>6. SubSeq(s, 1, n) = <<>> <=> n = 0
  BY <1>3, <1>4, EmptySeq
<1>7. n = 0 <=> Len(s) = 1
  BY <1>1 DEF n
<1> QED
  BY <1>1, <1>3, <1>4, <1>5, <1>6, <1>7 DEF n

LEMMA TopFrame ==
    ASSUME NEW s \in Seq(FrameType), s # <<>>
    PROVE  Len(s) \in 1 .. Len(s) /\ s[Len(s)] \in FrameType
  BY LenProperties, EmptySeq

Agree(b, s, n) == \A k \in 1 .. n : b[k] = s[k]

\* What lies under a call does not depend on the calls above it.
LEMMA UnderPrefix ==
    ASSUME NEW s, NEW b, NEW n \in Nat, Agree(b, s, n), NEW tk,
           NEW k \in 1 .. (n + 1)
    PROVE  /\ LentUnder(b, k) = LentUnder(s, k)
           /\ TakeUnder(b, tk, k) = TakeUnder(s, tk, k)
<1>1. \A j \in 1 .. (k - 1) : b[j] = s[j]
  BY DEF Agree
<1>2. k # 1 => b[k - 1] = s[k - 1]
  BY <1>1
<1>3. LentUnder(b, k) = LentUnder(s, k)
  BY <1>2 DEF LentUnder
<1>4. (\E j \in 1 .. (k - 1) : b[j].kind = "take") <=> (\E j \in 1 .. (k - 1) : s[j].kind = "take")
  BY <1>1
<1>5. TakeUnder(b, tk, k) = TakeUnder(s, tk, k)
  <2>1. CASE \E j \in 1 .. (k - 1) : s[j].kind = "take"
    BY <1>4, <2>1 DEF TakeUnder
  <2>2. CASE ~\E j \in 1 .. (k - 1) : s[j].kind = "take"
    BY <1>4, <2>2 DEF TakeUnder
  <2> QED
    BY <2>1, <2>2
<1> QED
  BY <1>3, <1>5

LEMMA NoTakeUnder ==
    ASSUME NEW s, NEW tk, NEW k \in Nat, \A j \in 1 .. (k - 1) : s[j].kind # "take"
    PROVE  TakeUnder(s, tk, k) = NoTake
  BY DEF TakeUnder

\* A call is made: it would restore the present state.
LEMMA PushRestorable ==
    ASSUME NEW s \in Seq(FrameType), NEW f \in FrameType, NEW tk, Restorable(s, tk),
           f.lent = LentAfter(f, LentUnder(s, Len(s) + 1)),
           Sound(f.saved, LentUnder(s, Len(s) + 1), TakeUnder(s, tk, Len(s) + 1))
    PROVE  Restorable(Append(s, f), tk)
<1> DEFINE a == Append(s, f)
<1>1. /\ Len(s) \in Nat
      /\ Len(a) = Len(s) + 1
      /\ \A k \in 1 .. Len(s) : a[k] = s[k]
      /\ a[Len(s) + 1] = f
      /\ Agree(a, s, Len(s))
  BY Pushed DEF Agree
<1> HIDE DEF a
<1>2. ASSUME NEW k \in 1 .. (Len(s) + 1)
      PROVE  /\ LentUnder(a, k) = LentUnder(s, k)
             /\ TakeUnder(a, tk, k) = TakeUnder(s, tk, k)
  BY <1>1, UnderPrefix
<1>3. ASSUME NEW k \in 1 .. Len(a)
      PROVE  /\ a[k].lent = LentAfter(a[k], LentUnder(a, k))
             /\ Sound(a[k].saved, LentUnder(a, k), TakeUnder(a, tk, k))
  <2>1. /\ LentUnder(a, k) = LentUnder(s, k)
        /\ TakeUnder(a, tk, k) = TakeUnder(s, tk, k)
    BY <1>1, <1>2
  <2>2. CASE k = Len(s) + 1
    <3>1. a[k] = f
      BY <1>1, <2>2
    <3> QED
      BY <2>1, <2>2, <3>1, Zenon
  <2>3. CASE k # Len(s) + 1
    <3>1. k \in 1 .. Len(s) /\ a[k] = s[k]
      BY <1>1, <2>3
    <3>2. /\ s[k].lent = LentAfter(s[k], LentUnder(s, k))
          /\ Sound(s[k].saved, LentUnder(s, k), TakeUnder(s, tk, k))
      BY <3>1 DEF Restorable
    <3> QED
      BY <2>1, <3>1, <3>2
  <2> QED
    BY <2>2, <2>3
<1>4. Restorable(a, tk)
  BY <1>3 DEF Restorable
<1> QED
  BY <1>4 DEF a

\* The innermost call ends.
LEMMA PopRestorable ==
    ASSUME NEW s \in Seq(FrameType), s # <<>>, NEW tk, Restorable(s, tk)
    PROVE  Restorable(SubSeq(s, 1, Len(s) - 1), tk)
<1> DEFINE b == SubSeq(s, 1, Len(s) - 1)
<1>1. /\ Len(s) \in Nat \ {0}
      /\ Len(b) = Len(s) - 1
      /\ \A k \in 1 .. (Len(s) - 1) : b[k] = s[k]
      /\ Agree(b, s, Len(s) - 1)
  BY Popped DEF Agree
<1> HIDE DEF b
<1>2. ASSUME NEW k \in 1 .. Len(b)
      PROVE  /\ b[k].lent = LentAfter(b[k], LentUnder(b, k))
             /\ Sound(b[k].saved, LentUnder(b, k), TakeUnder(b, tk, k))
  <2>1. /\ LentUnder(b, k) = LentUnder(s, k)
        /\ TakeUnder(b, tk, k) = TakeUnder(s, tk, k)
    <3>1. Len(b) \in Nat /\ Agree(b, s, Len(b)) /\ k \in 1 .. (Len(b) + 1)
      BY <1>1
    <3> QED
      BY <3>1, UnderPrefix
  <2>2. k \in 1 .. Len(s) /\ b[k] = s[k]
    BY <1>1
  <2>3. /\ s[k].lent = LentAfter(s[k], LentUnder(s, k))
        /\ Sound(s[k].saved, LentUnder(s, k), TakeUnder(s, tk, k))
    BY <2>2 DEF Restorable
  <2> QED
    BY <2>1, <2>2, <2>3
<1>3. Restorable(b, tk)
  BY <1>2 DEF Restorable
<1> QED
  BY <1>3 DEF b

\* The batch moves on: no call has been made since the batch began.
LEMMA RetakeRestorable ==
    ASSUME NEW s \in Seq(FrameType), NEW tk, NEW tk2, Restorable(s, tk),
           \A k \in 1 .. Len(s) : s[k].kind = "take" => k = Len(s)
    PROVE  Restorable(s, tk2)
<1>0. Len(s) \in Nat
  BY LenProperties
<1>1. ASSUME NEW k \in 1 .. Len(s)
      PROVE  Sound(s[k].saved, LentUnder(s, k), TakeUnder(s, tk2, k))
  <2>1. \A j \in 1 .. (k - 1) : s[j].kind # "take"
    BY <1>0
  <2>2. TakeUnder(s, tk2, k) = NoTake /\ TakeUnder(s, tk, k) = NoTake
    BY <1>0, <2>1, NoTakeUnder
  <2>3. Sound(s[k].saved, LentUnder(s, k), TakeUnder(s, tk, k))
    BY DEF Restorable
  <2> QED
    BY <2>2, <2>3
<1> QED
  BY <1>1 DEF Restorable

-----------------------------------------------------------------------------
(* The reentrancy guard.                                                   *)

Takes == TakeType \cup {NoTake}

LEMMA TakePhases ==
    ASSUME NEW tk \in Takes
    PROVE  /\ tk.phase = "none" => tk = NoTake
           /\ tk.phase # "none" => tk \in TakeType
  BY DEF Takes, TakeType, NoTake

LEMMA NoTakePhase == NoTake.phase = "none" /\ NoTake \in Takes
  BY DEF NoTake, Takes

\* The batch that is running is the one of the call on the stack.
LEMMA TakeNow ==
    ASSUME NEW s \in Seq(FrameType), NEW tk \in Takes, NEW e, Guarded(s, e, tk)
    PROVE  TakeUnder(s, tk, Len(s) + 1) = tk
<1>0. Len(s) \in Nat
  BY LenProperties
<1>1. CASE \E k \in 1 .. Len(s) : s[k].kind = "take"
  BY <1>0, <1>1 DEF TakeUnder
<1>2. CASE ~\E k \in 1 .. Len(s) : s[k].kind = "take"
  <2>1. TakeUnder(s, tk, Len(s) + 1) = NoTake
    BY <1>0, <1>2 DEF TakeUnder
  <2>2. tk.phase = "none"
    BY <1>2 DEF Guarded
  <2> QED
    BY <2>1, <2>2, TakePhases
<1> QED
  BY <1>1, <1>2

LEMMA PushFlashGuarded ==
    ASSUME NEW s \in Seq(FrameType), NEW f \in FrameType, f.kind = "flash",
           NEW tk, NEW e \in BOOLEAN, Guarded(s, e, tk)
    PROVE  Guarded(Append(s, f), e, tk)
<1> DEFINE a == Append(s, f)
<1>1. /\ Len(s) \in Nat
      /\ Len(a) = Len(s) + 1
      /\ \A k \in 1 .. Len(s) : a[k] = s[k]
      /\ a[Len(s) + 1] = f
  BY Pushed
<1> HIDE DEF a
<1>2. \A k \in 1 .. Len(a) : a[k].kind # "flash" => k \in 1 .. Len(s) /\ a[k] = s[k]
  BY <1>1
<1>3. \A k \in 1 .. Len(s) : k \in 1 .. Len(a) /\ a[k] = s[k]
  BY <1>1
<1>4. \A k \in 1 .. Len(a) : a[k].kind = "take" => k \in 1 .. Len(s) /\ a[k] = s[k]
  BY <1>2
<1>5. (\E k \in 1 .. Len(s) : s[k].kind # "flash") <=> (\E k \in 1 .. Len(a) : a[k].kind # "flash")
  BY <1>2, <1>3
<1>6. (\E k \in 1 .. Len(s) : s[k].kind = "take") <=> (\E k \in 1 .. Len(a) : a[k].kind = "take")
  BY <1>3, <1>4
<1>7. \A j, k \in 1 .. Len(a) : a[j].kind # "flash" /\ a[k].kind # "flash" => j = k
  BY <1>2 DEF Guarded
<1>8. Guarded(a, e, tk)
  BY <1>5, <1>6, <1>7 DEF Guarded
<1> QED
  BY <1>8 DEF a

\* With the guard free no call but flash loans is pending, so one that takes
\* the guard is the only one.
LEMMA PushGuarded ==
    ASSUME NEW s \in Seq(FrameType), NEW f \in FrameType, NEW tk, Guarded(s, FALSE, tk),
           NEW tk2, \/ f.kind \in {"post", "handle"} /\ tk2.phase = "none"
                    \/ f.kind = "take" /\ tk2.phase # "none"
    PROVE  /\ Guarded(Append(s, f), TRUE, tk2)
           /\ tk.phase = "none"
           /\ \A k \in 1 .. Len(s) : s[k].kind # "take"
<1> DEFINE a == Append(s, f)
<1>1. /\ Len(s) \in Nat
      /\ Len(a) = Len(s) + 1
      /\ \A k \in 1 .. Len(s) : a[k] = s[k]
      /\ a[Len(s) + 1] = f
  BY Pushed
<1>2. \A k \in 1 .. Len(s) : s[k].kind = "flash"
  BY DEF Guarded
<1>3. \A k \in 1 .. Len(s) : s[k].kind # "take"
  BY <1>2
<1>4. tk.phase = "none"
  BY <1>3 DEF Guarded
<1> HIDE DEF a
<1>5. f.kind # "flash"
  OBVIOUS
<1>6. \A k \in 1 .. Len(a) : k # Len(s) + 1 => a[k].kind = "flash"
  BY <1>1, <1>2
<1>7. \A j, k \in 1 .. Len(a) : a[j].kind # "flash" /\ a[k].kind # "flash" => j = k
  BY <1>6
<1>8. \E k \in 1 .. Len(a) : a[k].kind # "flash"
  BY <1>1, <1>5
<1>9. (\E k \in 1 .. Len(a) : a[k].kind = "take") <=> f.kind = "take"
  BY <1>1, <1>6
<1>10. Guarded(a, TRUE, tk2)
  BY <1>7, <1>8, <1>9 DEF Guarded
<1> QED
  BY <1>3, <1>4, <1>10 DEF a

\* The innermost call ends, and releases the guard if it holds it.
LEMMA PopGuarded ==
    ASSUME NEW s \in Seq(FrameType), s # <<>>, NEW tk \in Takes, NEW e \in BOOLEAN,
           Guarded(s, e, tk)
    PROVE  LET f == s[Len(s)]
           IN  /\ f.kind = "flash" => Guarded(SubSeq(s, 1, Len(s) - 1), e, tk)
               /\ f.kind \in {"post", "handle"} => Guarded(SubSeq(s, 1, Len(s) - 1), FALSE, tk)
               /\ f.kind = "take" => Guarded(SubSeq(s, 1, Len(s) - 1), FALSE, NoTake)
<1> DEFINE b == SubSeq(s, 1, Len(s) - 1)
           f == s[Len(s)]
<1>1. /\ Len(s) \in Nat \ {0}
      /\ Len(b) = Len(s) - 1
      /\ \A k \in 1 .. (Len(s) - 1) : b[k] = s[k]
  BY Popped
<1> HIDE DEF b
<1>2. \A k \in 1 .. Len(b) : k \in 1 .. Len(s) /\ b[k] = s[k] /\ k # Len(s)
  BY <1>1
<1>3. \A k \in 1 .. Len(s) : k # Len(s) => k \in 1 .. Len(b) /\ b[k] = s[k]
  BY <1>1
<1>4. \A j, k \in 1 .. Len(b) : b[j].kind # "flash" /\ b[k].kind # "flash" => j = k
  BY <1>2 DEF Guarded
<1>5. Len(s) \in 1 .. Len(s)
  BY <1>1
<1>6. CASE f.kind = "flash"
  <2>1. (\E k \in 1 .. Len(b) : b[k].kind # "flash") <=> (\E k \in 1 .. Len(s) : s[k].kind # "flash")
    BY <1>2, <1>3, <1>6
  <2>2. (\E k \in 1 .. Len(b) : b[k].kind = "take") <=> (\E k \in 1 .. Len(s) : s[k].kind = "take")
    BY <1>2, <1>3, <1>6
  <2>3. Guarded(b, e, tk)
    BY <1>4, <2>1, <2>2 DEF Guarded
  <2> QED
    BY <1>6, <2>3 DEF b
<1>7. CASE f.kind \in {"post", "handle", "take"}
  <2>1. \A k \in 1 .. Len(b) : b[k].kind = "flash"
    BY <1>2, <1>5, <1>7 DEF Guarded
  <2>2. Guarded(b, FALSE, NoTake)
    BY <1>4, <2>1, NoTakePhase DEF Guarded
  <2>3. ASSUME f.kind \in {"post", "handle"} PROVE tk = NoTake
    <3>1. \A k \in 1 .. Len(s) : s[k].kind # "take"
      BY <1>2, <1>3, <2>1, <2>3
    <3>2. tk.phase = "none"
      BY <3>1 DEF Guarded
    <3> QED
      BY <3>2, TakePhases
  <2> HIDE DEF f
  <2>4. f.kind \in {"post", "handle"} => Guarded(b, FALSE, tk)
    BY <2>2, <2>3
  <2> QED
    BY <1>7, <2>2, <2>4 DEF b, f
<1>8. f.kind \in {"take", "post", "handle", "flash"}
  BY TopFrame, FrameFields
<1> QED
  BY <1>6, <1>7, <1>8

-----------------------------------------------------------------------------
(* The books.                                                              *)

LEMMA TakeFields ==
    ASSUME NEW tk \in TakeType
    PROVE  /\ tk.phase \in {"loop", "sent", "flush"}
           /\ tk.config \in TakeConfigType
           /\ tk.i \in Nat /\ tk.remaining \in Nat /\ tk.totalIn \in Nat /\ tk.totalOut \in Nat
           /\ tk.taken \in Seq(Legs)
           /\ tk.ext \in BOOLEAN
  BY RaindexAssumption DEF TakeType

LEMMA DueInt ==
    ASSUME NEW tk \in Takes, NEW t \in Tokens
    PROVE  Due(tk, t) \in Int
<1>1. CASE tk.phase = "none"
  BY <1>1 DEF Due
<1>2. CASE tk.phase # "none"
  <2>1. tk.totalIn \in Nat /\ tk.totalOut \in Nat
    BY <1>2, TakePhases, TakeFields
  <2> QED
    BY <2>1 DEF Due
<1> QED
  BY <1>1, <1>2

LEMMA DueNoTake == \A t : Due(NoTake, t) = 0
  BY NoTakePhase DEF Due

LEMMA UnitsInt == \A t \in Tokens, n \in Nat : FromUnits(t, n) \in Nat
  BY LedgerAssumption DEF FromUnits

LEMMA BalancedPosition ==
    ASSUME NEW L \in Ledgers, NEW lent \in [Tokens -> Nat], NEW tk \in Takes
    PROVE  Balanced(L, lent, tk) <=>
              \A t \in Tokens : Position(L, t) + FromUnits(t, lent[t]) + Due(tk, t) = 0
<1>1. ASSUME NEW t \in Tokens
      PROVE  FromUnits(t, L.wallet[Raindex][t] + lent[t]) + Due(tk, t) = Owed(L, t) + L.dust[t]
               <=> Position(L, t) + FromUnits(t, lent[t]) + Due(tk, t) = 0
  <2>1. L.wallet[Raindex][t] \in Nat /\ lent[t] \in Nat /\ L.dust[t] \in Nat /\ Unit[t] \in Nat
    BY LedgerAssumption DEF Ledgers, Holders
  <2>2. FromUnits(t, L.wallet[Raindex][t] + lent[t])
          = FromUnits(t, L.wallet[Raindex][t]) + FromUnits(t, lent[t])
    BY <2>1 DEF FromUnits
  <2>3. FromUnits(t, L.wallet[Raindex][t]) \in Int /\ FromUnits(t, lent[t]) \in Int
    BY <2>1, UnitsInt
  <2>4. Owed(L, t) \in Int /\ Due(tk, t) \in Int
    BY OwedNat, DueInt
  <2> DEFINE w == FromUnits(t, L.wallet[Raindex][t])
             l == FromUnits(t, lent[t])
             d == Due(tk, t)
             o == Owed(L, t)
             u == L.dust[t]
  <2>5. w \in Int /\ l \in Int /\ d \in Int /\ o \in Int /\ u \in Int
    BY <2>1, <2>3, <2>4
  <2>6. Position(L, t) = w - o - u
    BY DEF Position
  <2>7. FromUnits(t, L.wallet[Raindex][t] + lent[t]) = w + l
    BY <2>2
  <2> HIDE DEF w, l, d, o, u
  <2>8. (w + l + d = o + u) <=> ((w - o - u) + l + d = 0)
    BY <2>5
  <2> QED
    BY <2>6, <2>7, <2>8, Zenon DEF l, d, o, u
<1> QED
  BY <1>1 DEF Balanced

\* The books stay balanced when the position of the contract makes up for
\* the change of what is lent and due.
LEMMA KeepBalanced ==
    ASSUME NEW L \in Ledgers, NEW M \in Ledgers,
           NEW lent \in [Tokens -> Nat], NEW lent2 \in [Tokens -> Nat],
           NEW tk \in Takes, NEW tk2 \in Takes, Balanced(L, lent, tk),
           \A t \in Tokens : Position(M, t) + FromUnits(t, lent2[t]) + Due(tk2, t)
                               = Position(L, t) + FromUnits(t, lent[t]) + Due(tk, t)
    PROVE  Balanced(M, lent2, tk2)
<1>1. \A t \in Tokens : Position(L, t) + FromUnits(t, lent[t]) + Due(tk, t) = 0
  BY BalancedPosition
<1> QED
  BY <1>1, BalancedPosition

LEMMA KeepBalancedMoves ==
    ASSUME NEW L \in Ledgers, NEW M, NEW lent \in [Tokens -> Nat], NEW tk \in Takes,
           Balanced(L, lent, tk), NEW t \in Tokens, Moves(L, M, t, 0)
    PROVE  M \in Ledgers /\ Balanced(M, lent, tk)
<1>1. M \in Ledgers
  BY DEF Moves
<1>2. \A s \in Tokens : Position(L, s) \in Int
  BY PositionInt
<1>3. \A s \in Tokens : Position(M, s) = Position(L, s)
  BY <1>2 DEF Moves
<1> QED
  BY <1>1, <1>3, KeepBalanced

-----------------------------------------------------------------------------
(* Steps that make, end or undo a call keep the invariant.                 *)

LEMMA LentNow ==
    ASSUME stack \in Seq(FrameType)
    PROVE  Lent = LentUnder(stack, Len(stack) + 1) /\ Lent \in [Tokens -> Nat]
<1>1. CASE stack = <<>>
  BY <1>1 DEF Lent, LentUnder
<1>2. CASE stack # <<>>
  <2>1. Len(stack) \in Nat \ {0} /\ stack[Len(stack)] \in FrameType
    BY <1>2, TopFrame, EmptySeq
  <2>2. Lent = stack[Len(stack)].lent
    BY <1>2 DEF Lent, Top
  <2>3. Len(stack) + 1 # 1 /\ Len(stack) + 1 - 1 = Len(stack)
    BY <2>1
  <2> QED
    BY <2>1, <2>2, <2>3, FrameFields DEF LentUnder
<1> QED
  BY <1>1, <1>2

LEMMA SavedTyped ==
    ASSUME ledger \in Ledgers, live \subseteq Orders, store \in [Accounts -> Nat]
    PROVE  Saved \in SavedType /\ Saved.ledger = ledger /\ Saved.live = live /\ Saved.store = store
  BY DEF Saved, SavedType

\* The present state, as what a call that is made now would restore.
LEMMA SoundNow ==
    ASSUME Inductive
    PROVE  /\ Saved \in SavedType
           /\ Lent \in [Tokens -> Nat]
           /\ Lent = LentUnder(stack, Len(stack) + 1)
           /\ TakeUnder(stack, take, Len(stack) + 1) = take
           /\ Sound(Saved, LentUnder(stack, Len(stack) + 1),
                    TakeUnder(stack, take, Len(stack) + 1))
<1>1. TypeOK /\ Guarded(stack, entered, take) /\ Sound(Saved, Lent, take)
  BY DEF Inductive
<1>2. Lent = LentUnder(stack, Len(stack) + 1) /\ Lent \in [Tokens -> Nat]
  BY <1>1, LentNow DEF TypeOK
<1>3. TakeUnder(stack, take, Len(stack) + 1) = take
  BY <1>1, TakeNow DEF TypeOK, Takes
<1> QED
  BY <1>1, <1>2, <1>3, SavedTyped DEF TypeOK

\* The stack after a frame has been put on it.
LEMMA PushStep ==
    ASSUME Inductive, NEW f \in FrameType, stack' = Append(stack, f), f.saved = Saved,
           f.lent = LentAfter(f, Lent)
    PROVE  /\ stack' \in Seq(FrameType)
           /\ Lent' = f.lent
           /\ Restorable(stack', take)
<1>1. stack \in Seq(FrameType) /\ Restorable(stack, take)
  BY DEF Inductive, TypeOK
<1>2. /\ stack' \in Seq(FrameType) /\ stack' # <<>>
      /\ Len(stack') = Len(stack) + 1 /\ stack'[Len(stack) + 1] = f
  BY <1>1, Pushed
<1>3. Lent' = f.lent
  BY <1>2 DEF Lent, Top
<1>4. Restorable(Append(stack, f), take)
  BY <1>1, SoundNow, PushRestorable
<1> QED
  BY <1>2, <1>3, <1>4

\* A nonReentrant entry point has run up to its window and left a sound state.
LEMMA EnterStep ==
    ASSUME Inductive, ~entered, NEW kind \in {"post", "handle"}, NEW caller \in Accounts,
           EnterAs(kind, caller),
           ledger' \in Ledgers, live' \subseteq Orders, store' \in [Accounts -> Nat],
           Sound(Saved', Lent, NoTake)
    PROVE  Inductive'
<1> DEFINE f == [kind |-> kind, caller |-> caller, lent |-> Lent, saved |-> Saved]
<1>1. TypeOK /\ Guarded(stack, entered, take) /\ BatchOK(take)
  BY DEF Inductive
<1>2. Saved \in SavedType /\ Lent \in [Tokens -> Nat]
  BY SoundNow
<1>3. f \in FrameType /\ f.kind \in {"post", "handle"} /\ f.lent = Lent /\ f.saved = Saved
  BY <1>2 DEF FrameType
<1>4. stack' = Append(stack, f) /\ entered' = TRUE /\ take' = take
  BY DEF EnterAs
<1> HIDE DEF f
<1>5. entered = FALSE
  BY <1>1 DEF TypeOK
<1>6. Guarded(stack, FALSE, take)
  BY <1>1, <1>5
<1>7. take.phase = "none"
  <2>1. \A k \in 1 .. Len(stack) : stack[k].kind = "flash"
    BY <1>6 DEF Guarded
  <2> QED
    BY <1>6, <2>1 DEF Guarded
<1>8. take = NoTake
  BY <1>1, <1>7, TakePhases DEF TypeOK, Takes
<1>9. Guarded(stack', entered', take')
  <2>1. Guarded(Append(stack, f), TRUE, take)
    BY <1>1, <1>3, <1>6, <1>7, PushGuarded DEF TypeOK
  <2> QED
    BY <1>4, <2>1
<1>10. f.lent = LentAfter(f, Lent)
  BY <1>3 DEF LentAfter
<1>11. stack' \in Seq(FrameType) /\ Lent' = Lent /\ Restorable(stack', take')
  BY <1>3, <1>4, <1>10, PushStep
<1>12. TypeOK'
  BY <1>1, <1>4, <1>11 DEF TypeOK
<1>13. BatchOK(take')
  BY <1>1, <1>4
<1>14. Sound(Saved', Lent', take')
  BY <1>4, <1>8, <1>11
<1> QED
  BY <1>9, <1>11, <1>12, <1>13, <1>14 DEF Inductive

\* The innermost call has ended.
LEMMA BelowStep ==
    ASSUME Inductive, stack # <<>>, stack' = Below
    PROVE  /\ stack' \in Seq(FrameType)
           /\ Lent' = LentUnder(stack, Len(stack))
           /\ Lent' \in [Tokens -> Nat]
           /\ Top \in FrameType
           /\ Top.lent = LentAfter(Top, Lent')
           /\ Sound(Top.saved, Lent', TakeUnder(stack, take, Len(stack)))
           /\ Restorable(stack', take)
<1> DEFINE n == Len(stack)
           b == SubSeq(stack, 1, Len(stack) - 1)
<1>1. stack \in Seq(FrameType) /\ Restorable(stack, take)
  BY DEF Inductive, TypeOK
<1>2. /\ b \in Seq(FrameType) /\ n \in Nat \ {0} /\ Len(b) = n - 1
      /\ \A k \in 1 .. (n - 1) : b[k] = stack[k]
  BY <1>1, Popped
<1>3. stack' = b
  BY DEF Below
<1>4. Restorable(stack', take)
  BY <1>1, <1>3, PopRestorable
<1> HIDE DEF b
<1>5. stack' \in Seq(FrameType) /\ Len(stack') = n - 1
  BY <1>2, <1>3
<1>6. Lent' = LentUnder(stack', Len(stack') + 1) /\ Lent' \in [Tokens -> Nat]
  <2>1. (stack \in Seq(FrameType))' => (Lent = LentUnder(stack, Len(stack) + 1) /\ Lent \in [Tokens -> Nat])'
    BY LentNow, PTL
  <2> QED
    BY <1>5, <2>1
<1>7. n - 1 \in Nat /\ Agree(b, stack, n - 1) /\ n \in 1 .. (n - 1 + 1) /\ n - 1 + 1 = n
  BY <1>2 DEF Agree
<1> HIDE DEF n
<1>8. LentUnder(b, n) = LentUnder(stack, n)
  BY <1>7, UnderPrefix
<1>9. Lent' = LentUnder(stack, n)
  BY <1>3, <1>5, <1>6, <1>7, <1>8
<1>10. n \in 1 .. Len(stack) /\ Top = stack[n]
  BY <1>2 DEF Top, n
<1>11. /\ stack[n].lent = LentAfter(stack[n], LentUnder(stack, n))
       /\ Sound(stack[n].saved, LentUnder(stack, n), TakeUnder(stack, take, n))
  BY <1>1, <1>10 DEF Restorable
<1>12. Top \in FrameType
  BY <1>1, TopFrame DEF Top
<1> QED
  BY <1>4, <1>5, <1>6, <1>9, <1>10, <1>11, <1>12 DEF n

LEMMA PostReturnStep ==
    ASSUME Inductive, PostReturn
    PROVE  Inductive'
<1>1. TypeOK /\ Guarded(stack, entered, take) /\ BatchOK(take) /\ Sound(Saved, Lent, take)
  BY DEF Inductive
<1>2. /\ stack # <<>> /\ Top.kind \in {"post", "handle"} /\ stack' = Below /\ entered' = FALSE
      /\ ledger' = ledger /\ live' = live /\ store' = store /\ take' = take
  BY DEF PostReturn
<1>3. /\ stack' \in Seq(FrameType) /\ Restorable(stack', take)
      /\ Top.lent = LentAfter(Top, Lent')
  BY <1>2, BelowStep
<1>4. Lent' = Lent
  BY <1>2, <1>3 DEF LentAfter, Lent
<1>5. Guarded(stack', entered', take')
  BY <1>1, <1>2, PopGuarded DEF TypeOK, Takes, Top, Below
<1>6. Saved' = Saved
  BY <1>2 DEF Saved
<1>7. TypeOK'
  BY <1>1, <1>2, <1>3 DEF TypeOK
<1> QED
  BY <1>1, <1>2, <1>3, <1>4, <1>5, <1>6, <1>7 DEF Inductive

\* A post task writes no more than the budget of its caller.
LEMMA PostTaskStep ==
    ASSUME Inductive, PostTask
    PROVE  Inductive'
<1>1. /\ stack # <<>> /\ TypeOK /\ Sound(Saved, Lent, take)
      /\ entered' = entered /\ take' = take /\ stack' = stack /\ live' = live /\ ledger' = ledger
  BY DEF PostTask, Inductive
<1>2. PICK n \in TaskWrites[Top.caller] : store' = [store EXCEPT ![Top.caller] = n]
  BY DEF PostTask
<1>3. Top.caller \in Accounts
  BY <1>1, TopFrame, FrameFields DEF TypeOK, Top
<1>4. n \in Nat /\ n <= Budget[Top.caller]
  BY <1>3, RaindexAssumption
<1>5. store \in [Accounts -> Nat] /\ \A o \in Accounts : store[o] <= Budget[o]
  BY <1>1 DEF TypeOK, Sound, Saved
<1>6. store' \in [Accounts -> Nat] /\ \A o \in Accounts : store'[o] <= Budget[o]
  BY <1>2, <1>4, <1>5
<1>7. Lent' = Lent
  BY <1>1 DEF Lent, Top
<1>8. Sound(Saved', Lent', take')
  BY <1>1, <1>6, <1>7 DEF Sound, Saved
<1>9. TypeOK'
  BY <1>1, <1>6 DEF TypeOK
<1> QED
  BY <1>1, <1>8, <1>9 DEF Inductive

\* The batch of the innermost call is flushed: it leaves no slot and no due.
LEMMA TakeReturnStep ==
    ASSUME Inductive, TakeReturn
    PROVE  Inductive'
<1>1. TypeOK /\ Guarded(stack, entered, take) /\ Sound(Saved, Lent, take)
  BY DEF Inductive
<1>2. /\ stack # <<>> /\ Top.kind = "take" /\ stack' = Below /\ entered' = FALSE
      /\ ledger' = ledger /\ live' = live /\ store' = store /\ take' = NoTake
      /\ take.phase = "flush" /\ take.i > Len(take.taken)
  BY DEF TakeReturn, InTake
<1>3. /\ stack' \in Seq(FrameType) /\ Restorable(stack', take)
      /\ Top.lent = LentAfter(Top, Lent')
  BY <1>2, BelowStep
<1>4. Lent' = Lent
  BY <1>2, <1>3 DEF LentAfter, Lent
<1>5. Guarded(stack', entered', take')
  BY <1>1, <1>2, PopGuarded DEF TypeOK, Takes, Top, Below
<1>6. \A k \in 1 .. Len(stack') : stack'[k].kind # "take"
  BY <1>2, <1>5, NoTakePhase DEF Guarded
<1>7. Restorable(stack', take')
  <2>1. \A k \in 1 .. Len(stack') : stack'[k].kind = "take" => k = Len(stack')
    BY <1>6
  <2> QED
    BY <1>3, <2>1, RetakeRestorable
<1>8. take \in TakeType /\ Len(take.taken) \in Nat /\ DOMAIN take.taken = 1 .. Len(take.taken)
  BY <1>1, <1>2, TakePhases, TakeFields, LenProperties DEF TypeOK, Takes
<1>9. SlotsAccrued(ledger, NoTake)
  <2>1. SlotsAccrued(ledger, take)
    BY <1>1 DEF Sound, Saved
  <2>2. \A j \in DOMAIN take.taken : ~(j >= take.i)
    BY <1>2, <1>8, TakeFields
  <2>3. \A o \in Accounts, t \in Tokens : ledger.vault[o][t][0] = 0
    BY <1>2, <2>1, <2>2 DEF SlotsAccrued, Accruing
  <2> QED
    BY <2>3 DEF SlotsAccrued
<1>10. Balanced(ledger, Lent, NoTake)
  <2>1. \A t \in Tokens : Due(take, t) = Due(NoTake, t)
    BY <1>2, DueNoTake DEF Due
  <2>2. Balanced(ledger, Lent, take)
    BY <1>1 DEF Sound, Saved
  <2> QED
    BY <2>1, <2>2 DEF Balanced
<1>11. \A o \in Accounts : store[o] <= Budget[o]
  BY <1>1 DEF Sound, Saved
<1>12. Sound(Saved, Lent, NoTake)
  BY <1>9, <1>10, <1>11, NoTakePhase DEF Sound, Saved
<1>13. Saved' = Saved
  BY <1>2 DEF Saved
<1>14. Sound(Saved', Lent', take')
  BY <1>2, <1>4, <1>12, <1>13
<1>15. TypeOK'
  BY <1>1, <1>2, <1>3 DEF TypeOK
<1>16. BatchOK(take')
  BY <1>2, NoTakePhase DEF BatchOK
<1> QED
  BY <1>5, <1>7, <1>14, <1>15, <1>16 DEF Inductive

\* A revert restores a state that is sound with what is pending below.
LEMMA RevertStep ==
    ASSUME Inductive, Revert
    PROVE  Inductive'
<1>1. TypeOK /\ Guarded(stack, entered, take) /\ BatchOK(take)
  BY DEF Inductive
<1>2. /\ stack # <<>> /\ stack' = Below
      /\ ledger' = Top.saved.ledger /\ live' = Top.saved.live /\ store' = Top.saved.store
      /\ entered' = IF Top.kind = "flash" THEN entered ELSE FALSE
      /\ take' = IF Top.kind = "take" THEN NoTake ELSE take
  BY DEF Revert
<1>3. /\ stack' \in Seq(FrameType) /\ Restorable(stack', take)
      /\ Top \in FrameType
      /\ Sound(Top.saved, Lent', TakeUnder(stack, take, Len(stack)))
  BY <1>2, BelowStep
<1>4. Top.kind \in {"take", "post", "handle", "flash"} /\ Top.saved \in SavedType
  BY <1>3, FrameFields
<1>5. Guarded(stack', entered', take')
  BY <1>1, <1>2, <1>4, PopGuarded DEF TypeOK, Takes, Top, Below
<1>6. take' \in Takes
  BY <1>1, <1>2, NoTakePhase DEF TypeOK, Takes
<1>7. Restorable(stack', take')
  <2>1. CASE Top.kind = "take"
    <3>1. \A k \in 1 .. Len(stack') : stack'[k].kind # "take"
      BY <1>2, <1>5, <2>1, NoTakePhase DEF Guarded
    <3>2. \A k \in 1 .. Len(stack') : stack'[k].kind = "take" => k = Len(stack')
      BY <3>1
    <3> QED
      BY <1>3, <3>2, RetakeRestorable
  <2>2. CASE Top.kind # "take"
    BY <1>2, <1>3, <2>2
  <2> QED
    BY <2>1, <2>2
<1>8. TakeUnder(stack, take, Len(stack)) = take'
  <2> DEFINE n == Len(stack)
  <2>1. /\ n \in Nat \ {0} /\ Len(stack') = n - 1
        /\ \A k \in 1 .. (n - 1) : stack'[k] = stack[k]
    BY <1>1, <1>2, Popped DEF TypeOK, Below
  <2>2. Agree(stack', stack, n - 1) /\ n - 1 \in Nat /\ n \in 1 .. (n - 1 + 1) /\ n - 1 + 1 = n
    BY <2>1 DEF Agree
  <2> HIDE DEF n
  <2>3. TakeUnder(stack', take', n) = TakeUnder(stack, take', n)
    BY <2>2, UnderPrefix
  <2>4. TakeUnder(stack', take', Len(stack') + 1) = take'
    BY <1>3, <1>5, <1>6, TakeNow
  <2>5. TakeUnder(stack, take', n) = take'
    BY <2>1, <2>2, <2>3, <2>4
  <2>6. TakeUnder(stack, take, n) = TakeUnder(stack, take', n)
    <3>1. CASE Top.kind = "take"
      <4>1. \A k \in 1 .. Len(stack') : stack'[k].kind # "take"
        BY <1>2, <1>5, <3>1, NoTakePhase DEF Guarded
      <4>2. \A k \in 1 .. (n - 1) : stack[k].kind # "take"
        BY <2>1, <4>1
      <4> QED
        BY <4>2 DEF TakeUnder
    <3>2. CASE Top.kind # "take"
      BY <1>2, <3>2
    <3> QED
      BY <3>1, <3>2
  <2> QED
    BY <2>5, <2>6 DEF n
<1>9. Saved' = Top.saved
  BY <1>2, <1>4 DEF Saved, SavedType
<1>10. Sound(Saved', Lent', take')
  BY <1>3, <1>8, <1>9
<1>11. TypeOK'
  BY <1>1, <1>2, <1>3, <1>4, <1>6, SavedFields DEF TypeOK, Takes
<1>12. BatchOK(take')
  BY <1>1, <1>2, NoTakePhase DEF BatchOK
<1> QED
  BY <1>5, <1>7, <1>10, <1>11, <1>12 DEF Inductive

-----------------------------------------------------------------------------
(* Steps that move tokens and credits.                                     *)

\* A step that leaves the slots of vault 0, the orders and the store alone.
LEMMA SoundLedger ==
    ASSUME NEW lent, NEW lent2, NEW tk, Sound(Saved, lent, tk), SameSlots(ledger, ledger'),
           Balanced(ledger', lent2, tk), live' = live, store' = store
    PROVE  Sound(Saved', lent2, tk)
<1>1. SlotsAccrued(ledger, tk)
  BY DEF Sound, Saved
<1>2. SlotsAccrued(ledger', tk)
  BY <1>1 DEF SlotsAccrued, SameSlots
<1>3. /\ Saved.live = live /\ Saved.store = store
      /\ Saved'.ledger = ledger' /\ Saved'.live = live' /\ Saved'.store = store'
  BY DEF Saved
<1> QED
  BY <1>2, <1>3 DEF Sound

LEMMA StillStep ==
    ASSUME Inductive, entered' = entered, take' = take, stack' = stack, live' = live, store' = store,
           ledger' \in Ledgers, Sound(Saved', Lent, take)
    PROVE  Inductive'
<1>1. Lent' = Lent
  BY DEF Lent, Top
<1>2. TypeOK'
  BY DEF Inductive, TypeOK
<1>3. Sound(Saved', Lent', take')
  BY <1>1
<1> QED
  BY <1>2, <1>3 DEF Inductive

LEMMA ApproveStep ==
    ASSUME Inductive, NEW a \in Accounts, NEW t \in Tokens, NEW n \in Approvals, Approve(a, t, n)
    PROVE  Inductive'
<1>1. /\ TypeOK /\ Sound(Saved, Lent, take)
      /\ entered' = entered /\ take' = take /\ stack' = stack /\ live' = live /\ store' = store
  BY DEF Inductive, Approve
<1> DEFINE allow == [ledger.allow EXCEPT ![a][t] = n]
<1>2. ledger \in Ledgers /\ take \in Takes /\ Lent \in [Tokens -> Nat]
  BY <1>1, SoundNow DEF TypeOK, Takes
<1>3. allow \in [Accounts -> [Tokens -> Nat]]
  BY <1>2, RaindexAssumption DEF Ledgers
<1>4. ledger' = [ledger EXCEPT !.allow = allow]
  BY DEF Approve
<1> HIDE DEF allow
<1>5. /\ ledger' \in Ledgers
      /\ ledger'.vault = ledger.vault /\ ledger'.wallet = ledger.wallet /\ ledger'.dust = ledger.dust
  BY <1>2, <1>3, <1>4 DEF Ledgers
<1>6. \A s \in Tokens : Position(ledger', s) = Position(ledger, s)
  BY <1>5 DEF Position, Owed, Balances
<1>7. Balanced(ledger, Lent, take)
  BY <1>1 DEF Sound, Saved
<1>8. Balanced(ledger', Lent, take)
  BY <1>2, <1>5, <1>6, <1>7, KeepBalanced
<1>9. Sound(Saved', Lent, take)
  <2>1. SameSlots(ledger, ledger')
    BY <1>5 DEF SameSlots
  <2> QED
    BY <1>1, <1>8, <2>1, SoundLedger
<1> QED
  BY <1>1, <1>5, <1>9, StillStep

\* A plain transfer moves the books only if it is to the contract, and then
\* what it brings is dust.
LEMMA TransferStep ==
    ASSUME Inductive, NEW x \in Transfers, Transfer(x)
    PROVE  Inductive'
<1>1. /\ TypeOK /\ Sound(Saved, Lent, take)
      /\ entered' = entered /\ take' = take /\ stack' = stack /\ live' = live /\ store' = store
  BY DEF Inductive, Transfer
<1>2. ledger \in Ledgers /\ take \in Takes /\ Lent \in [Tokens -> Nat]
  BY <1>1, SoundNow DEF TypeOK, Takes
<1>3. /\ x.from \in Holders /\ x.from # Raindex /\ x.to \in Holders /\ x.token \in Tokens
      /\ x.amount \in Nat
  BY RaindexAssumption, LedgerAssumption DEF TransferType, Holders
<1> DEFINE wallet == Moved(ledger.wallet, x.from, x.to, x.token, x.amount)
           n == IF x.to = Raindex THEN x.amount ELSE 0
           d == FromUnits(x.token, n)
           dust == [ledger.dust EXCEPT ![x.token] = @ + d]
<1>4. n \in Nat /\ d \in Nat
  BY <1>3, UnitsInt
<1>5. /\ wallet \in [Holders -> [Tokens -> Nat]]
      /\ \A s \in Tokens :
            wallet[Raindex][s] = ledger.wallet[Raindex][s] + (IF s = x.token THEN n ELSE 0)
  <2>1. /\ ledger.wallet \in [Holders -> [Tokens -> Nat]] /\ x.from # x.to
        /\ x.amount <= ledger.wallet[x.from][x.token] /\ Raindex \in Holders
    BY <1>2 DEF Ledgers, Transfer, Holders
  <2>2. /\ wallet \in [Holders -> [Tokens -> Nat]]
        /\ \A c \in Holders, s \in Tokens :
              wallet[c][s] = IF s # x.token THEN ledger.wallet[c][s]
                             ELSE IF c = x.from THEN ledger.wallet[c][s] - x.amount
                             ELSE IF c = x.to THEN ledger.wallet[c][s] + x.amount
                             ELSE ledger.wallet[c][s]
    <3> DEFINE w == ledger.wallet
               a == x.from
               b == x.to
               t == x.token
               m == x.amount
    <3>1. /\ w \in [Holders -> [Tokens -> Nat]] /\ a \in Holders /\ b \in Holders /\ a # b
          /\ t \in Tokens /\ m \in Nat /\ m <= w[a][t]
      BY <1>3, <2>1
    <3> HIDE DEF w, a, b, t, m
    <3>2. /\ Moved(w, a, b, t, m) \in [Holders -> [Tokens -> Nat]]
          /\ \A c \in Holders, s \in Tokens :
                Moved(w, a, b, t, m)[c][s] = IF s # t THEN w[c][s]
                                             ELSE IF c = a THEN w[c][s] - m
                                             ELSE IF c = b THEN w[c][s] + m
                                             ELSE w[c][s]
      BY <3>1, MovedType
    <3> QED
      BY <3>2 DEF w, a, b, t, m
  <2> HIDE DEF wallet
  <2> QED
    BY <1>3, <2>1, <2>2
<1>6. /\ dust \in [Tokens -> Nat]
      /\ \A s \in Tokens : dust[s] = ledger.dust[s] + (IF s = x.token THEN d ELSE 0)
  <2> HIDE DEF d
  <2> QED
    BY <1>2, <1>3, <1>4 DEF Ledgers
<1>7. ledger' = [ledger EXCEPT !.wallet = wallet, !.dust = dust]
  <2>1. CASE x.to = Raindex
    BY <2>1 DEF Transfer
  <2>2. CASE x.to # Raindex
    <3>1. d = 0
      BY <1>3, <2>2, LedgerAssumption DEF FromUnits
    <3>2. dust = ledger.dust
      <4> HIDE DEF d
      <4> QED
        BY <1>2, <1>3, <3>1 DEF Ledgers
    <3>3. ledger' = [ledger EXCEPT !.wallet = wallet, !.dust[x.token] = @]
      BY <2>2 DEF Transfer
    <3>4. [ledger.dust EXCEPT ![x.token] = @] = ledger.dust
      BY <1>2, <1>3 DEF Ledgers
    <3> HIDE DEF dust, wallet
    <3> QED
      BY <3>2, <3>3, <3>4
  <2> QED
    BY <2>1, <2>2
<1> HIDE DEF wallet, dust, n, d
<1>8. /\ ledger' \in Ledgers
      /\ ledger'.vault = ledger.vault /\ ledger'.wallet = wallet /\ ledger'.dust = dust
  BY <1>2, <1>5, <1>6, <1>7 DEF Ledgers
<1>9. \A s \in Tokens : Owed(ledger', s) = Owed(ledger, s) /\ Owed(ledger, s) \in Nat
  BY <1>2, <1>8, OwedNat DEF Owed, Balances
<1>10. \A s \in Tokens : Position(ledger', s) = Position(ledger, s)
  <2>1. \A s \in Tokens : /\ ledger.wallet[Raindex][s] \in Nat /\ ledger.dust[s] \in Nat
                          /\ Unit[s] \in Nat
    BY <1>2, LedgerAssumption DEF Ledgers, Holders
  <2>2. ASSUME NEW s \in Tokens
        PROVE  FromUnits(s, wallet[Raindex][s])
                 = FromUnits(s, ledger.wallet[Raindex][s]) + (IF s = x.token THEN d ELSE 0)
    BY <1>4, <1>5, <2>1 DEF FromUnits, d
  <2>3. \A s \in Tokens : FromUnits(s, ledger.wallet[Raindex][s]) \in Nat
    BY <2>1, UnitsInt
  <2> QED
    BY <1>4, <1>6, <1>8, <1>9, <2>1, <2>2, <2>3 DEF Position
<1>11. Balanced(ledger, Lent, take)
  BY <1>1 DEF Sound, Saved
<1>12. Balanced(ledger', Lent, take)
  BY <1>2, <1>8, <1>10, <1>11, KeepBalanced
<1>13. Sound(Saved', Lent, take)
  <2>1. SameSlots(ledger, ledger')
    BY <1>8 DEF SameSlots
  <2> QED
    BY <1>1, <1>12, <2>1, SoundLedger
<1> QED
  BY <1>1, <1>8, <1>13, StillStep

\* Putting n base units on loan, or taking them off.
LEMMA LentMore ==
    ASSUME NEW lent \in [Tokens -> Nat], NEW t \in Tokens, NEW n \in Nat
    PROVE  LET more == [lent EXCEPT ![t] = @ + n]
           IN  /\ more \in [Tokens -> Nat]
               /\ \A s \in Tokens : FromUnits(s, more[s])
                     = FromUnits(s, lent[s]) + (IF s = t THEN FromUnits(t, n) ELSE 0)
<1> DEFINE more == [lent EXCEPT ![t] = @ + n]
<1>1. more \in [Tokens -> Nat] /\ \A s \in Tokens : more[s] = lent[s] + (IF s = t THEN n ELSE 0)
  OBVIOUS
<1> HIDE DEF more
<1>2. \A s \in Tokens : lent[s] \in Nat /\ Unit[s] \in Nat
  BY LedgerAssumption
<1>3. \A s \in Tokens : FromUnits(s, more[s])
                          = FromUnits(s, lent[s]) + (IF s = t THEN FromUnits(t, n) ELSE 0)
  BY <1>1, <1>2 DEF FromUnits
<1> QED
  BY <1>1, <1>3 DEF more

LEMMA FlashLoanStep ==
    ASSUME Inductive, NEW a \in Accounts, NEW t \in Tokens, NEW n \in LoanAmounts,
           FlashLoan(a, t, n)
    PROVE  Inductive'
<1>1. TypeOK /\ Guarded(stack, entered, take) /\ BatchOK(take) /\ Sound(Saved, Lent, take)
  BY DEF Inductive
<1> DEFINE more == [Lent EXCEPT ![t] = @ + n]
           f == [kind |-> "flash", caller |-> a, token |-> t, amount |-> n,
                 lent |-> more, saved |-> Saved]
<1>2. /\ stack' = Append(stack, f) /\ CanTransferOut(ledger, t, n)
      /\ ledger' = TransferOut(ledger, a, t, n)
      /\ live' = live /\ store' = store /\ entered' = entered /\ take' = take
  BY DEF FlashLoan
<1>3. /\ Saved \in SavedType /\ Lent \in [Tokens -> Nat] /\ n \in Nat
      /\ ledger \in Ledgers /\ take \in Takes
  BY <1>1, SoundNow, RaindexAssumption DEF TypeOK, Takes
<1>4. /\ more \in [Tokens -> Nat]
      /\ \A s \in Tokens : FromUnits(s, more[s])
            = FromUnits(s, Lent[s]) + (IF s = t THEN FromUnits(t, n) ELSE 0)
  BY <1>3, LentMore
<1>5. /\ f.kind = "flash" /\ f.token = t /\ f.amount = n /\ f.lent = more
      /\ f.saved = Saved
  OBVIOUS
<1>6. f \in FrameType
  <2> HIDE DEF more
  <2> QED
    BY <1>3, <1>4 DEF FrameType
<1>7. f.lent = LentAfter(f, Lent)
  BY <1>5 DEF LentAfter
<1> HIDE DEF f
<1>8. stack' \in Seq(FrameType) /\ Lent' = more /\ Restorable(stack', take')
  BY <1>2, <1>5, <1>6, <1>7, PushStep
<1>9. Guarded(stack', entered', take')
  BY <1>1, <1>2, <1>5, <1>6, PushFlashGuarded DEF TypeOK
<1> HIDE DEF more
<1>10. Moves(ledger, ledger', t, -FromUnits(t, n)) /\ ledger'.vault = ledger.vault
  BY <1>2, <1>3, TransferOutMoves
<1>11. ledger' \in Ledgers
  BY <1>10 DEF Moves
<1>12. Balanced(ledger', more, take)
  <2>1. ASSUME NEW s \in Tokens
        PROVE  Position(ledger', s) + FromUnits(s, more[s]) + Due(take, s)
                 = Position(ledger, s) + FromUnits(s, Lent[s]) + Due(take, s)
    <3>1. /\ Position(ledger, s) \in Int /\ FromUnits(s, Lent[s]) \in Int /\ Due(take, s) \in Int
          /\ FromUnits(t, n) \in Int
      BY <1>3, PositionInt, UnitsInt, DueInt
    <3>2. Position(ledger', s) = Position(ledger, s) + (IF s = t THEN -FromUnits(t, n) ELSE 0)
      BY <1>10 DEF Moves
    <3> QED
      BY <1>4, <3>1, <3>2
  <2>2. Balanced(ledger, Lent, take)
    BY <1>1 DEF Sound, Saved
  <2> QED
    BY <1>3, <1>4, <1>11, <2>1, <2>2, KeepBalanced
<1>13. Sound(Saved', Lent', take')
  <2>1. SameSlots(ledger, ledger')
    BY <1>10 DEF SameSlots
  <2>2. Sound(Saved', more, take)
    BY <1>1, <1>2, <1>12, <2>1, SoundLedger
  <2> QED
    BY <1>2, <1>8, <2>2
<1>14. TypeOK'
  BY <1>1, <1>2, <1>8, <1>11 DEF TypeOK
<1> QED
  BY <1>1, <1>2, <1>8, <1>9, <1>13, <1>14 DEF Inductive

LEMMA FlashRepayStep ==
    ASSUME Inductive, FlashRepay
    PROVE  Inductive'
<1>1. TypeOK /\ Guarded(stack, entered, take) /\ BatchOK(take) /\ Sound(Saved, Lent, take)
  BY DEF Inductive
<1> DEFINE a == Top.caller
           t == Top.token
           n == Top.amount
<1>2. /\ stack # <<>> /\ Top.kind = "flash" /\ stack' = Below
      /\ CanTransferIn(ledger, a, t, n) /\ ledger' = TransferIn(ledger, a, t, n)
      /\ live' = live /\ store' = store /\ entered' = entered /\ take' = take
  BY DEF FlashRepay
<1>3. /\ stack' \in Seq(FrameType) /\ Restorable(stack', take) /\ Top \in FrameType
      /\ Lent' \in [Tokens -> Nat] /\ Top.lent = LentAfter(Top, Lent')
  BY <1>2, BelowStep
<1>4. a \in Accounts /\ t \in Tokens /\ n \in Nat
  BY <1>2, <1>3, FrameFields
<1>5. /\ Lent \in [Tokens -> Nat] /\ ledger \in Ledgers /\ take \in Takes
  BY <1>1, SoundNow DEF TypeOK, Takes
<1>6. Lent = [Lent' EXCEPT ![t] = @ + n]
  BY <1>2, <1>3 DEF Lent, LentAfter
<1> HIDE DEF a, t, n
<1>7. \A s \in Tokens : FromUnits(s, Lent[s])
                          = FromUnits(s, Lent'[s]) + (IF s = t THEN FromUnits(t, n) ELSE 0)
  <2> DEFINE less == Lent'
  <2>1. less \in [Tokens -> Nat] /\ Lent = [less EXCEPT ![t] = @ + n]
    BY <1>3, <1>6
  <2> HIDE DEF less
  <2>2. \A s \in Tokens : FromUnits(s, [less EXCEPT ![t] = @ + n][s])
                            = FromUnits(s, less[s]) + (IF s = t THEN FromUnits(t, n) ELSE 0)
    BY <1>4, <2>1, LentMore
  <2>3. \A s \in Tokens : FromUnits(s, Lent[s])
                            = FromUnits(s, less[s]) + (IF s = t THEN FromUnits(t, n) ELSE 0)
    BY <2>1, <2>2
  <2> QED
    BY <2>3 DEF less
<1>8. Guarded(stack', entered', take')
  BY <1>1, <1>2, PopGuarded DEF TypeOK, Takes, Top, Below
<1>9. Moves(ledger, ledger', t, FromUnits(t, n)) /\ ledger'.vault = ledger.vault
  BY <1>2, <1>4, <1>5, TransferInMoves
<1>10. ledger' \in Ledgers
  BY <1>9 DEF Moves
<1>11. Balanced(ledger', Lent', take)
  <2>1. ASSUME NEW s \in Tokens
        PROVE  Position(ledger', s) + FromUnits(s, Lent'[s]) + Due(take, s)
                 = Position(ledger, s) + FromUnits(s, Lent[s]) + Due(take, s)
    <3>1. /\ Position(ledger, s) \in Int /\ FromUnits(s, Lent'[s]) \in Int /\ Due(take, s) \in Int
          /\ FromUnits(t, n) \in Int
      BY <1>3, <1>4, <1>5, PositionInt, UnitsInt, DueInt
    <3>2. Position(ledger', s) = Position(ledger, s) + (IF s = t THEN FromUnits(t, n) ELSE 0)
      BY <1>9 DEF Moves
    <3> QED
      BY <1>7, <3>1, <3>2
  <2>2. Balanced(ledger, Lent, take)
    BY <1>1 DEF Sound, Saved
  <2> QED
    BY <1>3, <1>5, <1>10, <2>1, <2>2, KeepBalanced
<1>12. Sound(Saved', Lent', take')
  <2>1. SameSlots(ledger, ledger')
    BY <1>9 DEF SameSlots
  <2> QED
    BY <1>1, <1>2, <1>11, <2>1, SoundLedger
<1>13. TypeOK'
  BY <1>1, <1>2, <1>3, <1>10 DEF TypeOK
<1> QED
  BY <1>1, <1>2, <1>3, <1>8, <1>12, <1>13 DEF Inductive

-----------------------------------------------------------------------------
(* The entry points that take the guard.                                   *)

\* When the guard is free no batch is running.
LEMMA Idle ==
    ASSUME Inductive, CanEnter
    PROVE  /\ ~entered
           /\ take = NoTake
           /\ Sound(Saved, Lent, NoTake)
           /\ Balanced(ledger, Lent, NoTake)
           /\ \A o \in Accounts, t \in Tokens : ledger.vault[o][t][0] = 0
           /\ \A o \in Accounts : store[o] <= Budget[o]
           /\ ledger \in Ledgers /\ live \subseteq Orders /\ store \in [Accounts -> Nat]
           /\ Lent \in [Tokens -> Nat] /\ NoTake \in Takes
<1>1. TypeOK /\ Guarded(stack, entered, take) /\ Sound(Saved, Lent, take) /\ ~entered
  BY DEF Inductive, CanEnter
<1>2. \A k \in 1 .. Len(stack) : stack[k].kind = "flash"
  BY <1>1 DEF Guarded
<1>3. take.phase = "none"
  BY <1>1, <1>2 DEF Guarded
<1>4. take = NoTake
  BY <1>1, <1>3, TakePhases DEF TypeOK, Takes
<1>5. Sound(Saved, Lent, NoTake)
  BY <1>1, <1>4
<1>6. /\ Balanced(ledger, Lent, NoTake) /\ SlotsAccrued(ledger, NoTake)
      /\ \A o \in Accounts : store[o] <= Budget[o]
  BY <1>5 DEF Sound, Saved
<1>7. \A o \in Accounts, t \in Tokens : ledger.vault[o][t][0] = 0
  BY <1>6, NoTakePhase DEF SlotsAccrued, Accruing
<1> QED
  BY <1>1, <1>4, <1>5, <1>6, <1>7, SoundNow, NoTakePhase DEF TypeOK

\* A state with balanced books and empty slots is sound when no batch runs.
LEMMA SoundIdle ==
    ASSUME NEW lent, Balanced(ledger', lent, NoTake),
           \A o \in Accounts, t \in Tokens : ledger'.vault[o][t][0] = 0,
           \A o \in Accounts : store'[o] <= Budget[o]
    PROVE  Sound(Saved', lent, NoTake)
<1>1. Saved'.ledger = ledger' /\ Saved'.live = live' /\ Saved'.store = store'
  BY DEF Saved
<1>2. SlotsAccrued(ledger', NoTake)
  BY DEF SlotsAccrued
<1> QED
  BY <1>1, <1>2, NoTakePhase DEF Sound

LEMMA EntaskStep ==
    ASSUME Inductive, NEW a \in Accounts, Entask(a)
    PROVE  Inductive'
<1>1. CanEnter /\ EnterPost(a) /\ ledger' = ledger /\ live' = live /\ store' = store
  BY DEF Entask
<1>2. Sound(Saved', Lent, NoTake)
  BY <1>1, Idle, SoundIdle
<1> QED
  BY <1>1, <1>2, Idle, EnterStep DEF EnterPost

LEMMA DepositStep ==
    ASSUME Inductive, NEW a \in Accounts, NEW t \in Tokens, NEW v \in VaultIds, NEW q \in Amounts,
           Deposit(a, t, v, q)
    PROVE  Inductive'
<1> DEFINE L == pullTokens(ledger, a, t, q)
<1>1. /\ CanEnter /\ EnterPost(a) /\ live' = live /\ store' = store
      /\ v # 0 /\ CanPull(ledger, a, t, q) /\ ledger' = increaseVaultBalance(L, a, t, v, q)
  BY DEF Deposit
<1>2. q \in Nat
  BY RaindexAssumption DEF Deposit
<1>3. ledger \in Ledgers /\ Lent \in [Tokens -> Nat]
  BY <1>1, Idle
<1>4. Moves(ledger, L, t, q) /\ L.vault = ledger.vault
  BY <1>1, <1>2, <1>3, PullMoves
<1> HIDE DEF L
<1>5. L \in Ledgers
  BY <1>4 DEF Moves
<1>6. CanIncrease(L, t, v, q)
  BY <1>1, <1>2 DEF CanIncrease
<1>7. Moves(L, ledger', t, -q) /\ SameSlots(L, ledger')
  BY <1>1, <1>2, <1>5, <1>6, IncreaseMoves
<1>8. Moves(ledger, ledger', t, q + (-q)) /\ q + (-q) = 0
  BY <1>2, <1>3, <1>4, <1>7, MovesTrans
<1>9. ledger' \in Ledgers /\ Balanced(ledger', Lent, NoTake)
  BY <1>1, <1>3, <1>8, Idle, KeepBalancedMoves
<1>10. \A o \in Accounts, s \in Tokens : ledger'.vault[o][s][0] = 0
  BY <1>1, <1>4, <1>7, Idle DEF SameSlots
<1>11. Sound(Saved', Lent, NoTake)
  BY <1>1, <1>9, <1>10, Idle, SoundIdle
<1> QED
  BY <1>1, <1>9, <1>11, Idle, EnterStep DEF EnterPost

LEMMA WithdrawStep ==
    ASSUME Inductive, NEW a \in Accounts, NEW t \in Tokens, NEW v \in VaultIds,
           NEW target \in Amounts, Withdraw(a, t, v, target)
    PROVE  Inductive'
<1> DEFINE q == MinOf(target, vaultBalance(ledger, a, t, v))
           L == decreaseVaultBalance(ledger, a, t, v, q)
<1>1. /\ CanEnter /\ EnterPost(a) /\ live' = live /\ store' = store
      /\ v # 0 /\ CanDecrease(ledger, a, t, v, q) /\ CanPush(L, t, q)
      /\ ledger' = pushTokens(L, a, t, q)
  BY DEF Withdraw
<1>2. ledger \in Ledgers /\ Lent \in [Tokens -> Nat]
  BY <1>1, Idle
<1>3. q \in Nat
  <2>1. target \in Int /\ target > 0
    BY RaindexAssumption DEF Withdraw
  <2>2. vaultBalance(ledger, a, t, v) \in Nat
    BY <1>1, <1>2 DEF vaultBalance, Ledgers
  <2> QED
    BY <2>1, <2>2, MinOfProperties
<1> HIDE DEF q
<1>4. Moves(ledger, L, t, q) /\ SameSlots(ledger, L)
  BY <1>1, <1>2, <1>3, DecreaseMoves
<1> HIDE DEF L
<1>5. L \in Ledgers
  BY <1>4 DEF Moves
<1>6. Moves(L, ledger', t, -q) /\ ledger'.vault = L.vault
  BY <1>1, <1>3, <1>5, PushMoves
<1>7. Moves(ledger, ledger', t, q + (-q)) /\ q + (-q) = 0
  BY <1>2, <1>3, <1>4, <1>6, MovesTrans
<1>8. ledger' \in Ledgers /\ Balanced(ledger', Lent, NoTake)
  BY <1>1, <1>2, <1>7, Idle, KeepBalancedMoves
<1>9. \A o \in Accounts, s \in Tokens : ledger'.vault[o][s][0] = 0
  BY <1>1, <1>4, <1>6, Idle DEF SameSlots
<1>10. Sound(Saved', Lent, NoTake)
  BY <1>1, <1>8, <1>9, Idle, SoundIdle
<1> QED
  BY <1>1, <1>8, <1>10, Idle, EnterStep DEF EnterPost

LEMMA AddOrderStep ==
    ASSUME Inductive, NEW o \in Orders, AddOrder(o)
    PROVE  Inductive'
<1>1. CanEnter /\ EnterPost(o.owner) /\ ledger' = ledger /\ live' = live \cup {o} /\ store' = store
  BY DEF AddOrder
<1>2. o.owner \in Accounts
  BY RaindexAssumption DEF OrderType
<1>3. Sound(Saved', Lent, NoTake)
  BY <1>1, Idle, SoundIdle
<1>4. live' \subseteq Orders
  BY <1>1, Idle
<1> QED
  BY <1>1, <1>2, <1>3, <1>4, Idle, EnterStep DEF EnterPost

LEMMA RemoveOrderStep ==
    ASSUME Inductive, NEW a \in Accounts, NEW o \in Orders, RemoveOrder(a, o)
    PROVE  Inductive'
<1>1. CanEnter /\ EnterPost(a) /\ ledger' = ledger /\ live' = live \ {o} /\ store' = store
  BY DEF RemoveOrder
<1>2. Sound(Saved', Lent, NoTake)
  BY <1>1, Idle, SoundIdle
<1>3. live' \subseteq Orders
  BY <1>1, Idle
<1> QED
  BY <1>1, <1>2, <1>3, Idle, EnterStep DEF EnterPost

-----------------------------------------------------------------------------
(* Trades.                                                                 *)

LEMMA LegFields ==
    ASSUME NEW leg \in Legs
    PROVE  /\ leg.order \in Orders /\ leg.order.owner \in Accounts
           /\ leg.in \in [token : Tokens, vault : VaultIds]
           /\ leg.out \in [token : Tokens, vault : VaultIds]
           /\ leg.in.token \in Tokens /\ leg.out.token \in Tokens
           /\ leg.in.vault \in VaultIds /\ leg.out.vault \in VaultIds
           /\ leg.in = [token |-> leg.in.token, vault |-> leg.in.vault]
<1>1. leg.order \in Orders /\ leg.in \in IOs /\ leg.out \in IOs
  BY DEF Legs
<1>2. leg.order.owner \in Accounts
  BY <1>1, RaindexAssumption DEF OrderType
<1> QED
  BY <1>1, <1>2 DEF IOs

LEMMA VaultBalanceNat ==
    ASSUME NEW L \in Ledgers, NEW o \in Accounts, NEW t \in Tokens, NEW v \in VaultIds
    PROVE  vaultBalance(L, o, t, v) \in Nat
<1>1. CASE v # 0
  BY <1>1 DEF vaultBalance, Ledgers
<1>2. CASE v = 0
  <2>1. L.wallet[o][t] \in Nat /\ L.allow[o][t] \in Nat /\ L.vault[o][t][0] \in Nat
    BY LedgerAssumption DEF Ledgers, Holders
  <2>2. MinOf(L.wallet[o][t], L.allow[o][t]) \in Nat
    BY <2>1 DEF MinOf
  <2>3. FromUnits(t, MinOf(L.wallet[o][t], L.allow[o][t])) \in Nat
    BY <2>2, UnitsInt
  <2> QED
    BY <1>2, <2>1, <2>3 DEF vaultBalance
<1> QED
  BY <1>1, <1>2

\* What an order calculates is within what is left of its owner's budget.
LEMMA CalculationBounds ==
    ASSUME NEW leg \in Legs, ledger \in Ledgers, store \in [Accounts -> Nat],
           NEW q \in calculateOrderIO(leg)
    PROVE  q \in Calculations /\ q.max <= Budget[leg.order.owner] - store[leg.order.owner]
<1> DEFINE left == Budget[leg.order.owner] - store[leg.order.owner]
           balance == vaultBalance(ledger, leg.order.owner, leg.out.token, leg.out.vault)
           cap == MinOf(left, balance)
<1>0. /\ leg.order.owner \in Accounts /\ leg.out.token \in Tokens /\ leg.out.vault \in VaultIds
      /\ leg.order \in Orders
  BY LegFields
<1>1. left \in Int
  BY <1>0, RaindexAssumption
<1>2. balance \in Int
  BY <1>0, VaultBalanceNat
<1>3. PICK e \in Evaluations[leg.order] : q = [e EXCEPT !.max = MinOf(@, cap)]
  BY DEF calculateOrderIO
<1>4. e \in Calculations
  BY <1>0, RaindexAssumption
<1> HIDE DEF left, balance
<1>5. cap \in Int /\ cap <= left
  BY <1>1, <1>2, MinOfProperties
<1> HIDE DEF cap
<1>6. e.max \in Int
  BY <1>4 DEF Calculations
<1>7. MinOf(e.max, cap) \in Int /\ MinOf(e.max, cap) <= cap
  BY <1>5, <1>6, MinOfProperties
<1>8. q.max = MinOf(e.max, cap) /\ q \in Calculations
  BY <1>3, <1>4, <1>7 DEF Calculations
<1>9. q.max <= left
  BY <1>1, <1>5, <1>7, <1>8
<1> QED
  BY <1>8, <1>9 DEF left

LEMMA HandledStore ==
    ASSUME NEW s \in [Accounts -> Nat], NEW leg \in Legs, NEW n \in Nat
    PROVE  /\ handleIO(s, leg, n) \in [Accounts -> Nat]
           /\ \A o \in Accounts :
                 handleIO(s, leg, n)[o] = IF o = leg.order.owner THEN s[o] + n ELSE s[o]
<1> DEFINE a == leg.order.owner
<1>1. a \in Accounts
  BY LegFields
<1>2. handleIO(s, leg, n) = [s EXCEPT ![a] = @ + n]
  BY DEF handleIO
<1> HIDE DEF a
<1>3. \A o \in Accounts : [s EXCEPT ![a] = @ + n][o] = IF o = a THEN s[o] + n ELSE s[o]
  BY <1>1
<1>4. [s EXCEPT ![a] = @ + n] \in [Accounts -> Nat]
  BY <1>1
<1> QED
  BY <1>2, <1>3, <1>4 DEF a

\* The output leg and the input leg of a fill.
LEMMA OutputLeg ==
    ASSUME NEW L \in Ledgers, NEW o \in Accounts, NEW io \in [token : Tokens, vault : VaultIds],
           NEW q \in Nat, CanDecrease(L, o, io.token, io.vault, q)
    PROVE  /\ Moves(L, recordVaultOutput(L, o, io, q), io.token, q)
           /\ SameSlots(L, recordVaultOutput(L, o, io, q))
<1>1. io.token \in Tokens /\ io.vault \in VaultIds
  OBVIOUS
<1> QED
  BY <1>1, DecreaseMoves DEF recordVaultOutput

LEMMA ClearStep ==
    ASSUME Inductive, NEW caller \in Accounts, NEW alice \in Legs, NEW bob \in Legs,
           NEW v \in VaultIds, NEW w \in VaultIds, Clear(caller, alice, bob, v, w)
    PROVE  Inductive'
<1> DEFINE A == alice.order.owner
           B == bob.order.owner
           X == alice.out.token
           Y == alice.in.token
<1>0. /\ CanEnter /\ EnterAs("handle", caller) /\ live' = live
      /\ A # B /\ X = bob.in.token /\ bob.out.token = Y /\ X # Y
  BY DEF Clear, CanMeet, IsLive, TokenSelfTrade
<1>1. PICK p \in calculateOrderIO(alice), q \in calculateOrderIO(bob) :
        LET change == calculateClearStateChange(p, q)
            L1 == recordVaultOutput(ledger, A, alice.out, change.alice.output)
            L2 == recordVaultOutput(L1, B, bob.out, change.bob.output)
            L3 == recordVaultInput(L2, A, alice.in, change.alice.input)
            L4 == recordVaultInput(L3, B, bob.in, change.bob.input)
            L5 == pushVaultZeroInput(L4, A, alice.in)
            L6 == pushVaultZeroInput(L5, B, bob.in)
            L7 == increaseVaultBalance(L6, caller, X, v, change.aliceBounty)
        IN  /\ IsClearable(p)
            /\ IsClearable(q)
            /\ change.aliceBounty >= 0
            /\ change.bobBounty >= 0
            /\ CanDecrease(ledger, A, alice.out.token, alice.out.vault, change.alice.output)
            /\ CanDecrease(L1, B, bob.out.token, bob.out.vault, change.bob.output)
            /\ CanPush(L4, alice.in.token, Accrued(L4, A, alice.in))
            /\ CanPush(L5, bob.in.token, Accrued(L5, B, bob.in))
            /\ CanIncrease(L6, X, v, change.aliceBounty)
            /\ CanIncrease(L7, bob.out.token, w, change.bobBounty)
            /\ ledger' = increaseVaultBalance(L7, caller, bob.out.token, w, change.bobBounty)
            /\ store' = handleIO(handleIO(store, alice, change.alice.output),
                                 bob, change.bob.output)
  BY DEF Clear
<1> DEFINE change == calculateClearStateChange(p, q)
           ao == change.alice.output
           ai == change.alice.input
           bo == change.bob.output
           bi == change.bob.input
           ab == change.aliceBounty
           bb == change.bobBounty
           L1 == recordVaultOutput(ledger, A, alice.out, ao)
           L2 == recordVaultOutput(L1, B, bob.out, bo)
           L3 == recordVaultInput(L2, A, alice.in, ai)
           L4 == recordVaultInput(L3, B, bob.in, bi)
           L5 == pushVaultZeroInput(L4, A, alice.in)
           L6 == pushVaultZeroInput(L5, B, bob.in)
           L7 == increaseVaultBalance(L6, caller, X, v, ab)
<1>2. /\ IsClearable(p) /\ IsClearable(q) /\ ab >= 0 /\ bb >= 0
      /\ CanDecrease(ledger, A, alice.out.token, alice.out.vault, ao)
      /\ CanDecrease(L1, B, bob.out.token, bob.out.vault, bo)
      /\ CanPush(L4, alice.in.token, Accrued(L4, A, alice.in))
      /\ CanPush(L5, bob.in.token, Accrued(L5, B, bob.in))
      /\ CanIncrease(L6, X, v, ab)
      /\ CanIncrease(L7, bob.out.token, w, bb)
      /\ ledger' = increaseVaultBalance(L7, caller, bob.out.token, w, bb)
      /\ store' = handleIO(handleIO(store, alice, ao), bob, bo)
  BY <1>1
<1>3. /\ ledger \in Ledgers /\ live \subseteq Orders /\ store \in [Accounts -> Nat]
      /\ Lent \in [Tokens -> Nat] /\ ~entered /\ Balanced(ledger, Lent, NoTake)
      /\ \A o \in Accounts, t \in Tokens : ledger.vault[o][t][0] = 0
      /\ \A o \in Accounts : store[o] <= Budget[o]
      /\ NoTake \in Takes
  BY <1>0, Idle
<1>4. /\ p \in Calculations /\ p.max <= Budget[A] - store[A]
      /\ q \in Calculations /\ q.max <= Budget[B] - store[B]
  BY <1>3, CalculationBounds
<1>5. /\ ai \in Nat /\ ao \in Nat /\ ao <= p.max /\ bi \in Nat /\ bo \in Nat /\ bo <= q.max
      /\ ab = ao - bi /\ bb = bo - ai
  BY <1>2, <1>4, ClearStateCorrect
<1>6. ab \in Nat /\ bb \in Nat
  <2> HIDE DEF ao, ai, bo, bi, ab, bb
  <2> QED
    BY <1>2, <1>5
<1>7. /\ A \in Accounts /\ B \in Accounts /\ X \in Tokens /\ Y \in Tokens
      /\ alice.in \in [token : Tokens, vault : VaultIds]
      /\ alice.out \in [token : Tokens, vault : VaultIds]
      /\ bob.in \in [token : Tokens, vault : VaultIds]
      /\ bob.out \in [token : Tokens, vault : VaultIds]
  BY LegFields
<1> HIDE DEF change, ao, ai, bo, bi, ab, bb, A, B
<1>51. ai \in Nat /\ ao \in Nat /\ bi \in Nat /\ bo \in Nat
  BY <1>5
<1>01. bob.in.token = X /\ bob.out.token = Y
  BY <1>0
<1>8. Moves(ledger, L1, X, ao) /\ SameSlots(ledger, L1)
  BY <1>2, <1>3, <1>5, <1>7, OutputLeg
<1>9. L1 \in Ledgers
  BY <1>8 DEF Moves
<1> HIDE DEF L1
<1>10. Moves(L1, L2, Y, bo) /\ SameSlots(L1, L2)
  BY <1>0, <1>2, <1>5, <1>7, <1>9, OutputLeg
<1>11. L2 \in Ledgers
  BY <1>10 DEF Moves
<1> HIDE DEF L2
<1>12. /\ Moves(L2, L3, Y, -ai)
       /\ \A o \in Accounts, t \in Tokens :
             (alice.in.vault = 0 /\ o = A /\ t = alice.in.token)
               \/ L3.vault[o][t][0] = L2.vault[o][t][0]
  BY <1>51, <1>7, <1>11, RecordInputMoves
<1>13. L3 \in Ledgers
  BY <1>12 DEF Moves
<1> HIDE DEF L3
<1>14. /\ Moves(L3, L4, X, -bi)
       /\ \A o \in Accounts, t \in Tokens :
             (bob.in.vault = 0 /\ o = B /\ t = bob.in.token)
               \/ L4.vault[o][t][0] = L3.vault[o][t][0]
  BY <1>01, <1>51, <1>7, <1>13, RecordInputMoves
<1>15. L4 \in Ledgers
  BY <1>14 DEF Moves
<1> HIDE DEF L4
<1>16. /\ Moves(L4, L5, Y, 0)
       /\ \A o \in Accounts, t \in Tokens :
             L5.vault[o][t][0] = IF alice.in.vault = 0 /\ o = A /\ t = alice.in.token THEN 0
                                 ELSE L4.vault[o][t][0]
  BY <1>2, <1>7, <1>15, FlushMoves
<1>17. L5 \in Ledgers
  BY <1>16 DEF Moves
<1> HIDE DEF L5
<1>18. /\ Moves(L5, L6, X, 0)
       /\ \A o \in Accounts, t \in Tokens :
             L6.vault[o][t][0] = IF bob.in.vault = 0 /\ o = B /\ t = bob.in.token THEN 0
                                 ELSE L5.vault[o][t][0]
  BY <1>0, <1>2, <1>7, <1>17, FlushMoves
<1>19. L6 \in Ledgers
  BY <1>18 DEF Moves
<1> HIDE DEF L6
<1>20. Moves(L6, L7, X, -ab) /\ SameSlots(L6, L7)
  BY <1>2, <1>6, <1>7, <1>19, IncreaseMoves
<1>21. L7 \in Ledgers
  BY <1>20 DEF Moves
<1> HIDE DEF L7
<1>22. Moves(L7, ledger', Y, -bb) /\ SameSlots(L7, ledger')
  BY <1>0, <1>2, <1>6, <1>7, <1>21, IncreaseMoves
<1>23. ledger' \in Ledgers
  BY <1>22 DEF Moves
<1> HIDE DEF X, Y
\* The two tokens come out even: output = input of the other side + bounty.
<1>24. \A t \in Tokens : Position(ledger', t) = Position(ledger, t)
  <2>1. \A t \in Tokens : Position(ledger, t) \in Int
    BY <1>3, PositionInt
  <2>2. ASSUME NEW t \in Tokens
        PROVE  Position(ledger', t) = Position(ledger, t)
                  + (IF t = X THEN ao - bi - ab ELSE 0) + (IF t = Y THEN bo - ai - bb ELSE 0)
    BY <1>5, <1>6, <1>8, <1>10, <1>12, <1>14, <1>16, <1>18, <1>20, <1>22, <2>1 DEF Moves
  <2>3. ao - bi - ab = 0 /\ bo - ai - bb = 0
    BY <1>5, <1>6
  <2> QED
    BY <2>1, <2>2, <2>3
<1>25. Balanced(ledger', Lent, NoTake)
  BY <1>3, <1>23, <1>24, KeepBalanced
<1>26. \A o \in Accounts, t \in Tokens : ledger'.vault[o][t][0] = 0
  <2>1. ASSUME NEW o \in Accounts, NEW t \in Tokens
        PROVE  L6.vault[o][t][0] = 0
    BY <1>3, <1>8, <1>10, <1>12, <1>14, <1>16, <1>18 DEF SameSlots
  <2> QED
    BY <2>1, <1>20, <1>22 DEF SameSlots
<1>27. store' \in [Accounts -> Nat] /\ \A o \in Accounts : store'[o] <= Budget[o]
  <2> DEFINE s1 == handleIO(store, alice, ao)
  <2>1. /\ s1 \in [Accounts -> Nat]
        /\ \A o \in Accounts : s1[o] = IF o = A THEN store[o] + ao ELSE store[o]
    <3> HIDE DEF s1
    <3>1. s1 = handleIO(store, alice, ao)
      BY DEF s1
    <3>2. store \in [Accounts -> Nat]
      BY <1>3
    <3> QED
      BY <1>51, <3>1, <3>2, HandledStore DEF A
  <2>2. store' = handleIO(s1, bob, bo)
    BY <1>2
  <2> HIDE DEF s1
  <2>3. /\ store' \in [Accounts -> Nat]
        /\ \A o \in Accounts : store'[o] = IF o = B THEN s1[o] + bo ELSE s1[o]
    <3>1. s1 \in [Accounts -> Nat]
      BY <2>1
    <3> QED
      BY <1>51, <2>2, <3>1, HandledStore DEF B
  <2>4. \A o \in Accounts : store[o] \in Nat /\ Budget[o] \in Nat
    BY <1>3, RaindexAssumption
  <2>5. p.max \in Int /\ q.max \in Int
    BY <1>4 DEF Calculations
  <2> QED
    BY <1>0, <1>3, <1>4, <1>5, <1>7, <2>1, <2>3, <2>4, <2>5 DEF A, B
<1>28. Sound(Saved', Lent, NoTake)
  BY <1>25, <1>26, <1>27, SoundIdle
<1>29. live' \subseteq Orders
  BY <1>0, <1>3
<1> QED
  BY <1>0, <1>3, <1>23, <1>27, <1>28, <1>29, EnterStep

-----------------------------------------------------------------------------
(* takeOrders5                                                             *)

LEMMA ConfigTokens ==
    ASSUME NEW c \in TakeConfigType, c.legs # <<>>
    PROVE  /\ InputToken(c) \in Tokens /\ OutputToken(c) \in Tokens
           /\ c.taker \in Accounts /\ c.legs \in Seq(Legs)
           /\ c.IOIsInput \in BOOLEAN /\ c.maximumIORatio \in Ratios
<1>1. c.taker \in Accounts /\ c.legs \in Seq(Legs) /\ c.IOIsInput \in BOOLEAN
        /\ c.maximumIORatio \in Ratios
  BY DEF TakeConfigType
<1>2. 1 \in 1 .. Len(c.legs)
  BY <1>1, EmptySeq
<1>3. c.legs[1] \in Legs
  BY <1>1, <1>2, LenProperties
<1>4. c.legs[1].in.token \in Tokens /\ c.legs[1].out.token \in Tokens
  BY <1>3, LegFields
<1> QED
  BY <1>1, <1>4 DEF InputToken, OutputToken

LEMMA TakeBeginStep ==
    ASSUME Inductive, NEW c \in TakeConfigs, TakeBegin(c)
    PROVE  Inductive'
<1> DEFINE f == [kind |-> "take", caller |-> c.taker, lent |-> Lent, saved |-> Saved]
<1>1. /\ CanEnter /\ c.legs # <<>> /\ c.maximumIO > 0 /\ entered' = TRUE
      /\ take' = [phase |-> "loop", config |-> c, i |-> 1, remaining |-> c.maximumIO,
                  totalIn |-> 0, totalOut |-> 0, taken |-> <<>>, ext |-> FALSE]
      /\ stack' = Append(stack, f) /\ ledger' = ledger /\ live' = live /\ store' = store
  BY DEF TakeBegin
<1>2. /\ ledger \in Ledgers /\ Lent \in [Tokens -> Nat] /\ ~entered /\ take = NoTake
      /\ Balanced(ledger, Lent, NoTake) /\ NoTake \in Takes
      /\ \A o \in Accounts, t \in Tokens : ledger.vault[o][t][0] = 0
      /\ \A o \in Accounts : store[o] <= Budget[o]
  BY <1>1, Idle
<1>3. c.taker \in Accounts /\ c.maximumIO \in Nat /\ Saved \in SavedType
  BY <1>1, RaindexAssumption, SoundNow DEF TakeConfigType
<1>4. f \in FrameType /\ f.kind = "take" /\ f.lent = Lent /\ f.saved = Saved
  BY <1>2, <1>3 DEF FrameType
<1> HIDE DEF f
<1>5. <<>> \in Seq(Legs)
  BY EmptySeq
<1>6. take' \in TakeType
  BY <1>1, <1>3, <1>5 DEF TakeType
<1>7. /\ take'.phase = "loop" /\ take'.totalIn = 0 /\ take'.totalOut = 0
      /\ take'.taken = <<>> /\ take'.i = 1 /\ take'.config = c
  BY <1>1
<1>8. f.lent = LentAfter(f, Lent)
  BY <1>4 DEF LentAfter
<1>9. stack' \in Seq(FrameType) /\ Lent' = Lent /\ Restorable(stack', take)
  BY <1>1, <1>4, <1>8, PushStep
<1>10. /\ TypeOK /\ Guarded(stack, FALSE, take)
  BY <1>2 DEF Inductive, TypeOK
<1>11. /\ Guarded(Append(stack, f), TRUE, take')
       /\ \A k \in 1 .. Len(stack) : stack[k].kind # "take"
  BY <1>4, <1>7, <1>10, PushGuarded DEF TypeOK
<1>12. Guarded(stack', entered', take')
  BY <1>1, <1>11
<1>13. Restorable(stack', take')
  <2>1. /\ Len(stack') = Len(stack) + 1 /\ Len(stack) \in Nat
        /\ \A k \in 1 .. Len(stack) : stack'[k] = stack[k]
    BY <1>1, <1>4, <1>10, Pushed DEF TypeOK
  <2>2. \A k \in 1 .. Len(stack') : stack'[k].kind = "take" => k = Len(stack')
    BY <1>11, <2>1
  <2> QED
    BY <1>9, <2>2, RetakeRestorable
<1>14. Balanced(ledger', Lent, take')
  <2>1. \A t \in Tokens : Due(take', t) = 0
    BY <1>7 DEF Due
  <2>2. \A t \in Tokens : Due(take', t) = Due(NoTake, t)
    BY <2>1, DueNoTake
  <2> QED
    BY <1>1, <1>2, <2>2 DEF Balanced
<1>15. SlotsAccrued(ledger', take')
  BY <1>1, <1>2 DEF SlotsAccrued
<1>16. Sound(Saved', Lent', take')
  <2>1. Saved'.ledger = ledger' /\ Saved'.store = store
    BY <1>1 DEF Saved
  <2>2. \A j \in DOMAIN take'.taken : take'.taken[j].order \in Saved'.live
    BY <1>7
  <2> QED
    BY <1>2, <1>9, <1>14, <1>15, <2>1, <2>2 DEF Sound
<1>17. TypeOK'
  BY <1>1, <1>6, <1>9, <1>10 DEF TypeOK
<1>18. BatchOK(take')
  BY <1>1, <1>7 DEF BatchOK
<1> QED
  BY <1>12, <1>13, <1>16, <1>17, <1>18 DEF Inductive

\* The batch of the innermost call moves on.
LEMMA BatchStep ==
    ASSUME Inductive, stack # <<>>, Top.kind = "take",
           take' \in TakeType, BatchOK(take'), stack' = stack, entered' = entered, live' = live,
           ledger' \in Ledgers, store' \in [Accounts -> Nat], Sound(Saved', Lent, take')
    PROVE  Inductive'
<1>1. TypeOK /\ Guarded(stack, entered, take) /\ Restorable(stack, take)
  BY DEF Inductive
<1>2. Lent' = Lent
  BY DEF Lent, Top
<1>3. Len(stack) \in 1 .. Len(stack) /\ stack[Len(stack)].kind = "take"
  BY <1>1, TopFrame DEF TypeOK, Top
<1>4. \A k \in 1 .. Len(stack) : stack[k].kind = "take" => k = Len(stack)
  BY <1>1, <1>3 DEF Guarded
<1>5. Restorable(stack', take')
  BY <1>1, <1>4, RetakeRestorable DEF TypeOK
<1>6. take'.phase # "none" /\ take.phase # "none"
  BY <1>1, <1>3, TakeFields DEF Guarded
<1>7. Guarded(stack', entered', take')
  BY <1>1, <1>6 DEF Guarded
<1>8. TypeOK'
  BY <1>1 DEF TypeOK
<1>9. Sound(Saved', Lent', take')
  BY <1>2
<1> QED
  BY <1>5, <1>7, <1>8, <1>9 DEF Inductive

\* What is known of the batch while its call is the innermost.
LEMMA InBatch ==
    ASSUME Inductive, NEW phase, phase # "none", InTake(phase)
    PROVE  /\ stack # <<>> /\ Top.kind = "take" /\ take.phase = phase
           /\ take \in TakeType /\ take \in Takes
           /\ take.config \in TakeConfigType /\ take.config.legs # <<>>
           /\ take.i \in Nat /\ take.i >= 1 /\ take.remaining \in Nat
           /\ take.totalIn \in Nat /\ take.totalOut \in Nat
           /\ take.taken \in Seq(Legs)
           /\ ledger \in Ledgers /\ live \subseteq Orders /\ store \in [Accounts -> Nat]
           /\ Lent \in [Tokens -> Nat]
           /\ Balanced(ledger, Lent, take)
           /\ SlotsAccrued(ledger, take)
           /\ \A j \in DOMAIN take.taken : take.taken[j].order \in live
           /\ \A o \in Accounts : store[o] <= Budget[o]
<1>1. stack # <<>> /\ Top.kind = "take" /\ take.phase = phase
  BY DEF InTake
<1>2. TypeOK /\ BatchOK(take) /\ Sound(Saved, Lent, take)
  BY DEF Inductive
<1>3. take \in TakeType /\ take \in Takes
  BY <1>1, <1>2, TakePhases DEF TypeOK, Takes
<1>4. take.config.legs # <<>> /\ take.i >= 1
  BY <1>1, <1>2 DEF BatchOK
<1>5. /\ Balanced(ledger, Lent, take) /\ SlotsAccrued(ledger, take)
      /\ \A j \in DOMAIN take.taken : take.taken[j].order \in live
      /\ \A o \in Accounts : store[o] <= Budget[o]
  BY <1>1, <1>2 DEF Sound, Saved
<1> QED
  BY <1>1, <1>2, <1>3, <1>4, <1>5, TakeFields, SoundNow DEF TypeOK

LEMMA SoundParts ==
    ASSUME NEW lent, NEW tk, Balanced(ledger', lent, tk), SlotsAccrued(ledger', tk),
           \A j \in DOMAIN tk.taken : tk.taken[j].order \in live',
           \A o \in Accounts : store'[o] <= Budget[o]
    PROVE  Sound(Saved', lent, tk)
<1>1. Saved'.ledger = ledger' /\ Saved'.live = live' /\ Saved'.store = store'
  BY DEF Saved
<1> QED
  BY <1>1 DEF Sound

LEMMA TakeSkipStep ==
    ASSUME Inductive, TakeSkip
    PROVE  Inductive'
<1>1. /\ InTake("loop") /\ take' = [take EXCEPT !.i = @ + 1, !.ext = FALSE]
      /\ ledger' = ledger /\ live' = live /\ store' = store /\ entered' = entered /\ stack' = stack
  BY DEF TakeSkip
<1>2. /\ stack # <<>> /\ Top.kind = "take" /\ take.phase = "loop" /\ take \in TakeType
      /\ take.config.legs # <<>> /\ take.i \in Nat /\ take.i >= 1
      /\ ledger \in Ledgers /\ live \subseteq Orders /\ store \in [Accounts -> Nat]
      /\ Balanced(ledger, Lent, take) /\ SlotsAccrued(ledger, take)
      /\ \A j \in DOMAIN take.taken : take.taken[j].order \in live
      /\ \A o \in Accounts : store[o] <= Budget[o]
  BY <1>1, InBatch
<1>3. take' \in TakeType
  <2> DEFINE n == take.i + 1
             e == FALSE
  <2>1. take' = [take EXCEPT !.i = n, !.ext = e]
    BY <1>1
  <2>2. n \in Nat /\ e \in BOOLEAN
    BY <1>2
  <2> HIDE DEF n, e
  <2> QED
    BY <1>2, <2>1, <2>2 DEF TakeType
<1>4. /\ take'.phase = "loop" /\ take'.config = take.config /\ take'.taken = take.taken
      /\ take'.totalIn = take.totalIn /\ take'.totalOut = take.totalOut /\ take'.i = take.i + 1
  BY <1>1, <1>2 DEF TakeType
<1>5. BatchOK(take')
  BY <1>2, <1>4 DEF BatchOK
<1>6. Balanced(ledger', Lent, take')
  <2>1. \A t \in Tokens : Due(take', t) = Due(take, t)
    BY <1>2, <1>4 DEF Due
  <2> QED
    BY <1>1, <1>2, <2>1 DEF Balanced
<1>7. SlotsAccrued(ledger', take')
  <2>1. ASSUME NEW o \in Accounts, NEW t \in Tokens, Accruing(take, o, t)
        PROVE  Accruing(take', o, t)
    BY <1>2, <1>4, <2>1 DEF Accruing
  <2> QED
    BY <1>1, <1>2, <2>1 DEF SlotsAccrued
<1>8. \A j \in DOMAIN take'.taken : take'.taken[j].order \in live'
  BY <1>1, <1>2, <1>4
<1>9. Sound(Saved', Lent, take')
  BY <1>1, <1>2, <1>6, <1>7, <1>8, SoundParts
<1> QED
  BY <1>1, <1>2, <1>3, <1>5, <1>9, BatchStep

LEMMA AppendLeg ==
    ASSUME NEW s \in Seq(Legs), NEW leg \in Legs
    PROVE  /\ Append(s, leg) \in Seq(Legs)
           /\ DOMAIN s = 1 .. Len(s) /\ DOMAIN Append(s, leg) = 1 .. (Len(s) + 1)
           /\ Len(s) \in Nat
           /\ \A j \in 1 .. Len(s) : Append(s, leg)[j] = s[j]
           /\ Append(s, leg)[Len(s) + 1] = leg
  BY AppendProperties, LenProperties

\* An order is taken: its vaults are debited and credited, and the batch is due
\* the same amounts of and from its taker.
LEMMA TakeOrderStep ==
    ASSUME Inductive, TakeOrder
    PROVE  Inductive'
<1> DEFINE c == take.config
           leg == take.config.legs[take.i]
           o == leg.order.owner
<1>0. InTake("loop")
  BY DEF TakeOrder
<1>1. /\ take.i <= Len(take.config.legs) /\ take.remaining > 0
      /\ leg.in.token = InputToken(c) /\ leg.out.token = OutputToken(c)
      /\ leg.order \in live
      /\ live' = live /\ entered' = entered /\ stack' = stack
  BY DEF TakeOrder, MoreOrders, LegMatches, Leg, IsLive
<1>2. /\ stack # <<>> /\ Top.kind = "take" /\ take.phase = "loop"
      /\ take \in TakeType /\ take \in Takes
      /\ take.config \in TakeConfigType /\ take.config.legs # <<>>
      /\ take.i \in Nat /\ take.i >= 1 /\ take.remaining \in Nat
      /\ take.totalIn \in Nat /\ take.totalOut \in Nat /\ take.taken \in Seq(Legs)
      /\ ledger \in Ledgers /\ live \subseteq Orders /\ store \in [Accounts -> Nat]
      /\ Lent \in [Tokens -> Nat] /\ Balanced(ledger, Lent, take) /\ SlotsAccrued(ledger, take)
      /\ \A j \in DOMAIN take.taken : take.taken[j].order \in live
      /\ \A a \in Accounts : store[a] <= Budget[a]
  BY <1>0, InBatch
<1>3. PICK q \in calculateOrderIO(leg) :
        LET io    == TakerIO(take.config.IOIsInput, q, take.remaining)
            spent == RelevantIO(take.config.IOIsInput, io.input, io.output)
        IN  /\ IsTaken(q, take.config.maximumIORatio)
            /\ CanDecrease(ledger, o, leg.out.token, leg.out.vault, io.input)
            /\ ledger' = recordVaultInput(recordVaultOutput(ledger, o, leg.out, io.input),
                                          o, leg.in, io.output)
            /\ store' = handleIO(store, leg, io.input)
            /\ take' = [take EXCEPT !.i = @ + 1, !.remaining = @ - spent,
                                    !.totalIn = @ + io.input, !.totalOut = @ + io.output,
                                    !.taken = Append(@, leg), !.ext = TRUE]
  BY DEF TakeOrder, Leg
<1> DEFINE io == TakerIO(c.IOIsInput, q, take.remaining)
           a == io.input
           b == io.output
           spent == RelevantIO(c.IOIsInput, a, b)
           L == recordVaultOutput(ledger, o, leg.out, a)
<1>4. /\ IsTaken(q, c.maximumIORatio)
      /\ CanDecrease(ledger, o, leg.out.token, leg.out.vault, a)
      /\ ledger' = recordVaultInput(L, o, leg.in, b)
      /\ store' = handleIO(store, leg, a)
      /\ take' = [take EXCEPT !.i = @ + 1, !.remaining = @ - spent, !.totalIn = @ + a,
                              !.totalOut = @ + b, !.taken = Append(@, leg), !.ext = TRUE]
  BY <1>3
<1>5. c.IOIsInput \in BOOLEAN /\ c.maximumIORatio \in Ratios /\ c.legs \in Seq(Legs)
  BY <1>2, ConfigTokens
<1>6. leg \in Legs
  BY <1>1, <1>2, <1>5, LenProperties
<1> HIDE DEF leg
<1>7. /\ leg.order \in Orders /\ o \in Accounts
      /\ leg.in \in [token : Tokens, vault : VaultIds]
      /\ leg.out \in [token : Tokens, vault : VaultIds]
      /\ leg.in.token \in Tokens /\ leg.out.token \in Tokens
      /\ leg.in = [token |-> leg.in.token, vault |-> leg.in.vault]
  BY <1>6, LegFields
<1>8. q \in Calculations /\ q.max <= Budget[o] - store[o]
  BY <1>2, <1>6, CalculationBounds
<1>9. a \in Nat /\ b \in Nat /\ a <= q.max /\ spent <= take.remaining
  BY <1>2, <1>4, <1>5, <1>8, TakerIOCorrect
<1>10. spent \in Nat
  BY <1>5, <1>9 DEF RelevantIO
<1> HIDE DEF io, a, b, spent, o
<1>11. Moves(ledger, L, leg.out.token, a) /\ SameSlots(ledger, L)
  BY <1>2, <1>4, <1>7, <1>9, OutputLeg
<1>12. L \in Ledgers
  BY <1>11 DEF Moves
<1> HIDE DEF L
<1>13. /\ Moves(L, ledger', leg.in.token, -b)
       /\ \A p \in Accounts, t \in Tokens :
             (leg.in.vault = 0 /\ p = o /\ t = leg.in.token)
               \/ ledger'.vault[p][t][0] = L.vault[p][t][0]
  BY <1>4, <1>7, <1>9, <1>12, RecordInputMoves
<1>14. ledger' \in Ledgers
  BY <1>13 DEF Moves
<1> DEFINE n == take.i + 1
           r == take.remaining - spent
           ti == take.totalIn + a
           to == take.totalOut + b
           s == Append(take.taken, leg)
           e == TRUE
<1>15. n \in Nat /\ r \in Nat /\ ti \in Nat /\ to \in Nat /\ e \in BOOLEAN
  <2>1. /\ take.i \in Nat /\ take.remaining \in Nat
        /\ take.totalIn \in Nat /\ take.totalOut \in Nat
    BY <1>2
  <2>2. n \in Nat /\ ti \in Nat /\ to \in Nat
    BY <1>9, <2>1
  <2>3. r \in Nat
    BY <1>9, <1>10, <2>1
  <2> QED
    BY <2>2, <2>3
<1>16. /\ s \in Seq(Legs) /\ DOMAIN take.taken = 1 .. Len(take.taken)
       /\ DOMAIN s = 1 .. (Len(take.taken) + 1) /\ Len(take.taken) \in Nat
       /\ \A j \in 1 .. Len(take.taken) : s[j] = take.taken[j]
       /\ s[Len(take.taken) + 1] = leg
  BY <1>2, <1>6, AppendLeg
<1>17. take' = [take EXCEPT !.i = n, !.remaining = r, !.totalIn = ti, !.totalOut = to,
                            !.taken = s, !.ext = e]
  BY <1>4
<1> HIDE DEF n, r, ti, to, s, e
<1>18. take' \in TakeType
  BY <1>2, <1>15, <1>16, <1>17 DEF TakeType
<1>19. /\ take'.phase = "loop" /\ take'.config = take.config /\ take'.taken = s
       /\ take'.totalIn = ti /\ take'.totalOut = to /\ take'.i = n
  BY <1>2, <1>17 DEF TakeType
<1>20. BatchOK(take')
  BY <1>2, <1>19 DEF BatchOK, n
<1>21. Balanced(ledger', Lent, take')
  <2>1. ASSUME NEW t \in Tokens
        PROVE  Position(ledger', t) + FromUnits(t, Lent[t]) + Due(take', t)
                 = Position(ledger, t) + FromUnits(t, Lent[t]) + Due(take, t)
    <3> DEFINE x == IF t = InputToken(c) THEN b ELSE 0
               y == IF t = OutputToken(c) THEN a ELSE 0
    <3>1. /\ Position(ledger, t) \in Int /\ FromUnits(t, Lent[t]) \in Int /\ Due(take, t) \in Int
          /\ x \in Int /\ y \in Int
      BY <1>2, <1>9, PositionInt, UnitsInt, DueInt
    <3>2. Due(take', t) = Due(take, t) + x - y
      BY <1>2, <1>9, <1>19 DEF Due, ti, to
    <3>3. Position(ledger', t) = Position(ledger, t) + y - x
      BY <1>1, <1>9, <1>11, <1>13, <3>1 DEF Moves
    <3> HIDE DEF x, y
    <3> QED
      BY <3>1, <3>2, <3>3
  <2>2. take' \in Takes
    BY <1>18 DEF Takes
  <2> QED
    BY <1>2, <1>14, <2>1, <2>2, KeepBalanced
<1>22. SlotsAccrued(ledger', take')
  <2>1. ASSUME NEW p \in Accounts, NEW t \in Tokens, Accruing(take, p, t)
        PROVE  Accruing(take', p, t)
    <3>1. PICK j \in DOMAIN take.taken :
             /\ take.taken[j].order.owner = p
             /\ take.taken[j].in = [token |-> t, vault |-> 0]
      BY <2>1 DEF Accruing
    <3>2. j \in DOMAIN s /\ s[j] = take.taken[j]
      BY <1>16
    <3> QED
      BY <1>19, <3>1, <3>2 DEF Accruing
  <2>2. ASSUME leg.in.vault = 0
        PROVE  Accruing(take', o, leg.in.token)
    <3>1. Len(take.taken) + 1 \in DOMAIN s
      BY <1>16
    <3>2. s[Len(take.taken) + 1].order.owner = o
      BY <1>16 DEF o
    <3>3. s[Len(take.taken) + 1].in = [token |-> leg.in.token, vault |-> 0]
      BY <1>7, <1>16, <2>2
    <3> QED
      BY <1>19, <3>1, <3>2, <3>3 DEF Accruing
  <2>3. ASSUME NEW p \in Accounts, NEW t \in Tokens, ledger'.vault[p][t][0] # 0
        PROVE  Accruing(take', p, t)
    <3>1. CASE leg.in.vault = 0 /\ p = o /\ t = leg.in.token
      BY <2>2, <3>1
    <3>2. CASE ledger'.vault[p][t][0] = L.vault[p][t][0]
      <4>1. ledger.vault[p][t][0] # 0
        BY <1>11, <2>3, <3>2 DEF SameSlots
      <4> QED
        BY <1>2, <2>1, <4>1 DEF SlotsAccrued
    <3> QED
      BY <1>13, <3>1, <3>2
  <2> QED
    BY <2>3 DEF SlotsAccrued
<1>23. \A j \in DOMAIN take'.taken : take'.taken[j].order \in live'
  <2>1. /\ live' = live /\ leg.order \in live /\ take'.taken = s
        /\ \A j \in DOMAIN take.taken : take.taken[j].order \in live
    BY <1>1, <1>2, <1>19
  <2> HIDE DEF s
  <2> QED
    BY <1>16, <2>1
<1>24. store' \in [Accounts -> Nat] /\ \A p \in Accounts : store'[p] <= Budget[p]
  <2>1. /\ store' \in [Accounts -> Nat]
        /\ \A p \in Accounts : store'[p] = IF p = o THEN store[p] + a ELSE store[p]
    <3>1. store \in [Accounts -> Nat] /\ a \in Nat /\ store' = handleIO(store, leg, a)
      BY <1>2, <1>4, <1>9
    <3> QED
      BY <1>6, <3>1, HandledStore DEF o
  <2>2. /\ \A p \in Accounts : store[p] \in Nat /\ Budget[p] \in Nat
        /\ q.max \in Int
    BY <1>2, <1>8, RaindexAssumption DEF Calculations
  <2>3. ASSUME NEW p \in Accounts
        PROVE  store'[p] <= Budget[p]
    <3>1. CASE p = o
      <4>1. store'[p] = store[p] + a /\ q.max <= Budget[p] - store[p]
        BY <1>8, <2>1, <3>1
      <4> QED
        BY <1>9, <2>2, <4>1
    <3>2. CASE p # o
      BY <1>2, <2>1, <3>2
    <3> QED
      BY <3>1, <3>2
  <2> QED
    BY <2>1, <2>3
<1>25. Sound(Saved', Lent, take')
  BY <1>21, <1>22, <1>23, <1>24, SoundParts
<1> QED
  BY <1>1, <1>2, <1>14, <1>18, <1>20, <1>24, <1>25, BatchStep

LEMMA TakeSendStep ==
    ASSUME Inductive, TakeSend
    PROVE  Inductive'
<1> DEFINE c == take.config
           x == OutputToken(c)
           e == take.config.data /\ take.taken # <<>>
<1>1. /\ InTake("loop") /\ CanPush(ledger, x, take.totalIn)
      /\ ledger' = pushTokens(ledger, c.taker, x, take.totalIn)
      /\ take' = [take EXCEPT !.phase = "sent", !.i = 1, !.ext = e]
      /\ live' = live /\ store' = store /\ entered' = entered /\ stack' = stack
  BY DEF TakeSend
<1>2. /\ stack # <<>> /\ Top.kind = "take" /\ take.phase = "loop"
      /\ take \in TakeType /\ take \in Takes
      /\ take.config \in TakeConfigType /\ take.config.legs # <<>>
      /\ take.totalIn \in Nat /\ take.totalOut \in Nat /\ take.taken \in Seq(Legs)
      /\ ledger \in Ledgers /\ store \in [Accounts -> Nat]
      /\ Lent \in [Tokens -> Nat] /\ Balanced(ledger, Lent, take) /\ SlotsAccrued(ledger, take)
      /\ \A j \in DOMAIN take.taken : take.taken[j].order \in live
      /\ \A a \in Accounts : store[a] <= Budget[a]
  BY <1>1, InBatch
<1>3. x \in Tokens /\ c.taker \in Accounts
  BY <1>2, ConfigTokens
<1>4. e \in BOOLEAN
  OBVIOUS
<1> HIDE DEF e, x
<1>5. take' \in TakeType
  BY <1>1, <1>2, <1>4 DEF TakeType
<1>6. /\ take'.phase = "sent" /\ take'.config = take.config /\ take'.taken = take.taken
      /\ take'.totalIn = take.totalIn /\ take'.totalOut = take.totalOut /\ take'.i = 1
  BY <1>1, <1>2 DEF TakeType
<1>7. BatchOK(take')
  BY <1>2, <1>6 DEF BatchOK
<1>8. Moves(ledger, ledger', x, -take.totalIn) /\ ledger'.vault = ledger.vault
  BY <1>1, <1>2, <1>3, PushMoves
<1>9. ledger' \in Ledgers
  BY <1>8 DEF Moves
<1>10. Balanced(ledger', Lent, take')
  <2>1. ASSUME NEW t \in Tokens
        PROVE  Position(ledger', t) + FromUnits(t, Lent[t]) + Due(take', t)
                 = Position(ledger, t) + FromUnits(t, Lent[t]) + Due(take, t)
    <3> DEFINE y == IF t = x THEN take.totalIn ELSE 0
    <3>1. /\ Position(ledger, t) \in Int /\ FromUnits(t, Lent[t]) \in Int /\ Due(take, t) \in Int
          /\ y \in Int
      <4>1. Lent[t] \in Nat /\ ledger \in Ledgers /\ take \in Takes /\ take.totalIn \in Nat
        BY <1>2
      <4>2. Position(ledger, t) \in Int
        BY <4>1, PositionInt
      <4>3. FromUnits(t, Lent[t]) \in Int
        BY <4>1, UnitsInt
      <4>4. Due(take, t) \in Int
        BY <4>1, DueInt
      <4> QED
        BY <4>1, <4>2, <4>3, <4>4
    <3>2. Due(take', t) = Due(take, t) + y
      BY <1>2, <1>6 DEF Due, x
    <3>3. Position(ledger', t) = Position(ledger, t) - y
      BY <1>2, <1>8, <3>1 DEF Moves
    <3> HIDE DEF y
    <3> QED
      BY <3>1, <3>2, <3>3
  <2>2. take' \in Takes
    BY <1>5 DEF Takes
  <2> QED
    BY <1>2, <1>9, <2>1, <2>2, KeepBalanced
<1>11. SlotsAccrued(ledger', take')
  <2>1. ASSUME NEW p \in Accounts, NEW t \in Tokens, Accruing(take, p, t)
        PROVE  Accruing(take', p, t)
    BY <1>6, <2>1 DEF Accruing
  <2> QED
    BY <1>2, <1>8, <2>1 DEF SlotsAccrued
<1>12. \A j \in DOMAIN take'.taken : take'.taken[j].order \in live'
  BY <1>1, <1>2, <1>6
<1>13. Sound(Saved', Lent, take')
  BY <1>1, <1>2, <1>10, <1>11, <1>12, SoundParts
<1> QED
  BY <1>1, <1>2, <1>5, <1>7, <1>9, <1>13, BatchStep

LEMMA TakePayStep ==
    ASSUME Inductive, TakePay
    PROVE  Inductive'
<1> DEFINE c == take.config
           x == InputToken(c)
           e == FALSE
<1>1. /\ InTake("sent") /\ CanPull(ledger, c.taker, x, take.totalOut)
      /\ ledger' = pullTokens(ledger, c.taker, x, take.totalOut)
      /\ take' = [take EXCEPT !.phase = "flush", !.ext = e]
      /\ live' = live /\ store' = store /\ entered' = entered /\ stack' = stack
  BY DEF TakePay
<1>2. /\ stack # <<>> /\ Top.kind = "take" /\ take.phase = "sent"
      /\ take \in TakeType /\ take \in Takes
      /\ take.config \in TakeConfigType /\ take.config.legs # <<>>
      /\ take.i \in Nat /\ take.i >= 1
      /\ take.totalIn \in Nat /\ take.totalOut \in Nat /\ take.taken \in Seq(Legs)
      /\ ledger \in Ledgers /\ store \in [Accounts -> Nat]
      /\ Lent \in [Tokens -> Nat] /\ Balanced(ledger, Lent, take) /\ SlotsAccrued(ledger, take)
      /\ \A j \in DOMAIN take.taken : take.taken[j].order \in live
      /\ \A a \in Accounts : store[a] <= Budget[a]
  BY <1>1, InBatch
<1>3. x \in Tokens /\ c.taker \in Accounts
  BY <1>2, ConfigTokens
<1>4. e \in BOOLEAN
  OBVIOUS
<1> HIDE DEF e, x
<1>5. take' \in TakeType
  BY <1>1, <1>2, <1>4 DEF TakeType
<1>6. /\ take'.phase = "flush" /\ take'.config = take.config /\ take'.taken = take.taken
      /\ take'.i = take.i
  BY <1>1, <1>2 DEF TakeType
<1>7. BatchOK(take')
  BY <1>2, <1>6 DEF BatchOK
<1>8. Moves(ledger, ledger', x, take.totalOut) /\ ledger'.vault = ledger.vault
  BY <1>1, <1>2, <1>3, PullMoves
<1>9. ledger' \in Ledgers
  BY <1>8 DEF Moves
<1>10. Balanced(ledger', Lent, take')
  <2>1. ASSUME NEW t \in Tokens
        PROVE  Position(ledger', t) + FromUnits(t, Lent[t]) + Due(take', t)
                 = Position(ledger, t) + FromUnits(t, Lent[t]) + Due(take, t)
    <3> DEFINE y == IF t = x THEN take.totalOut ELSE 0
    <3>1. /\ Position(ledger, t) \in Int /\ FromUnits(t, Lent[t]) \in Int
          /\ y \in Int
      <4>1. Lent[t] \in Nat /\ ledger \in Ledgers /\ take.totalOut \in Nat
        BY <1>2
      <4>2. Position(ledger, t) \in Int
        BY <4>1, PositionInt
      <4>3. FromUnits(t, Lent[t]) \in Int
        BY <4>1, UnitsInt
      <4> QED
        BY <4>1, <4>2, <4>3
    <3>2. Due(take', t) = 0 /\ Due(take, t) = y
      BY <1>2, <1>6 DEF Due, x
    <3>3. Position(ledger', t) = Position(ledger, t) + y
      BY <1>2, <1>8, <3>1 DEF Moves
    <3> HIDE DEF y
    <3> QED
      BY <3>1, <3>2, <3>3
  <2>2. take' \in Takes
    BY <1>5 DEF Takes
  <2> QED
    BY <1>2, <1>9, <2>1, <2>2, KeepBalanced
<1>11. SlotsAccrued(ledger', take')
  <2>1. take'.i = 1
    <3>1. BatchOK(take)
      BY DEF Inductive
    <3> QED
      BY <1>2, <1>6, <3>1 DEF BatchOK
  <2>2. DOMAIN take.taken = 1 .. Len(take.taken)
    BY <1>2, LenProperties
  <2>3. ASSUME NEW p \in Accounts, NEW t \in Tokens, Accruing(take, p, t)
        PROVE  Accruing(take', p, t)
    <3>1. PICK j \in DOMAIN take.taken :
             /\ take.taken[j].order.owner = p
             /\ take.taken[j].in = [token |-> t, vault |-> 0]
      BY <2>3 DEF Accruing
    <3>2. j >= take'.i
      BY <2>1, <2>2
    <3> QED
      BY <1>6, <3>1, <3>2 DEF Accruing
  <2> QED
    BY <1>2, <1>8, <2>3 DEF SlotsAccrued
<1>12. \A j \in DOMAIN take'.taken : take'.taken[j].order \in live'
  BY <1>1, <1>2, <1>6
<1>13. Sound(Saved', Lent, take')
  BY <1>1, <1>2, <1>10, <1>11, <1>12, SoundParts
<1> QED
  BY <1>1, <1>2, <1>5, <1>7, <1>9, <1>13, BatchStep

\* A flush empties the slot of its order, so what is left belongs to later ones.
LEMMA TakeFlushStep ==
    ASSUME Inductive, TakeFlush
    PROVE  Inductive'
<1> DEFINE leg == take.taken[take.i]
           o == leg.order.owner
<1>1. /\ InTake("flush") /\ take.i <= Len(take.taken)
      /\ CanPush(ledger, leg.in.token, Accrued(ledger, o, leg.in))
      /\ ledger' = pushVaultZeroInput(ledger, o, leg.in)
      /\ take' = [take EXCEPT !.i = @ + 1]
      /\ live' = live /\ store' = store /\ entered' = entered /\ stack' = stack
  BY DEF TakeFlush
<1>2. /\ stack # <<>> /\ Top.kind = "take" /\ take.phase = "flush"
      /\ take \in TakeType /\ take \in Takes
      /\ take.config.legs # <<>> /\ take.i \in Nat /\ take.i >= 1
      /\ take.taken \in Seq(Legs)
      /\ ledger \in Ledgers /\ store \in [Accounts -> Nat]
      /\ Lent \in [Tokens -> Nat] /\ Balanced(ledger, Lent, take) /\ SlotsAccrued(ledger, take)
      /\ \A j \in DOMAIN take.taken : take.taken[j].order \in live
      /\ \A a \in Accounts : store[a] <= Budget[a]
  BY <1>1, InBatch
<1>3. DOMAIN take.taken = 1 .. Len(take.taken) /\ Len(take.taken) \in Nat /\ leg \in Legs
  BY <1>1, <1>2, LenProperties
<1> DEFINE n == take.i + 1
<1>4. n \in Nat /\ take' = [take EXCEPT !.i = n]
  BY <1>1, <1>2
<1>5. /\ take' \in TakeType /\ take'.phase = "flush" /\ take'.config = take.config
      /\ take'.taken = take.taken /\ take'.i = n
  <2> HIDE DEF n
  <2> QED
    BY <1>2, <1>4 DEF TakeType
<1>6. BatchOK(take')
  BY <1>2, <1>5 DEF BatchOK
<1> HIDE DEF leg
<1>7. o \in Accounts /\ leg.in \in [token : Tokens, vault : VaultIds] /\ leg.in.token \in Tokens
  BY <1>3, LegFields
<1> HIDE DEF o
<1>8. /\ Moves(ledger, ledger', leg.in.token, 0)
      /\ \A p \in Accounts, t \in Tokens :
            ledger'.vault[p][t][0] =
               IF leg.in.vault = 0 /\ p = o /\ t = leg.in.token THEN 0 ELSE ledger.vault[p][t][0]
  BY <1>1, <1>2, <1>7, FlushMoves
<1>9. ledger' \in Ledgers /\ Balanced(ledger', Lent, take)
  BY <1>2, <1>7, <1>8, KeepBalancedMoves
<1>10. Balanced(ledger', Lent, take')
  <2>1. \A t \in Tokens : Due(take', t) = Due(take, t)
    BY <1>2, <1>5 DEF Due
  <2> QED
    BY <1>9, <2>1 DEF Balanced
<1>11. SlotsAccrued(ledger', take')
  <2>1. ASSUME NEW p \in Accounts, NEW t \in Tokens, ledger'.vault[p][t][0] # 0
        PROVE  Accruing(take', p, t)
    <3>1. ledger.vault[p][t][0] # 0 /\ ~(leg.in.vault = 0 /\ p = o /\ t = leg.in.token)
      BY <1>8, <2>1
    <3>2. Accruing(take, p, t)
      BY <1>2, <3>1 DEF SlotsAccrued
    <3>3. PICK j \in DOMAIN take.taken :
             /\ j >= take.i
             /\ take.taken[j].order.owner = p
             /\ take.taken[j].in = [token |-> t, vault |-> 0]
      BY <1>2, <3>2 DEF Accruing
    <3>4. j # take.i
      BY <3>1, <3>3 DEF o, leg
    <3>5. j >= take'.i
      BY <1>2, <1>3, <1>5, <3>3, <3>4
    <3> QED
      BY <1>5, <3>3, <3>5 DEF Accruing
  <2> QED
    BY <2>1 DEF SlotsAccrued
<1>12. \A j \in DOMAIN take'.taken : take'.taken[j].order \in live'
  BY <1>1, <1>2, <1>5
<1>13. Sound(Saved', Lent, take')
  BY <1>1, <1>2, <1>10, <1>11, <1>12, SoundParts
<1> QED
  BY <1>1, <1>2, <1>5, <1>6, <1>9, <1>13, BatchStep
=============================================================================
