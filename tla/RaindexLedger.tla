---------------------------- MODULE RaindexLedger ----------------------------
(***************************************************************************)
(* The money of RaindexV7: its vault balances, the ERC20 balances and      *)
(* allowances it moves, and the internal functions that move them          *)
(* (src/concrete/raindex/RaindexV7.sol).  A ledger is a record             *)
(*                                                                         *)
(*   vault   sVaultBalances: owner, token and vault id to a Float          *)
(*   wallet  IERC20.balanceOf, in base units, the contract included        *)
(*   allow   IERC20.allowance(owner, raindex), in base units               *)
(*   dust    history: what the roundings of pull and push, and plain       *)
(*           transfers to the contract, left in it attributed to no vault  *)
(*                                                                         *)
(* A Float amount is a number of quanta; one base unit of token t is       *)
(* Unit[t] quanta, so an amount that is no multiple of Unit[t] converts    *)
(* to base units with loss.  Every function that the code writes as a      *)
(* mutation is an operator from a ledger to a ledger, and CanX says that   *)
(* the call X does not revert.                                             *)
(***************************************************************************)
EXTENDS RaindexFloat, FiniteSets

CONSTANTS
    Accounts,   \* addresses that own wallets, vaults and orders
    Raindex,    \* the address of the contract
    Tokens,     \* ERC20 tokens
    VaultIds,   \* vault ids; 0 is the owner's wallet
    Unit,       \* quanta of a Float per base unit of a token
    MaxUint     \* type(uint256).max, the allowance that is never used up

ASSUME LedgerAssumption ==
    /\ IsFiniteSet(Accounts)
    /\ Raindex \notin Accounts
    /\ IsFiniteSet(VaultIds)
    /\ 0 \in VaultIds
    /\ Unit \in [Tokens -> Nat \ {0}]
    /\ MaxUint \in Nat

Holders == Accounts \cup {Raindex}

Ledgers ==
    [vault  : [Accounts -> [Tokens -> [VaultIds -> Nat]]],
     wallet : [Holders -> [Tokens -> Nat]],
     allow  : [Accounts -> [Tokens -> Nat]],
     dust   : [Tokens -> Nat]]

-----------------------------------------------------------------------------
(* Float <-> fixed decimal conversions.                                    *)

FromUnits(t, n) == n * Unit[t]

ToUnits(t, q) == q \div Unit[t]

Lossless(t, q) == q % Unit[t] = 0

\* Mutant: a pull truncates as a push does.
PullUnitsTruncated(t, q) == ToUnits(t, q)

\* A lossy conversion is rounded up when tokens are pulled in.
PullUnits(t, q) == ToUnits(t, q) + (IF Lossless(t, q) THEN 0 ELSE 1)

-----------------------------------------------------------------------------
(* Transfers between the contract and an account.                          *)

\* The balances w after n base units of t have gone from one holder to another.
Moved(w, from, to, t, n) == [w EXCEPT ![from][t] = @ - n, ![to][t] = @ + n]

\* IERC20.transferFrom(a, raindex, n) with the allowance of the contract.
CanTransferIn(L, a, t, n) == n <= L.wallet[a][t] /\ n <= L.allow[a][t]

TransferIn(L, a, t, n) ==
    [L EXCEPT !.wallet = Moved(@, a, Raindex, t, n),
              !.allow[a][t] = IF @ = MaxUint THEN @ ELSE @ - n]

\* IERC20.transfer(a, n) by the contract.
CanTransferOut(L, t, n) == n <= L.wallet[Raindex][t]

TransferOut(L, a, t, n) ==
    [L EXCEPT !.wallet = Moved(@, Raindex, a, t, n)]

CanPull(L, a, t, q) == q >= 0 /\ CanTransferIn(L, a, t, PullUnits(t, q))

pullTokens(L, a, t, q) ==
    [TransferIn(L, a, t, PullUnits(t, q))
        EXCEPT !.dust[t] = @ + (FromUnits(t, PullUnits(t, q)) - q)]

CanPush(L, t, q) == q >= 0 /\ CanTransferOut(L, t, ToUnits(t, q))

\* Mutant: a push rounds a lossy amount up as a pull does.
pushTokensRoundedUp(L, a, t, q) ==
    [TransferOut(L, a, t, PullUnits(t, q))
        EXCEPT !.dust[t] = @ + (q - FromUnits(t, PullUnits(t, q)))]

pushTokens(L, a, t, q) ==
    [TransferOut(L, a, t, ToUnits(t, q))
        EXCEPT !.dust[t] = @ + (q - FromUnits(t, ToUnits(t, q)))]

-----------------------------------------------------------------------------
(* Vault balances.                                                         *)

\* The effective balance: vault 0 is the wallet capped by the allowance, plus
\* what the running batch has accrued in its slot.
vaultBalance(L, o, t, v) ==
    IF v # 0 THEN L.vault[o][t][v]
    ELSE FromUnits(t, MinOf(L.wallet[o][t], L.allow[o][t])) + L.vault[o][t][0]

Credit(L, o, t, v, q) == [L EXCEPT !.vault[o][t][v] = @ + q]

Debit(L, o, t, v, q) == [L EXCEPT !.vault[o][t][v] = @ - q]

CanIncrease(L, t, v, q) == q >= 0 /\ (v = 0 => CanPush(L, t, q))

increaseVaultBalance(L, o, t, v, q) ==
    IF v = 0 THEN pushTokens(L, o, t, q) ELSE Credit(L, o, t, v, q)

CanDecrease(L, o, t, v, q) ==
    /\ q >= 0
    /\ IF v = 0 THEN CanPull(L, o, t, q) ELSE q <= L.vault[o][t][v]

decreaseVaultBalance(L, o, t, v, q) ==
    IF v = 0 THEN pullTokens(L, o, t, q) ELSE Debit(L, o, t, v, q)

\* The output leg of a trade.
recordVaultOutput(L, o, io, q) == decreaseVaultBalance(L, o, io.token, io.vault, q)

\* The input leg: a vault 0 input accrues in the slot instead of being pushed.
recordVaultInput(L, o, io, q) ==
    IF io.vault = 0 THEN Credit(L, o, io.token, 0, q)
    ELSE increaseVaultBalance(L, o, io.token, io.vault, q)

\* Pushes out what a vault 0 input accrued; a no-op for any other vault and
\* for a slot that an earlier order of the same owner already flushed.
Accrued(L, o, io) == IF io.vault = 0 THEN L.vault[o][io.token][0] ELSE 0

\* Mutant: the slot is not reset before its balance is pushed.
pushVaultZeroInputUnreset(L, o, io) ==
    pushTokens(L, o, io.token, Accrued(L, o, io))

\* Mutant: the accrued balance is never pushed.
pushVaultZeroInputSkipped(L, o, io) == L

pushVaultZeroInput(L, o, io) ==
    LET q == Accrued(L, o, io)
    IN  IF q = 0 THEN L
        ELSE pushTokens(Debit(L, o, io.token, 0, q), o, io.token, q)

-----------------------------------------------------------------------------
(* The sum of a function from a finite set to naturals, as the size of a   *)
(* pile with f[k] items for every k.                                       *)

Pile(f) == UNION {{k} \X (1 .. f[k]) : k \in DOMAIN f}

Total(f) == Cardinality(Pile(f))

\* What the vaults promise to their owners of token t.
Balances(L, t) == [k \in Accounts \X VaultIds |-> L.vault[k[1]][t][k[2]]]

Owed(L, t) == Total(Balances(L, t))
=============================================================================
