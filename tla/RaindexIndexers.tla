--------------------------- MODULE RaindexIndexers ---------------------------
(***************************************************************************)
(* The two indexes of the contract's vaults and orders that are built from *)
(* its events: the subgraph's, one handler per event (subgraph/src), and   *)
(* the local DB's, one window of blocks at a time (vault_deltas.sql and    *)
(* the statements that derive tables from it).  The contract here is what  *)
(* its events say of it: Raindex models the rest.                          *)
(***************************************************************************)
EXTENDS Integers, Sequences, FiniteSetsExt

CONSTANTS
    Tokens,
    Mute,          \* tokens that may fail to answer when the subgraph asks for their decimals
    VaultIds,      \* 0 is the owner's wallet
    Orders,        \* records with owner, nonce, and an input and an output [token, vault]
    Senders,       \* callers of clear4
    Bounties,      \* pairs of bounty vaults that callers of clear4 name
    Unit,          \* the Float amount of one base unit of a token
    Deposits,      \* Float amounts that are deposited and withdrawn
    Takes,         \* pairs of a taker's input and output
    ClearStates,   \* clear state changes without a spread
    MaxOps,        \* bound on the operations after the first block
    MaxBlock       \* bound on the blocks: the last is never mined and stays empty

Key(owner, io) == <<owner, io.token, io.vault>>
InKey(o) == Key(o.owner, o.input)
OutKey(o) == Key(o.owner, o.output)

Owners == {o.owner : o \in Orders}
Keys == (Owners \cup Senders) \X Tokens \X VaultIds

\* The nonces of a client are random, so those of one owner differ.
ASSUME IndexersAssumption ==
    /\ 0 \in VaultIds /\ Mute \subseteq Tokens /\ Unit \in Nat \ {0} /\ MaxOps \in Nat /\ MaxBlock \in Nat \ {0}
    /\ IsFiniteSet(Orders) /\ Orders # {} /\ Deposits \subseteq Nat /\ Takes \subseteq Nat \X Nat
    /\ Bounties \subseteq VaultIds \X VaultIds
    /\ ClearStates \subseteq [aliceOutput : Nat, aliceInput : Nat, bobOutput : Nat, bobInput : Nat]
    /\ \A o \in Orders : InKey(o) \in Keys /\ OutKey(o) \in Keys /\ o.input.token # o.output.token
    /\ \A o, p \in Orders : o.owner = p.owner /\ o.nonce = p.nonce => o = p
    /\ \A s \in ClearStates : s.aliceOutput >= s.bobInput /\ s.bobOutput >= s.aliceInput

VARIABLES
    log,     \* the contract's events
    vaults,  \* sVaultBalances
    dust,    \* what deposits have pulled above the Float amount that they credit
    live,    \* sOrders
    after,   \* after[i]: the contract when the operation of event i was over
    block, tx, ops,
    sg,      \* the subgraph
    db       \* the local DB's derived tables

vars == <<log, vaults, dust, live, after, block, tx, ops, sg, db>>

contract == <<log, vaults, dust, live, after, block, tx, ops>>

-----------------------------------------------------------------------------
(* The contract                                                            *)

\* Vault 0 has no balance of its own.
Moved(v, k, amount) == IF k[3] = 0 THEN v ELSE [v EXCEPT ![k] = @ + amount]

Covers(v, k, amount) == k[3] = 0 \/ v[k] >= amount

State(v, d, l) == [balance |-> [k \in Keys |-> v[k] + d[k]], live |-> l]

At(e) == [block |-> block, tx |-> tx, e |-> e]

\* The events of one operation and the state that it leaves.
Emit(events, v, d, l) ==
    /\ ops < MaxOps /\ block < MaxBlock
    /\ ops' = ops + 1
    /\ log' = log \o [i \in DOMAIN events |-> At(events[i])]
    /\ after' = after \o [i \in DOMAIN events |-> State(v, d, l)]
    /\ vaults' = v /\ dust' = d /\ live' = l
    /\ UNCHANGED <<block, tx, sg, db>>

\* What is pulled is rounded up to base units, and the event carries that.
Pulled(amount) == Unit * ((amount + Unit - 1) \div Unit)

deposit5(k, amount) ==
    /\ k[3] # 0
    /\ Emit(<<[kind |-> "DepositV2", key |-> k, amount |-> Pulled(amount)]>>,
            Moved(vaults, k, amount),
            Moved(dust, k, Pulled(amount) - amount), live)

withdraw5(k, target) ==
    LET amount == IF target < vaults[k] THEN target ELSE vaults[k]
    IN  /\ k[3] # 0
        /\ Emit(<<[kind |-> "WithdrawV2", key |-> k, amount |-> amount]>>,
                Moved(vaults, k, -amount), dust, live)

addOrder5(o) ==
    /\ o \notin live
    /\ Emit(<<[kind |-> "AddOrderV3", order |-> o]>>, vaults, dust, live \cup {o})

removeOrder4(o) ==
    /\ o \in live
    /\ Emit(<<[kind |-> "RemoveOrderV3", order |-> o]>>, vaults, dust, live \ {o})

\* One order of takeOrders5; input and output are the taker's.
takeOrder(o, input, output) ==
    /\ o \in live
    /\ Covers(vaults, OutKey(o), input)
    /\ Emit(<<[kind |-> "TakeOrderV4", order |-> o, input |-> input, output |-> output]>>,
            Moved(Moved(vaults, OutKey(o), -input), InKey(o), output), dust, live)

\* ClearV3 before the evaluation, AfterClearV2 after the vaults are settled.
clear4(alice, bob, sender, bounties, s) ==
    LET settled == Moved(Moved(Moved(Moved(vaults, OutKey(alice), -s.aliceOutput),
                                     OutKey(bob), -s.bobOutput),
                               InKey(alice), s.aliceInput), InKey(bob), s.bobInput)
        paid    == Moved(Moved(settled, <<sender, alice.output.token, bounties[1]>>, s.aliceOutput - s.bobInput),
                         <<sender, bob.output.token, bounties[2]>>, s.bobOutput - s.aliceInput)
    IN  /\ alice \in live /\ bob \in live /\ alice.owner # bob.owner
        /\ alice.output.token = bob.input.token /\ bob.output.token = alice.input.token
        /\ Covers(vaults, OutKey(alice), s.aliceOutput) /\ Covers(vaults, OutKey(bob), s.bobOutput)
        /\ Emit(<<[kind |-> "ClearV3", alice |-> alice, bob |-> bob, sender |-> sender,
                   bounties |-> bounties],
                  [kind |-> "AfterClearV2", sender |-> sender, change |-> s]>>,
                paid, dust, live)

\* Operations share a transaction (multicall, or one takeOrders5) until a new one begins.
NewTransaction ==
    /\ log[Len(log)].tx = tx /\ block < MaxBlock
    /\ tx' = tx + 1
    /\ UNCHANGED <<log, vaults, dust, live, after, block, ops, sg, db>>

Mine ==
    /\ block < MaxBlock
    /\ block' = block + 1
    /\ tx' = tx + 1
    /\ UNCHANGED <<log, vaults, dust, live, after, ops, sg, db>>

-----------------------------------------------------------------------------
(* The subgraph                                                            *)

Balanced(b, k, amount) == [b EXCEPT ![k] = @ + amount]

Event == log[sg.next]

\* Blocks are indexed once they are mined.
Handles(kind) == sg.next <= Len(log) /\ Event.block < block /\ Event.e.kind = kind

\* getERC20Entity: a token's decimals are asked for once, when an event first names it,
\* at that event's block; a call that reverts is stored as null and never made again.  What
\* the token answers is up to the token: an order may name it before it has code.
Asked(tokens) ==
    {erc20 \in [Tokens -> {"none", "null", "read"}] :
        \A t \in Tokens :
            IF t \in tokens /\ sg.erc20[t] = "none"
            THEN erc20[t] = "read" \/ (t \in Mute /\ erc20[t] = "null")
            ELSE erc20[t] = sg.erc20[t]}

Indexed(erc20, balance, active, temp) ==
    /\ sg' = [next |-> sg.next + 1, erc20 |-> erc20, balance |-> balance, active |-> active, temp |-> temp]
    /\ UNCHANGED <<contract, db>>

\* The event carries base units: without decimals the deposit is left out.
handleDeposit ==
    /\ Handles("DepositV2")
    /\ \E erc20 \in Asked({Event.e.key[2]}) :
          Indexed(erc20,
                  IF erc20[Event.e.key[2]] = "null" THEN sg.balance
                  ELSE Balanced(sg.balance, Event.e.key, Event.e.amount),
                  sg.active, sg.temp)

handleWithdraw ==
    /\ Handles("WithdrawV2")
    /\ \E erc20 \in Asked({Event.e.key[2]}) :
          Indexed(erc20, Balanced(sg.balance, Event.e.key, -Event.e.amount), sg.active, sg.temp)

TokensOf(o) == {o.input.token, o.output.token}

\* The vaults of the order are created, and with them the entities of their tokens.
handleAddOrder ==
    /\ Handles("AddOrderV3")
    /\ \E erc20 \in Asked(TokensOf(Event.e.order)) :
          Indexed(erc20, sg.balance, sg.active \cup {Event.e.order}, sg.temp)

handleRemoveOrder ==
    /\ Handles("RemoveOrderV3")
    /\ Indexed(sg.erc20, sg.balance, sg.active \ {Event.e.order}, sg.temp)

handleTakeOrder ==
    /\ Handles("TakeOrderV4")
    /\ LET o == Event.e.order
       IN  \E erc20 \in Asked(TokensOf(o)) :
             Indexed(erc20,
                     Balanced(Balanced(sg.balance, OutKey(o), -Event.e.input), InKey(o), Event.e.output),
                     sg.active, sg.temp)

\* ClearTemporaryData, by the hash of the transaction.
handleClear ==
    /\ Handles("ClearV3")
    /\ Indexed(sg.erc20, sg.balance, sg.active, {c \in sg.temp : c.tx # Event.tx} \cup {Event})

Traded(b, o, input, output) == Balanced(Balanced(b, InKey(o), input), OutKey(o), -output)

Bounty(b, k, amount) == IF amount > 0 THEN Balanced(b, k, amount) ELSE b

\* Both trades and then the bounties, with the data that ClearV3 has left.
AfterClear(c) ==
    LET s      == Event.e.change
        half   == Traded(sg.balance, c.e.alice, s.aliceInput, s.aliceOutput)
        traded == Traded(half, c.e.bob, s.bobInput, s.bobOutput)
        first  == Bounty(traded, <<Event.e.sender, c.e.alice.output.token, c.e.bounties[1]>>,
                         s.aliceOutput - s.bobInput)
    IN  Bounty(first, <<Event.e.sender, c.e.bob.output.token, c.e.bounties[2]>>,
               s.bobOutput - s.aliceInput)

\* Mutant: what ClearV3 has stored is not removed.
handleAfterClearKeeps ==
    /\ Handles("AfterClearV2")
    /\ \E c \in sg.temp :
          /\ c.tx = Event.tx
          /\ \E erc20 \in Asked(TokensOf(c.e.alice)) : Indexed(erc20, AfterClear(c), sg.active, sg.temp)

\* Without the data of its ClearV3 the event is only logged: the contract emits the
\* two events together, so that is never reached.
handleAfterClear ==
    /\ Handles("AfterClearV2")
    /\ \E c \in sg.temp :
          /\ c.tx = Event.tx
          /\ \E erc20 \in Asked(TokensOf(c.e.alice)) : Indexed(erc20, AfterClear(c), sg.active, sg.temp \ {c})

-----------------------------------------------------------------------------
(* The local DB                                                            *)

\* The rows of the events of one kind.
Rows(rows, kind) == {i \in rows : log[i].e.kind = kind}

\* A take names its order by owner and nonce; the latest AddOrderV3 before it counts.
TakenOrder(rows, i) ==
    LET added == {j \in Rows(rows, "AddOrderV3") :
                     /\ j <= i
                     /\ log[j].e.order.owner = log[i].e.order.owner
                     /\ log[j].e.order.nonce = log[i].e.order.nonce}
    IN  {log[j].e.order : j \in {j \in added : \A x \in added : x <= j}}

\* Mutant: the last AfterClearV2 of the transaction.
AfterOfLast(rows, i) ==
    LET afters == {j \in Rows(rows, "AfterClearV2") : j > i /\ log[j].tx = log[i].tx}
    IN  {j \in afters : \A x \in afters : j >= x}

\* The first AfterClearV2 after a ClearV3 of the same transaction.
AfterOf(rows, i) ==
    LET afters == {j \in Rows(rows, "AfterClearV2") : j > i /\ log[j].tx = log[i].tx}
    IN  {j \in afters : \A x \in afters : j <= x}

Delta(i, kind, k, amount) == [row |-> i, kind |-> kind, key |-> k, delta |-> amount]

DepositDeltas(rows) ==
    {Delta(i, "DEPOSIT", log[i].e.key, log[i].e.amount) : i \in Rows(rows, "DepositV2")}

WithdrawDeltas(rows) ==
    {Delta(i, "WITHDRAW", log[i].e.key, -log[i].e.amount) : i \in Rows(rows, "WithdrawV2")}

TakeDeltas(rows) ==
    UNION {UNION {{Delta(i, "TAKE_INPUT", InKey(o), log[i].e.output),
                   Delta(i, "TAKE_OUTPUT", OutKey(o), -log[i].e.input)} : o \in TakenOrder(rows, i)} :
              i \in Rows(rows, "TakeOrderV4")}

\* A clear has its rows at the place of its ClearV3.  Its orders have been added.
ClearsOf(rows) ==
    UNION {{[row |-> i, e |-> log[i].e, s |-> log[j].e.change] : j \in AfterOf(rows, i)} :
              i \in Rows(rows, "ClearV3")}

ClearDeltas(rows) ==
    UNION {{Delta(c.row, "CLEAR_ALICE_INPUT", InKey(c.e.alice), c.s.aliceInput),
            Delta(c.row, "CLEAR_ALICE_OUTPUT", OutKey(c.e.alice), -c.s.aliceOutput),
            Delta(c.row, "CLEAR_BOB_INPUT", InKey(c.e.bob), c.s.bobInput),
            Delta(c.row, "CLEAR_BOB_OUTPUT", OutKey(c.e.bob), -c.s.bobOutput)} :
              c \in ClearsOf(rows)}

\* A bounty of zero has no row.
BountyDeltas(rows) ==
    LET paid(c) == {Delta(c.row, "CLEAR_ALICE_BOUNTY", <<c.e.sender, c.e.alice.output.token, c.e.bounties[1]>>,
                          c.s.aliceOutput - c.s.bobInput),
                    Delta(c.row, "CLEAR_BOB_BOUNTY", <<c.e.sender, c.e.bob.output.token, c.e.bounties[2]>>,
                          c.s.bobOutput - c.s.aliceInput)}
    IN  {d \in UNION {paid(c) : c \in ClearsOf(rows)} : d.delta # 0}

\* The view vault_deltas.
vault_deltas(rows) ==
    UNION {DepositDeltas(rows), WithdrawDeltas(rows), TakeDeltas(rows), ClearDeltas(rows),
           BountyDeltas(rows)}

SumOf(deltas) == MapThenSumSet(LAMBDA d : d.delta, deltas)

\* Mutant: only what the window itself has changed.
running_balance_window(deltas, d, start) ==
    d.delta + SumOf({x \in deltas : x.key = d.key /\ x.row < d.row /\ log[x.row].block >= start})

\* The balance before the window, and then change by change.
running_balance(deltas, d, start) ==
    d.delta + SumOf({x \in deltas : x.key = d.key /\ x.row < d.row})

\* Rows with one key are one row of the table: of those the first that is inserted stays,
\* and the order of changes at one place of the log is not defined.
BalanceChanges(deltas, new, start) ==
    LET same(d) == {x \in new : x.key = d.key /\ x.row = d.row}
        tied    == {d \in new : same(d) # {d}}
        row(d)  == [row |-> d.row, key |-> d.key, delta |-> d.delta,
                    running |-> running_balance(deltas, d, start)]
    IN  {{row(d) : d \in (new \ tied) \cup first} : first \in Choices({same(d) : d \in tied})}

\* The balances of the vaults that the window has changed.
running_vault_balances(deltas, new) ==
    [k \in Keys |-> IF \E d \in new : d.key = k
                    THEN SumOf({d \in deltas : d.key = k}) ELSE db.balance[k]]

RunningAt(history, k, i) == {h.running : h \in {h \in history : h.key = k /\ h.row = i}}

Trade(history, i, side, o) ==
    [row |-> i, side |-> side, order |-> o,
     input |-> RunningAt(history, InKey(o), i), output |-> RunningAt(history, OutKey(o), i)]

TakeTrades(rows, window, history) ==
    UNION {{Trade(history, i, "take", o) : o \in TakenOrder(rows, i)} :
              i \in Rows(window, "TakeOrderV4")}

ClearTrades(rows, window, history) ==
    UNION {{Trade(history, i, "alice", log[i].e.alice), Trade(history, i, "bob", log[i].e.bob)} :
              i \in {i \in Rows(window, "ClearV3") : AfterOf(rows, i) # {}}}

derived_trades(rows, window, history) ==
    TakeTrades(rows, window, history) \cup ClearTrades(rows, window, history)

\* Of the events of one owner and nonce the latest counts: the order is active if it is
\* an AddOrderV3.
ActiveOrders(rows) ==
    LET events     == Rows(rows, "AddOrderV3") \cup Rows(rows, "RemoveOrderV3")
        id(i)      == <<log[i].e.order.owner, log[i].e.order.nonce>>
        latest     == {i \in events : \A j \in events : id(j) = id(i) => j <= i}
    IN  {log[i].e.order : i \in Rows(latest, "AddOrderV3")}

RowsUpTo(b) == {i \in DOMAIN log : log[i].block <= b}

\* One window is persisted: the rows, the derived deltas, the changes and balances, the trades.
SyncWindow(target) ==
    LET rows   == RowsUpTo(target)
        window == rows \ RowsUpTo(db.mark)
        new    == {d \in vault_deltas(rows) : d.row \in window}
        deltas == db.deltas \cup new
    IN  /\ db.mark < target /\ target < block
        /\ \E changes \in BalanceChanges(deltas, new, db.mark + 1) :
              db' = [mark |-> target, deltas |-> deltas,
                     history |-> db.history \cup changes,
                     balance |-> running_vault_balances(deltas, new),
                     trades |-> db.trades \cup derived_trades(rows, window, db.history \cup changes)]
        /\ UNCHANGED <<contract, sg>>

-----------------------------------------------------------------------------
\* In the first block the orders are added and their output vaults are funded.
Init ==
    LET zero   == [k \in Keys |-> 0]
        funded == [k \in Keys |-> IF k[3] # 0 /\ \E o \in Orders : k = OutKey(o) THEN 2 * Unit ELSE 0]
        fund   == {k \in Keys : funded[k] # 0}
        n      == Cardinality(Orders)
        f      == Cardinality(fund)
        adds   == CHOOSE b \in Bijection(1 .. n, Orders) : TRUE
        keys   == CHOOSE b \in Bijection(1 .. f, fund) : TRUE
    IN  /\ vaults = funded /\ dust = zero /\ live = Orders
        /\ log = [i \in 1 .. n + f |->
                    [block |-> 1, tx |-> i,
                     e |-> IF i <= n THEN [kind |-> "AddOrderV3", order |-> adds[i]]
                           ELSE [kind |-> "DepositV2", key |-> keys[i - n], amount |-> 2 * Unit]]]
        /\ after = [i \in DOMAIN log |->
              State([k \in Keys |-> IF \E j \in 1 .. i - n : keys[j] = k THEN 2 * Unit ELSE 0],
                    zero, {adds[j] : j \in 1 .. IF i < n THEN i ELSE n})]
        /\ block = 2 /\ tx = Len(log) + 1 /\ ops = 0
        /\ sg = [next |-> 1, erc20 |-> [t \in Tokens |-> "none"], balance |-> zero, active |-> {}, temp |-> {}]
        /\ db = [mark |-> 0, deltas |-> {}, history |-> {}, balance |-> zero, trades |-> {}]

Contract ==
    \/ \E k \in Keys, amount \in Deposits : deposit5(k, amount) \/ withdraw5(k, amount)
    \/ \E o \in Orders : addOrder5(o) \/ removeOrder4(o)
    \/ \E o \in Orders, t \in Takes : takeOrder(o, t[1], t[2])
    \/ \E a, b \in Orders, s \in Senders, v \in Bounties, c \in ClearStates : clear4(a, b, s, v, c)
    \/ NewTransaction
    \/ Mine

Subgraph ==
    \/ handleDeposit
    \/ handleWithdraw
    \/ handleAddOrder
    \/ handleRemoveOrder
    \/ handleTakeOrder
    \/ handleClear
    \/ handleAfterClear

Next == Contract \/ Subgraph \/ \E target \in 1 .. MaxBlock : SyncWindow(target)

Spec == Init /\ [][Next]_vars

-----------------------------------------------------------------------------
(* Properties                                                              *)

Wallet(k) == k[3] = 0

\* The deposits of a vault that the subgraph has left out, because its token's decimals are null.
LeftOut(k) ==
    IF sg.erc20[k[2]] = "null"
    THEN SumOf({[row |-> i, delta |-> log[i].e.amount] :
                  i \in {i \in Rows(1 .. sg.next - 1, "DepositV2") : log[i].e.key = k}})
    ELSE 0

\* After every event the subgraph's orders and balances are the contract's, up to the
\* part of a base unit by which deposits are rounded up; of a token that did not answer
\* with its decimals when it was first named, every deposit and nothing else is missing.
\* Within a clear they are those before it, and what ClearV3 leaves for AfterClearV2 is
\* gone afterwards, however many clears one transaction makes.
SubgraphAgrees ==
    sg.next > 1 =>
        LET clearing == log[sg.next - 1].e.kind = "ClearV3"
            state    == after[IF clearing THEN sg.next - 2 ELSE sg.next - 1]
        IN  /\ \A k \in Keys : Wallet(k) \/ sg.balance[k] + LeftOut(k) = state.balance[k]
            /\ sg.active = state.live
            /\ sg.temp = IF clearing THEN {log[sg.next - 1]} ELSE {}

\* However the blocks are cut into windows, the local DB's balances and active orders
\* are the contract's at the block of the watermark, up to the same rounding.
LocalAgrees ==
    db.mark > 0 =>
        LET rows  == RowsUpTo(db.mark)
            state == after[Max(rows)]
        IN  /\ \A k \in Keys : Wallet(k) \/ db.balance[k] = state.balance[k]
            /\ ActiveOrders(rows) = state.live

\* Every take and both sides of every clear have one trade, of the order that was
\* traded; it shows the balances of the order's vaults after the event, unless a bounty
\* of the same clear went to the vault too.
TradesReplay ==
    LET rows   == RowsUpTo(db.mark)
        sides(i) == CASE log[i].e.kind = "TakeOrderV4" -> {<<i, "take", log[i].e.order>>}
                      [] log[i].e.kind = "ClearV3" -> {<<i, "alice", log[i].e.alice>>, <<i, "bob", log[i].e.bob>>}
                      [] OTHER -> {}
        shows(t, k, shown) ==
            \/ Wallet(k)
            \/ \E x, y \in db.deltas : x # y /\ x.row = t.row /\ y.row = t.row /\ x.key = k /\ y.key = k
            \/ shown = {after[t.row].balance[k]}
    IN  /\ {<<t.row, t.side, t.order>> : t \in db.trades} = UNION {sides(i) : i \in rows}
        /\ Cardinality(db.trades) = Cardinality(UNION {sides(i) : i \in rows})
        /\ \A t \in db.trades : shows(t, InKey(t.order), t.input) /\ shows(t, OutKey(t.order), t.output)

\* The balance changes that the local DB lists for a vault add up to its balance.
HistoryAddsUp ==
    \A k \in Keys : SumOf({h \in db.history : h.key = k}) = db.balance[k]
=============================================================================
