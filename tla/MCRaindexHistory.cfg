CONSTANTS
    alice = alice
    bob = bob
    x = x
    y = y
    Tokens = {x, y}
    Mute = {y}
    VaultIds = {0, 1}
    Orders <- MCOrders
    Senders = {bob}
    Bounties <- MCBounties
    Unit = 2
    Deposits = {3}
    Takes <- MCTakes
    ClearStates <- MCClearStates
    MaxOps = 2
    MaxBlock = 4
SPECIFICATION Spec
INVARIANT
    HistoryAddsUp
CHECK_DEADLOCK FALSE
