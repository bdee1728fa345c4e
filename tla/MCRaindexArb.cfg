SPECIFICATION Spec
CONSTANTS
    Token = {a, b, c}
    Eth = eth
    Raindex = raindex
    Sender = sender
    Other = other
    Self = self
    Pool = pool
    MaxHeld = 1
    MaxEth = 1
    MaxLeft = 1
    MaxStray = 1
    MaxDepth = 2
INVARIANTS EmptyBetweenUses OnlyOwnSteps
SYMMETRY TokenSymmetry
