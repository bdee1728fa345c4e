SPECIFICATION Spec
CONSTANTS
    alice = alice
    bob = bob
    dai = dai
    eth = eth
    Raindex = Raindex
    Accounts <- MCAccounts
    Tokens <- MCTokens
    VaultIds <- MCVaultIds
    Unit <- MCUnit
    Orders <- MCOrders
    Evaluations <- MCEvaluations
    Budget <- MCBudget
    TaskWrites <- MCTaskWrites
    Amounts <- MCAmounts
    TakeConfigs <- MCTakeConfigs
    Transfers <- MCTransfers
    Approvals <- MCApprovals
    InitWallet <- MCInitWallet
    InitAllow <- MCInitAllow
    LoanAmounts <- MCLoanAmounts
    MaxUint = 9
    MaxDepth = 2
INVARIANTS
    BooksBalance
    Solvent
    VaultZeroEmpty
    BudgetKept
PROPERTY OwnersOnly
VIEW Unsaved
