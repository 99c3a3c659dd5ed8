SPECIFICATION FairSpec
CONSTANTS
    Worker = {w1, w2}
    paid = paid
    free = free
    Tenant = {paid, free}
    Paid = {paid}
    Sandbox = {1, 2, 3}
    TenantOf <- MCTenantOf
    Deadline <- MCDeadline
    MaxBudget = 1
    Never = 9
    NULL = NULL
INVARIANTS
    GlobalAgrees
    LocalAgrees
    KeepsGuarantee

    
