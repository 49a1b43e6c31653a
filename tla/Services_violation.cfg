SPECIFICATION ServicesFairSpec
CONSTANTS
    Requests = {r1, r2}
    Players = {1, 2, 3}
    u1 = u1
    u2 = u2
    u3 = u3
    Urls <- MCUrls
    NoUrl = none
    Lists <- MCLists
    Capacity = 2
    MaxDefer = 1
    Budgets <- MCBudgets
PROPERTIES
    CallbackInvoked
CHECK_DEADLOCK FALSE
