\* Pages are selected by tab only.
CONSTANTS
    ticket = ticket
    groceries = groceries
    plan = plan
    u1 = u1
    u2 = u2
    afternoon = afternoon
    morning = morning
    None = None
    Titles <- MCTitles
    Seed <- MCSeed
    UserIds <- MCUserIds
    Times <- MCTimes
    BadTimes <- MCBadTimes
    Epoch = afternoon
    Drags = FALSE
SPECIFICATION Spec
INVARIANTS
    TabsAreRight
