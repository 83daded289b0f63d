\* Tabs and swipes, process deaths anywhere.
CONSTANTS
    ticket = ticket
    groceries = groceries
    plan = plan
    u1 = u1
    u2 = u2
    afternoon = afternoon
    morning = morning
    None = None
    Titles <- MCTitles
    Seed <- MCSeed
    UserIds <- MCUserIds
    Times <- MCTimes
    BadTimes <- MCBadTimes
    Epoch = afternoon
    Drags = TRUE
SPECIFICATION FairSpec
INVARIANTS
    TypeOK
    StoredTodos
PROPERTIES
    UserKept
    ListsAreDurable
    LaunchAndChecksEnd
