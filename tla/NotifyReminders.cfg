\* Test mode, as built, and all that may befall the process and the service.
CONSTANTS
    None = None
    TestMode = TRUE
    Todos <- MCTodos
    Readings <- MCWholeDay
    Positions <- MCNowhere
    Loads = {FALSE}
    Faults = {"kill", "revoke", "stop"}
    MaxLoops = 2
SPECIFICATION RemindersSpec
PROPERTIES
    RemindersGoOn
