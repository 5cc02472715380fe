\* A download that broke off is answered as a complete one.
CONSTANTS
    Tickets = {t1}
    Workspaces = {ws}
    Handlers = {h1, h2}
    NoHandler = NoHandler
    NoTicket = NoTicket
    MaxPerWorkspace = 1
SPECIFICATION Spec
INVARIANT StreamedIsComplete
CHECK_DEADLOCK FALSE
