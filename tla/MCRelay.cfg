\* Two tickets of one workspace whose cap is one: the second can only be minted
\* when the first has left the map, while late requests for it still arrive.
\* Three requests: two for one side and one for the other, or any other mix.
CONSTANTS
    Tickets = {t1, t2}
    Workspaces = {ws}
    Handlers = {h1, h2, h3}
    NoHandler = NoHandler
    NoTicket = NoTicket
    MaxPerWorkspace = 1
SPECIFICATION FairSpec
INVARIANTS TypeOK WaitingIsHeld CapExact
PROPERTIES Answered ImplementsSession
\* Every ticket used and every request answered: nothing is left to do.
CHECK_DEADLOCK FALSE
