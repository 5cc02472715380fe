\* One sandbox that is also a test sandbox, two requests at a time beside the
\* watcher and the reaper, and one crash or rolling update with its start-up.
CONSTANTS
    Sandboxes = {s1}
    TestSandboxes = {s1}
    Workers = {w1, w2}
    Watcher = watcher
    Reaper = reaper
    NoSandbox = NoSandbox
    MaxBoots = 1
SPECIFICATION Spec
SYMMETRY Symmetry
INVARIANTS TypeOK LiveRowHasCR 
PROPERTY DeletedStaysDeleted
\* Once the sandbox is deleted, nobody has anything left to do.
CHECK_DEADLOCK FALSE
