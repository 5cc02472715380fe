\* A deletion that meets a sandbox in a transitional status removes the row and
\* leaves the CR behind.
CONSTANTS
    Sandboxes = {s1}
    TestSandboxes = {s1}
    Workers = {w1, w2}
    Watcher = watcher
    Reaper = reaper
    NoSandbox = NoSandbox
    MaxBoots = 1
SPECIFICATION Spec
PROPERTY DeleteRemovesCR
CHECK_DEADLOCK FALSE
