\* The playground reaper removes the row of an expired test sandbox and leaves
\* the CR behind.
CONSTANTS
    Sandboxes = {s1}
    TestSandboxes = {s1}
    Workers = {w1, w2}
    Watcher = watcher
    Reaper = reaper
    NoSandbox = NoSandbox
    MaxBoots = 1
SPECIFICATION Spec
PROPERTY ReaperDeletesPod
CHECK_DEADLOCK FALSE
