\* A start-up whose query of names failed deletes the CR of a paused sandbox.
CONSTANTS
    Sandboxes = {s1}
    TestSandboxes = {s1}
    Workers = {w1, w2}
    Watcher = watcher
    Reaper = reaper
    NoSandbox = NoSandbox
    MaxBoots = 1
SPECIFICATION Spec
PROPERTY StartupKeepsPaused
CHECK_DEADLOCK FALSE
