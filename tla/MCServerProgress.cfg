\* The actors of the sandbox run, no crash (a crash counts as a reason not to make
\* progress), and no symmetry, which a liveness check does not bear. Two replicas
\* that may fire an automation, one of which may crash.
CONSTANTS
    Sandboxes = {s1}
    TestSandboxes = {s1}
    Workers = {w1, w2}
    Watcher = watcher
    Reaper = reaper
    NoSandbox = NoSandbox
    MaxBoots = 0
    Schedulers = {r1, r2}
    Editors = {e1}
    MaxCrashes = 1
SPECIFICATION ServerSpec
INVARIANTS AutomationTypeOK OneRunInLease
  
\* Once the sandbox is deleted, nobody has anything left to do.
CHECK_DEADLOCK FALSE
