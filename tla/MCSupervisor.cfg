\* Two calls that may race, the reaper, three subprocesses (both calls spawn,
\* and one more after a crash or a shutdown), two turns, one restart.
CONSTANTS
    Callers = {c1, c2}
    Stoppers = {reaper}
    Children = {p1, p2, p3}
    NoChild = NoChild
    MaxWork = 2
    MaxRestarts = 1
SPECIFICATION FairSpec
INVARIANTS TypeOK NoLeakedChild OneServed TurnsSurvive
PROPERTY UnregisteredStops
\* Subprocesses, turns and restarts used up: nothing is left to do.
CHECK_DEADLOCK FALSE
