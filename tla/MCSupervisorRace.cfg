\* Two calls race to spawn: discarding the loser's spawn removes the directory
\* that the winner works in.
CONSTANTS
    Callers = {c1, c2}
    Stoppers = {reaper}
    Children = {p1, p2}
    NoChild = NoChild
    MaxWork = 1
    MaxRestarts = 0
SPECIFICATION Spec
INVARIANT RegisteredHasHome
CHECK_DEADLOCK FALSE
