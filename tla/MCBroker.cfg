\* Two calls, each of which gets a connection twice, and two connections: the
\* second replaces one that was reaped, that failed or that a timeout has shut.
CONSTANTS
    Calls = {t1, t2}
    MaxDials = 2
SPECIFICATION FairBrokerSpec
INVARIANTS BrokerTypeOK CallsSound
PROPERTY CallsAnswered
\* Every call answered and the pool closed: nothing is left to do.
CHECK_DEADLOCK FALSE
