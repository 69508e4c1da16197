\* Two application threads, the worker and two links that come and go.
CONSTANTS
    a = a
    b = b
    Callers = {a, b}
    Calls <- MCCalls
    Workers = {v, w}
    Nobody = nobody
    Link <- MCLinks
    OneShot <- MCOneShot
    NoLink = "none"
SPECIFICATION FairSpec
INVARIANT TypeOK
INVARIANT AtMostOneWorker
INVARIANT StartedRuns
INVARIANT AnnouncedIsActive
PROPERTY CallsReturn
PROPERTY StopEndsWorker
